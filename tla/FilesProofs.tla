------------------------------ MODULE FilesProofs ------------------------------
(***************************************************************************)
(* Proofs about the three components that MCFiles runs: the open file of a *)
(* connection (OpenFile), extended attributes (ExtAttr) and the path query *)
(* (QueryPath), for any files, handles, lists, sizes, attributes and any   *)
(* number of lost sessions.                                                *)
(***************************************************************************)
EXTENDS OpenFile, ExtAttr, QueryPath, Induction, FiniteSetTheorems, TLAPS

-------------------------------------------------------------------------------
(* The open file.  The offset: an unsigned number that stands for a signed *)
(* one.                                                                    *)

\* Where the file pointer can be: the host moves it by at most Reach, a read
\* or a write moves it on inside a file.
Span == -Reach .. Reach + MaxSize

LEMMA WrappedSmall ==
    ASSUME NEW i \in Int, 0 <= i, i < Word
    PROVE  Wrapped(i) = i
  BY WidthAssumption DEF Wrapped

LEMMA WrappedBelow ==
    ASSUME NEW i \in Int, -Word <= i, i < 0
    PROVE  Wrapped(i) = i + Word
  BY WidthAssumption DEF Wrapped

\* Reading the offset as a signed number gives the position back.
LEMMA SignedWrapped ==
    ASSUME NEW i \in Span
    PROVE  Wrapped(i) \in 0 .. Word - 1 /\ Signed(Wrapped(i)) = i
  BY WidthAssumption, WrappedSmall, WrappedBelow DEF Span, Signed

-------------------------------------------------------------------------------
(* The open file: the inductive invariant.                                 *)

InSpan == pos \in Span /\ offset = Wrapped(pos)

\* An open file has a name, and a handle the server knows.
OpenIsNamed == fd # Closed => fname \in Files /\ open[fd] \in Files

\* As long as handle 0 is not in use, the name that smbwrp_close will use is
\* that of the open file, and what it will apply is what the host asked for.
Remembered ==
    (0 \in Handles => open[0] = NoFile) /\ fd # Closed =>
        /\ fname = open[fd]
        /\ openattr # 0 => due.attr = openattr
        /\ CloseMtime = due.time

FileInv == /\ FileTypeOK
           /\ InSpan
           /\ OpenIsNamed
           /\ NothingLeftBehind
           /\ Remembered

\* The handlers that only answer.
LEMMA AnswersOnly ==
    ASSUME FileInv, UNCHANGED <<connFile, onServer, due, pos, broken>>
    PROVE  FileInv'
  BY DEF FileInv, FileTypeOK, InSpan, OpenIsNamed, NothingLeftBehind, Forgotten, Remembered,
         CloseMtime, connFile, onServer

LEMMA FileInvInit == FileInit => FileInv
<1> SUFFICES ASSUME FileInit PROVE FileInv
  OBVIOUS
<1> USE DEF FileInit, Closed
<1>1. Word \in Nat /\ 0 < Word /\ 0 \in Span
  BY WidthAssumption DEF Span
<1>2. FileTypeOK
  BY <1>1, WidthAssumption, AttrsAssumption
     DEF FileTypeOK, Times, Owed, OwedNothing, NotAsked
<1>3. InSpan
  BY <1>1, WrappedSmall DEF InSpan
<1>4. OpenIsNamed /\ NothingLeftBehind /\ Remembered
  BY DEF OpenIsNamed, NothingLeftBehind, Forgotten, Remembered
<1>5. QED BY <1>2, <1>3, <1>4 DEF FileInv

-------------------------------------------------------------------------------
(* The open file: moving the file pointer.                                 *)

\* A move to i from any position.
LEMMA MovePointer ==
    ASSUME FileInv, NEW i \in Span,
           offset' = Wrapped(i), pos' = i,
           fd # Closed,
           UNCHANGED <<fd, fname, openattr, mtime, updatetime, onServer, due, broken>>
    PROVE  FileInv'
<1>1. offset' \in 0 .. Word - 1 /\ pos' \in -Word .. Word
  BY SignedWrapped, WidthAssumption DEF Span
<1>2. FileTypeOK'
  BY <1>1 DEF FileInv, FileTypeOK, onServer
<1>3. InSpan'
  BY DEF InSpan
<1>4. OpenIsNamed' /\ Remembered'
  BY DEF FileInv, OpenIsNamed, Remembered, CloseMtime, onServer
<1>5. NothingLeftBehind'
  BY DEF FileInv, NothingLeftBehind, Forgotten, onServer
<1>6. QED BY <1>2, <1>3, <1>4, <1>5 DEF FileInv

\* A handle the server has a file behind is an open one.
LEMMA TargetOpen ==
    ASSUME FileInv, Target # NoFile
    PROVE  fd # Closed /\ fd \in Handles /\ Target \in Files
  BY HandlesAssumption DEF FileInv, FileTypeOK, OpenIsNamed, Target, Closed

\* A transfer of n bytes from a position that is not below zero stays in reach,
\* as long as it ends inside a file of MaxSize.
LEMMA TransferInSpan ==
    ASSUME FileInv, NEW n \in Nat, Signed(offset) >= 0, n = 0 \/ offset + n <= MaxSize
    PROVE  offset = pos /\ offset + n = pos + n /\ pos + n \in Span
<1>1. Signed(offset) = pos /\ pos \in Span
  BY SignedWrapped DEF FileInv, InSpan
<1>2. pos >= 0 /\ pos < Word /\ pos \in Int
  BY <1>1, WidthAssumption DEF Span
<1>3. offset = pos
  BY <1>2, WrappedSmall DEF FileInv, InSpan
<1>4. QED
  BY <1>1, <1>2, <1>3, WidthAssumption DEF Span

LEMMA ReadKeeps == ASSUME FileInv, NEW n \in 0 .. MaxSize, Read(n) PROVE FileInv'
<1> DEFINE got == Greater(0, Lesser(n, size[Target] - offset))
<1>1. fd # Closed /\ Target \in Files
  BY TargetOpen DEF Read
<1>2. size[Target] \in 0 .. MaxSize /\ offset \in Nat /\ MaxSize \in Nat
  BY <1>1, WidthAssumption DEF FileInv, FileTypeOK
<1>3. got \in Nat /\ (got = 0 \/ offset + got <= MaxSize)
  BY <1>2 DEF Greater, Lesser
<1>4. Signed(offset) >= 0 /\ offset' = Wrapped(offset + got) /\ pos' = pos + got
  BY DEF Read, Advance
<1>5. offset + got = pos + got /\ pos + got \in Span
  BY <1>3, <1>4, TransferInSpan
<1>6. QED
  BY <1>1, <1>4, <1>5, MovePointer DEF Read

\* A write also changes the size, and is what the host last asked for.
LEMMA WriteKeeps == ASSUME FileInv, NEW n \in 0 .. MaxSize, Write(n) PROVE FileInv'
<1>1. fd # Closed /\ fd \in Handles /\ Target \in Files
  BY TargetOpen DEF Write
<1>2. offset + n = pos + n /\ pos + n \in Span /\ offset \in Nat /\ n \in Nat
  BY WidthAssumption, TransferInSpan DEF Write, FileInv, FileTypeOK
<1>3. offset' = Wrapped(pos + n) /\ pos' = pos + n
  BY <1>2 DEF Write, Advance
<1>4. offset' \in 0 .. Word - 1 /\ pos' \in -Word .. Word
  BY <1>2, <1>3, SignedWrapped, WidthAssumption DEF Span
<1>5. size' \in [Files -> 0 .. MaxSize]
  <2>1. \A f \in Files : size[f] \in 0 .. MaxSize
    BY DEF FileInv, FileTypeOK
  <2>2. Greater(size[Target], offset + n) \in 0 .. MaxSize
    BY <2>1, <1>1, <1>2, WidthAssumption DEF Greater, Write
  <2>3. QED
    BY <2>1, <2>2, <1>1 DEF Write, FileInv, FileTypeOK
<1>6. due' \in Owed /\ due'.time = "now" /\ due'.attr = due.attr
  BY DEF Write, FileInv, FileTypeOK, Owed, Times
<1>7. FileTypeOK'
  BY <1>4, <1>5, <1>6 DEF Write, FileInv, FileTypeOK
<1>8. InSpan'
  BY <1>2, <1>3 DEF InSpan
<1>9. OpenIsNamed' /\ NothingLeftBehind'
  BY <1>1 DEF Write, FileInv, OpenIsNamed, NothingLeftBehind, Forgotten
<1>10. Remembered'
  BY <1>6, <1>1 DEF Write, FileInv, Remembered, CloseMtime
<1>11. QED BY <1>7, <1>8, <1>9, <1>10 DEF FileInv

\* A failed write and a new size change sizes only.
LEMMA SizesOnly ==
    ASSUME FileInv, size' \in [Files -> 0 .. MaxSize],
           UNCHANGED <<connFile, open, attr, time, due, pos, broken>>
    PROVE  FileInv'
  BY DEF FileInv, FileTypeOK, InSpan, OpenIsNamed, NothingLeftBehind, Forgotten, Remembered,
         CloseMtime, connFile

LEMMA WriteFailsKeeps == ASSUME FileInv, NEW n \in 0 .. MaxSize, WriteFails(n) PROVE FileInv'
<1>1. size \in [Files -> 0 .. MaxSize] /\ offset \in Nat /\ MaxSize \in Nat
  BY WidthAssumption DEF FileInv, FileTypeOK
<1> DEFINE partly == [f \in Files |->
                        IF f = Target /\ Signed(offset) >= 0 /\ offset + n <= MaxSize
                        THEN Greater(size[f], offset + n) ELSE size[f]]
<1>2. partly \in [Files -> 0 .. MaxSize]
  <2> SUFFICES ASSUME NEW f \in Files PROVE partly[f] \in 0 .. MaxSize
    OBVIOUS
  <2>1. size[f] \in 0 .. MaxSize
    BY <1>1
  <2>2. QED BY <1>1, <2>1 DEF Greater
<1>3. QED
  BY <1>1, <1>2, SizesOnly DEF WriteFails

LEMMA NewSizeKeeps == ASSUME FileInv, NEW n \in 0 .. MaxSize, NewSize(n) PROVE FileInv'
<1>1. size' \in [Files -> 0 .. MaxSize]
  BY DEF NewSize, FileInv, FileTypeOK
<1>2. QED BY <1>1, SizesOnly DEF NewSize

LEMMA SeekKeeps == ASSUME FileInv, NEW d \in -Reach .. Reach, Seek(d) PROVE FileInv'
<1>1. PICK i \in -Reach .. Reach : MoveTo(i)
  BY DEF Seek, MoveTo
<1>2. i \in Span
  BY WidthAssumption DEF Span
<1>3. QED
  BY <1>1, <1>2, MovePointer DEF MoveTo, Seek

-------------------------------------------------------------------------------
(* The open file: opening, and what is remembered.                         *)

LEMMA OpenFailsKeeps ==
    ASSUME FileInv, NEW f \in Files, NEW a \in Attrs, OpenFails(f, a)
    PROVE  FileInv'
<1>1. FileTypeOK' /\ InSpan'
  BY DEF OpenFails, Named, FileInv, FileTypeOK, InSpan, onServer
<1>2. OpenIsNamed' /\ NothingLeftBehind'
  BY DEF OpenFails, Named, FileInv, OpenIsNamed, NothingLeftBehind, Forgotten, onServer
\* With a file open this can only be over handle 0, which is then in use.
<1>3. Remembered'
  <2>1. fd # Closed => fd = 0 /\ 0 \in Handles
    BY HandlesAssumption DEF OpenFails, Busy, FileInv, FileTypeOK, Closed
  <2>2. fd # Closed => open[0] # NoFile
    BY <2>1, HandlesAssumption DEF FileInv, OpenIsNamed
  <2>3. QED
    BY <2>1, <2>2 DEF OpenFails, Remembered, onServer
<1>4. QED BY <1>1, <1>2, <1>3 DEF FileInv

LEMMA OpenKeeps ==
    ASSUME FileInv, NEW f \in Files, NEW a \in Attrs, NEW truncate \in BOOLEAN,
           Open(f, a, truncate)
    PROVE  FileInv'
<1>1. PICK h \in Handles : /\ open[h] = NoFile /\ fd' = h
                           /\ open' = [open EXCEPT ![h] = f]
                           /\ broken' = broken \ {h}
  BY DEF Open
<1>2. h # Closed /\ NoFile \notin Files /\ open \in [Handles -> Files \cup {NoFile}]
  BY HandlesAssumption DEF Closed, FileInv, FileTypeOK
<1>3. open' \in [Handles -> Files \cup {NoFile}] /\ open'[h] = f
  BY <1>1, <1>2
<1>4. fd = Closed \/ (fd = 0 /\ 0 \in Handles)
  <2>1. ~(fd > 0) /\ fd \in Handles \cup {Closed}
    BY DEF Open, Busy, FileInv, FileTypeOK
  <2>2. QED BY <2>1, HandlesAssumption DEF Closed
<1>5. size' \in [Files -> 0 .. MaxSize]
  BY WidthAssumption DEF Open, FileInv, FileTypeOK
<1>6. due' = [attr |-> IF a = 0 THEN NotAsked ELSE a, time |-> "none"] /\ due' \in Owed
  BY DEF Open, Owed, Times
<1>7. FileTypeOK'
  BY <1>1, <1>3, <1>5, <1>6, WidthAssumption DEF Open, Named, FileInv, FileTypeOK
<1>8. InSpan'
  <2>1. 0 \in Span /\ Wrapped(0) = 0
    BY WidthAssumption, WrappedSmall DEF Span
  <2>2. QED BY <2>1 DEF Open, InSpan
<1>9. OpenIsNamed'
  BY <1>1, <1>3 DEF Open, Named, OpenIsNamed
<1>10. NothingLeftBehind'
  <2>1. Forgotten' \subseteq (Forgotten \cup {0}) \ {h}
    <3>1. Forgotten' \subseteq (Forgotten \cup {fd}) \ {h}
      BY <1>1, <1>2 DEF Forgotten
    <3>2. fd \in Forgotten' => fd = 0
      BY <1>4, HandlesAssumption DEF Forgotten, Closed
    <3>3. QED BY <3>1, <3>2
  <2>2. Forgotten \subseteq broken \cup {0}
    BY DEF FileInv, NothingLeftBehind
  <2>3. Forgotten' \subseteq broken' \cup {0}
    BY <2>1, <2>2, <1>1
  <2>4. QED
    BY <2>3, <1>1, <1>2 DEF NothingLeftBehind
<1>11. Remembered'
  <2>1. CASE fd = Closed
    <3>1. mtime = "none" /\ mtime' = mtime /\ updatetime' = 0
      BY <2>1 DEF Open, FileInv, NothingLeftBehind
    <3>2. fname' = open'[fd'] /\ openattr' = a
      BY <1>1, <1>3 DEF Open, Named
    <3>3. due'.time = "none" /\ (a # 0 => due'.attr = a)
      BY <1>6
    <3>4. QED BY <3>1, <3>2, <3>3 DEF Remembered, CloseMtime
  <2>2. CASE fd # Closed
    <3>1. fd = 0 /\ 0 \in Handles /\ open[0] \in Files
      BY <2>2, <1>4 DEF FileInv, OpenIsNamed
    <3>2. open'[0] # NoFile
      BY <3>1, <1>1, <1>2
    <3>3. QED BY <3>1, <3>2 DEF Remembered
  <2>3. QED BY <2>1, <2>2
<1>12. QED BY <1>7, <1>8, <1>9, <1>10, <1>11 DEF FileInv

LEMMA SetInfoKeeps == ASSUME FileInv, NEW a \in Attrs, SetInfo(a) PROVE FileInv'
<1>1. FileTypeOK' /\ InSpan'
  BY DEF SetInfo, FileInv, FileTypeOK, InSpan, onServer, Times, Owed
<1>2. OpenIsNamed' /\ NothingLeftBehind'
  BY DEF SetInfo, FileInv, OpenIsNamed, NothingLeftBehind, Forgotten, onServer
<1>3. Remembered'
  BY DEF SetInfo, FileInv, Remembered, CloseMtime, onServer
<1>4. QED BY <1>1, <1>2, <1>3 DEF FileInv

-------------------------------------------------------------------------------
(* The open file: closing.                                                 *)

\* What a connection without a file owes: nothing, whatever the server has.
LEMMA AfterReset ==
    ASSUME FileInv, Reset, due' = OwedNothing, pos' = 0,
           open' \in [Handles -> Files \cup {NoFile}],
           attr' \in [Files -> Attrs], time' \in [Files -> Times],
           size' = size, broken' \subseteq Handles,
           {h \in Handles : open'[h] # NoFile} \subseteq broken' \cup {0}
    PROVE  FileInv'
<1>1. /\ fd' = Closed /\ fname' = NoFile /\ openattr' = 0
      /\ mtime' = "none" /\ updatetime' = 0 /\ offset' = 0
  BY DEF Reset
<1>2. 0 \in Span /\ Wrapped(0) = 0
  BY WidthAssumption, WrappedSmall DEF Span
<1>3. due' \in Owed
  BY DEF OwedNothing, Owed, Times
<1>4. FileTypeOK'
  BY <1>1, <1>3, AttrsAssumption, WidthAssumption DEF FileInv, FileTypeOK, Times
<1>5. InSpan' /\ OpenIsNamed' /\ Remembered'
  BY <1>1, <1>2 DEF InSpan, OpenIsNamed, Remembered
<1>6. NothingLeftBehind'
  BY <1>1 DEF NothingLeftBehind, Forgotten
<1>7. QED BY <1>4, <1>5, <1>6 DEF FileInv

\* smbwrp_close leaves attributes and times of the files, applied or not.
LEMMA AppliedTypes ==
    ASSUME FileInv, NEW call, CloseFile(call)
    PROVE  attr' \in [Files -> Attrs] /\ time' \in [Files -> Times]
<1>1. CloseMtime \in Times /\ openattr \in Attrs
  BY DEF CloseMtime, FileInv, FileTypeOK, Times
<1>2. attr \in [Files -> Attrs] /\ time \in [Files -> Times]
  BY DEF FileInv, FileTypeOK
<1>3. CASE Applied
  BY <1>1, <1>2, <1>3 DEF Applied
<1>4. CASE UNCHANGED <<attr, time>>
  BY <1>2, <1>4
<1>5. QED BY <1>3, <1>4 DEF CloseFile

\* Every handle but the one that is closed was remembered as broken, or is 0.
LEMMA CloseKeeps == ASSUME FileInv, Close PROVE FileInv'
<1>1. /\ Reset /\ due' = OwedNothing /\ pos' = 0 /\ size' = size
      /\ broken' = broken /\ open' = [open EXCEPT ![fd] = NoFile]
  BY DEF Close, CloseFile, Released
<1>2. attr' \in [Files -> Attrs] /\ time' \in [Files -> Times]
  BY AppliedTypes DEF Close
<1>3. open \in [Handles -> Files \cup {NoFile}] /\ broken \subseteq Handles
  BY DEF FileInv, FileTypeOK
<1>4. open' \in [Handles -> Files \cup {NoFile}]
  BY <1>1, <1>3
<1>5. {h \in Handles : open'[h] # NoFile} \subseteq Forgotten
  BY <1>1, <1>3 DEF Forgotten
<1>6. Forgotten \subseteq broken \cup {0}
  BY DEF FileInv, NothingLeftBehind
<1>7. {h \in Handles : open'[h] # NoFile} \subseteq broken' \cup {0}
  BY <1>1, <1>5, <1>6
<1>8. QED
  BY <1>1, <1>2, <1>3, <1>4, <1>7, AfterReset

LEMMA CloseFailsKeeps == ASSUME FileInv, CloseFails PROVE FileInv'
<1>1. /\ Reset /\ due' = OwedNothing /\ pos' = 0 /\ UNCHANGED onServer
      /\ broken' = broken \cup {fd} /\ fd # Closed
  BY DEF CloseFails
<1>2. FileTypeOK
  BY DEF FileInv
<1>3. {h \in Handles : open'[h] # NoFile} \subseteq Forgotten \cup {fd}
  BY <1>1 DEF Forgotten, onServer
<1>4. Forgotten \subseteq broken \cup {0}
  BY DEF FileInv, NothingLeftBehind
<1>5. {h \in Handles : open'[h] # NoFile} \subseteq broken' \cup {0}
  BY <1>1, <1>3, <1>4
<1>6. QED
  BY <1>1, <1>2, <1>5, AfterReset DEF FileTypeOK, onServer

LEMMA FreeKeeps == ASSUME FileInv, Free PROVE FileInv'
<1>1. /\ Reset /\ due' = OwedNothing /\ pos' = 0 /\ size' = size
      /\ open' = [h \in Handles |-> NoFile] /\ broken' = {}
  BY DEF Free, CloseFile
<1>2. attr' \in [Files -> Attrs] /\ time' \in [Files -> Times]
  BY AppliedTypes DEF Free, FileInv, FileTypeOK
<1>3. open' \in [Handles -> Files \cup {NoFile}]
  BY <1>1
<1>4. {h \in Handles : open'[h] # NoFile} = {}
  BY <1>1
<1>5. QED
  BY <1>1, <1>2, <1>3, <1>4, AfterReset

-------------------------------------------------------------------------------
LEMMA FileInvNext == FileInv /\ [FileNext]_fileVars => FileInv'
<1> SUFFICES ASSUME FileInv, [FileNext]_fileVars PROVE FileInv'
  OBVIOUS
<1>1. CASE OpenRefused \/ ReadFails \/ InvalidHandle \/ NewSizeFails \/ SeekRefused
           \/ SetInfoRefused
  BY <1>1, AnswersOnly DEF OpenRefused, ReadFails, InvalidHandle, NewSizeFails,
                           SeekRefused, SetInfoRefused, Only
<1>2. ASSUME NEW f \in Files, NEW a \in Attrs, OpenFails(f, a) PROVE FileInv'
  BY <1>2, OpenFailsKeeps
<1>3. ASSUME NEW f \in Files, NEW a \in Attrs, NEW truncate \in BOOLEAN,
             Open(f, a, truncate)
      PROVE  FileInv'
  BY <1>3, OpenKeeps
<1>4. ASSUME NEW n \in 0 .. MaxSize, Read(n) \/ Write(n) \/ WriteFails(n) \/ NewSize(n)
      PROVE  FileInv'
  BY <1>4, ReadKeeps, WriteKeeps, WriteFailsKeeps, NewSizeKeeps
<1>5. ASSUME NEW d \in -Reach .. Reach, Seek(d) PROVE FileInv'
  BY <1>5, SeekKeeps
<1>6. ASSUME NEW a \in Attrs, SetInfo(a) PROVE FileInv'
  BY <1>6, SetInfoKeeps
<1>7. CASE Close \/ CloseFails \/ Free
  BY <1>7, CloseKeeps, CloseFailsKeeps, FreeKeeps
<1>8. CASE UNCHANGED fileVars
  BY <1>8, AnswersOnly DEF fileVars
<1>9. QED
  BY <1>1, <1>2, <1>3, <1>4, <1>5, <1>6, <1>7, <1>8 DEF FileNext

LEMMA FileInvHolds == FileSpec => []FileInv
  BY FileInvInit, FileInvNext, PTL DEF FileSpec

\* The unsigned offset of the plugin is the host's file pointer, modulo the
\* width of the word, through every read, write, move, failure and close.
THEOREM OffsetAgreed == FileSpec => []HostAgreesOnOffset
<1>1. FileInv => HostAgreesOnOffset
  BY DEF FileInv, InSpan, HostAgreesOnOffset
<1>2. QED BY <1>1, FileInvHolds, PTL

\* No handler forgets an open handle, but for handle 0 and for handles that
\* the server refused to close; a closed file leaves no time and no offset.
THEOREM HandlesAccounted == FileSpec => []NothingLeftBehind
<1>1. FileInv => NothingLeftBehind
  BY DEF FileInv
<1>2. QED BY <1>1, FileInvHolds, PTL

-------------------------------------------------------------------------------
(* The open file: what a step may do.                                      *)

\* Only a close, by the host or when the connection is freed, changes the
\* attributes and times of files.
LEMMA OnlyCloseApplies ==
    ASSUME [FileNext]_fileVars
    PROVE  UNCHANGED <<attr, time>> \/ \E call \in {"close", "free"} : CloseFile(call)
  BY DEF FileNext, fileVars, onServer, Only, OpenRefused, OpenFails, Open, Read, ReadFails,
         Write, WriteFails, InvalidHandle, NewSize, NewSizeFails, Seek, MoveTo,
         SeekRefused, SetInfo, SetInfoRefused, Close, CloseFails, Free

\* smbwrp_close finds the file by the name that was remembered with it, and
\* applies to that file what the host last asked for, or nothing.
LEMMA AppliesWhatIsDue ==
    ASSUME FileInv, NEW call, CloseFile(call), 0 \in Handles => open[0] = NoFile,
           NEW f \in Files
    PROVE  /\ time'[f] # time[f] => f = Target /\ time'[f] = due.time
           /\ attr'[f] # attr[f] => f = Target /\ attr'[f] = due.attr
<1>1. fd # Closed /\ fd \in Handles
  BY DEF CloseFile, FileInv, FileTypeOK
<1>2. /\ fname = Target /\ CloseMtime = due.time
      /\ openattr # 0 => due.attr = openattr
  BY <1>1 DEF FileInv, Remembered, Target
<1>3. attr \in [Files -> Attrs] /\ time \in [Files -> Times]
  BY DEF FileInv, FileTypeOK
<1>4. CASE Applied
  BY <1>2, <1>3, <1>4 DEF Applied
<1>5. CASE UNCHANGED <<attr, time>>
  BY <1>5
<1>6. QED BY <1>4, <1>5 DEF CloseFile

\* smbwrp_close reaches the open file and no other, with what the host last
\* asked for, unless handle 0 is in use.
THEOREM DeferredApplied == FileSpec => DeferredReachTheFile
<1>1. ASSUME FileInv, [FileNext]_fileVars
      PROVE  [(0 \in Handles => open[0] = NoFile) =>
                 \A f \in Files :
                   /\ time'[f] # time[f] => f = Target /\ time'[f] = due.time
                   /\ attr'[f] # attr[f] => f = Target /\ attr'[f] = due.attr]_fileVars
  <2> SUFFICES ASSUME 0 \in Handles => open[0] = NoFile, NEW f \in Files
               PROVE  /\ time'[f] # time[f] => f = Target /\ time'[f] = due.time
                      /\ attr'[f] # attr[f] => f = Target /\ attr'[f] = due.attr
    OBVIOUS
  <2>1. QED
    BY <1>1, OnlyCloseApplies, AppliesWhatIsDue
<1>2. QED
  BY <1>1, FileInvHolds, PTL DEF FileSpec, DeferredReachTheFile

\* The failures that the host is not told of are the three that are named, and
\* a close that failed on the server is not one of them.
THEOREM FailuresNamed == FileSpec => HiddenFailuresNamed
<1>1. ASSUME FileInv, [FileNext]_fileVars
      PROVE  [\/ hidden' \in {"none", "newsize"}
              \/ hidden' = "setinfo" /\ fd = Closed
              \/ hidden' \in {"close", "free"} /\ broken' \subseteq broken]_fileVars
  <2> SUFFICES ASSUME FileNext
               PROVE  \/ hidden' \in {"none", "newsize"}
                      \/ hidden' = "setinfo" /\ fd = Closed
                      \/ hidden' \in {"close", "free"} /\ broken' \subseteq broken
    BY <1>1
  <2>1. fd # Closed => fname # NoFile
    BY <1>1, HandlesAssumption DEF FileInv, OpenIsNamed
  <2>2. CASE SetInfoRefused
    BY <2>1, <2>2 DEF SetInfoRefused, Only, Answer
  <2>3. CASE Close
    BY <2>3 DEF Close, CloseFile, Answer
  <2>4. CASE Free
    BY <2>4 DEF Free, CloseFile, Answer
  <2>5. CASE CloseFails \/ SeekRefused \/ NewSizeFails \/ InvalidHandle \/ ReadFails
             \/ OpenRefused
    BY <2>5 DEF CloseFails, CloseRc, SeekRefused, NewSizeFails, InvalidHandle, ReadFails,
                OpenRefused, Only, Answer
  <2>6. CASE \/ \E f \in Files, a \in Attrs : \/ OpenFails(f, a)
                                              \/ \E truncate \in BOOLEAN : Open(f, a, truncate)
             \/ \E n \in 0 .. MaxSize : Read(n) \/ Write(n) \/ WriteFails(n) \/ NewSize(n)
             \/ \E d \in -Reach .. Reach : Seek(d)
             \/ \E a \in Attrs : SetInfo(a)
    BY <2>6 DEF OpenFails, Open, Read, Write, WriteFails, NewSize, Seek, MoveTo, SetInfo,
                Answer
  <2>7. QED
    BY <2>2, <2>3, <2>4, <2>5, <2>6 DEF FileNext
<1>2. QED
  BY <1>1, FileInvHolds, PTL DEF FileSpec, HiddenFailuresNamed

-------------------------------------------------------------------------------
(* The path query: what every step of NdpQueryPathInfo may rely on.        *)

Stages == {"idle", "echo", "getattr", "redial", "again", "upper", "done"}

QueryTypes == /\ at \in Stages
              /\ deep \in BOOLEAN /\ link \in BOOLEAN /\ nt \in BOOLEAN
              /\ node \in Kinds /\ parent \in Kinds
              /\ losses \in Nat

\* The sessions that were lost since the echo: a session found dead before the
\* first look was lost in this request, one found dead after the reconnection
\* is the second.
LossesCounted ==
    /\ at = "getattr" /\ ~link => losses >= 1
    /\ at \in {"redial", "again"} => losses >= 1 /\ "lost" \in saw
    /\ at = "again" /\ ~link => losses >= 2

\* The parent is asked for only after the name was missed below a directory.
MissedFirst == at = "upper" => deep /\ "missing" \in saw

\* A look that misses the name is the last one.
MissedOnce == "missing" \in saw => at \in {"upper", "done"}

QueryInv == /\ QueryTypes /\ LossesCounted /\ MissedFirst /\ MissedOnce
            /\ AnswerAsDocumented

Codes == {"NO_ERROR", "FILE_NOT_FOUND", "PATH_NOT_FOUND", "REM_NOT_LIST",
          "NETWORK_ACCESS_DENIED", "ACCESS_DENIED", "READ_FAULT", "INVALID_PARAMETER"}

\* A reply is one of eight codes; over a dead session one of two.
LEMMA RepliesCodes ==
    ASSUME NEW k \in Kinds, NEW p \in Kinds, NEW r \in Replies(k, p)
    PROVE  /\ r \in Codes
           /\ r = "REM_NOT_LIST" => ~link
           /\ r = "PATH_NOT_FOUND" => p # "dir"
  BY DEF Replies, Codes

\* The answer that a look gives is one that the reply explains, so a handler
\* that ends there ends as documented, but for a session that was lost, which
\* must have been lost twice.
LEMMA LookExplained ==
    ASSUME QueryTypes, at # "upper", "missing" \notin saw, NEW r \in Codes,
           r = "REM_NOT_LIST" => "lost" \in saw /\ losses >= 2,
           Goes(AfterGetattr(Getattr(r)), Reported(Getattr(r)), Met(r)),
           UNCHANGED <<deep, session, server>>
    PROVE  QueryInv'
  <1> USE DEF Codes
  <1>1. QueryTypes'
    BY DEF QueryTypes, Goes, AfterGetattr, Stages, server, session
  <1>2. LossesCounted' /\ MissedFirst' /\ MissedOnce'
    BY DEF LossesCounted, MissedFirst, MissedOnce, Goes, AfterGetattr, Reported, Getattr,
           Met, server, session
  <1>3. AnswerAsDocumented'
    BY DEF QueryTypes, AnswerAsDocumented, Goes, AfterGetattr, Reported, Getattr, Met,
           server, session
  <1>4. QED BY <1>1, <1>2, <1>3 DEF QueryInv

LEMMA QueryInvInit == QueryInit => QueryInv
  BY DEF QueryInit, QueryInv, QueryTypes, LossesCounted, MissedFirst, MissedOnce,
         AnswerAsDocumented, Stages

LEMMA QueryInvNext == QueryInv /\ [QueryNext]_queryVars => QueryInv'
  <1> SUFFICES ASSUME QueryInv, [QueryNext]_queryVars PROVE QueryInv'
    OBVIOUS
  <1> USE DEF QueryInv, QueryTypes, Stages, LossesCounted, MissedFirst, MissedOnce,
             AnswerAsDocumented, session
  <1>1. CASE Wildcard
    BY <1>1 DEF Wildcard, Goes, server
  <1>2. CASE FromCache
    BY <1>2 DEF FromCache, Goes, server
  <1>3. CASE Parse
    BY <1>3 DEF Parse, NewSession, Goes, server
  <1>4. CASE Echo
    BY <1>4 DEF Echo, Connects, NewSession, Goes, server
  <1>5. CASE NoShare
    BY <1>5 DEF NoShare, Goes, server
  <1>6. CASE FirstLook
    <2>1. PICK r \in Replies(node, parent) :
            IF r = "REM_NOT_LIST" THEN Goes("redial", r, {"lost"})
            ELSE Goes(AfterGetattr(Getattr(r)), Reported(Getattr(r)), Met(r))
      BY <1>6 DEF FirstLook
    <2>2. CASE r = "REM_NOT_LIST"
      BY <2>1, <2>2, <1>6, RepliesCodes DEF FirstLook, Goes, server
    <2>3. CASE r # "REM_NOT_LIST"
      BY <2>1, <2>3, <1>6, RepliesCodes, LookExplained DEF FirstLook
    <2>4. QED BY <2>2, <2>3
  <1>7. CASE Redial
    BY <1>7 DEF Redial, Connects, NewSession, Goes, server
  <1>8. CASE SecondLook
    <2>1. PICK r \in Replies(node, parent) : Goes(AfterGetattr(Getattr(r)), Reported(Getattr(r)), Met(r))
      BY <1>8 DEF SecondLook
    <2>2. r = "REM_NOT_LIST" => "lost" \in saw /\ losses >= 2
      BY <1>8, RepliesCodes DEF SecondLook
    <2>3. QED
      BY <2>1, <2>2, <1>8, RepliesCodes, LookExplained DEF SecondLook
  <1>9. CASE Upper
    <2>1. PICK r \in Replies(parent, "dir") :
            Goes("done", UpperAnswer(Getattr(r)),
                 IF r = "NO_ERROR" THEN IF parent = "dir" THEN {"parent"} ELSE {"noparent"}
                 ELSE IF r = "FILE_NOT_FOUND" THEN {"noparent"}
                 ELSE IF r = "REM_NOT_LIST" THEN {"upperlost"} ELSE {"failed"})
      BY <1>9 DEF Upper
    <2>2. r \in Codes \ {"PATH_NOT_FOUND"}
      BY RepliesCodes DEF Kinds
    <2>3. QueryTypes' /\ LossesCounted' /\ MissedFirst' /\ MissedOnce'
      BY <2>1, <1>9 DEF Upper, Goes, server
    <2>4. AnswerAsDocumented'
      BY <2>1, <2>2, <1>9 DEF Upper, Goes, UpperAnswer, Getattr, Codes, server
    <2>5. QED BY <2>3, <2>4
  <1>10. CASE OthersChange
    BY <1>10 DEF OthersChange
  <1>11. CASE Break
    <2>1. losses' = losses + 1 /\ UNCHANGED <<at, deep, node, parent, nt, rc, saw>>
      BY <1>11 DEF Break
    <2>2. link' = FALSE
      BY <1>11 DEF Break
    <2>3. losses' \in Nat /\ losses' >= 1 /\ (at \in {"redial", "again"} => losses' >= 2)
      BY <2>1
    <2>4. QueryTypes'
      BY <2>1, <2>2, <2>3
    <2>5. LossesCounted' /\ MissedFirst' /\ MissedOnce'
      BY <2>1, <2>2, <2>3
    <2>6. AnswerAsDocumented'
      BY <2>1
    <2>7. QED BY <2>4, <2>5, <2>6
  <1>12. CASE NextRequest
    BY <1>12 DEF NextRequest
  <1>13. CASE UNCHANGED queryVars
    BY <1>13 DEF queryVars
  <1>14. QED
    BY <1>1, <1>2, <1>3, <1>4, <1>5, <1>6, <1>7, <1>8, <1>9, <1>10, <1>11, <1>12, <1>13
       DEF QueryNext

\* Whatever breaks and changes between its calls, NdpQueryPathInfo returns what
\* the comment above it says: a missing name below a directory, a missing
\* parent and a lost server are told apart, and the server is reported as lost
\* only after the one reconnection has failed or its session was lost too.
THEOREM AnswersAsDocumented == QuerySpec => []AnswerAsDocumented
<1>1. QueryInv => AnswerAsDocumented
  BY DEF QueryInv
<1>2. QED
  BY <1>1, QueryInvInit, QueryInvNext, PTL DEF QuerySpec

-------------------------------------------------------------------------------
(* Extended attributes: lists and their sizes.                             *)

\* What an EA of a list may be: a name of the server's, a length.
Eas == [name : ToSet(EaNames), value : Nat]

LEMMA FeaSizeNat == ASSUME NEW e \in Eas PROVE FeaSize(e) \in Nat /\ FeaSize(e) >= 5
<1>1. Len(e.name) \in Nat
  BY NamesAssumption DEF Eas
<1>2. e.value \in Nat
  BY DEF Eas
<1>3. QED BY <1>1, <1>2 DEF FeaSize, Header

\* The function by which Bytes is defined: there is one, and no other.
IsBytes(g, s) == g = [i \in 0 .. Len(s) |-> IF i = 0 THEN 0 ELSE g[i - 1] + FeaSize(s[i])]

LEMMA BytesAt ==
    ASSUME NEW s, NEW g, IsBytes(g, s)
    PROVE  \A i \in 0 .. Len(s) : g[i] = IF i = 0 THEN 0 ELSE g[i - 1] + FeaSize(s[i])
  BY Zenon DEF IsBytes

LEMMA BytesExists ==
    ASSUME NEW s \in Seq(Eas)
    PROVE  \E g \in [0 .. Len(s) -> Nat] : IsBytes(g, s)
<1> DEFINE step == [p \in (1 .. Len(s)) \X Nat |-> p[2] + FeaSize(s[p[1]])]
<1>1. IsStep(step, Len(s), Nat)
  <2>1. \A i \in 1 .. Len(s) : FeaSize(s[i]) \in Nat
    BY FeaSizeNat
  <2>2. QED BY <2>1 DEF IsStep
<1>2. \A i \in 1 .. Len(s), n \in Nat : step[<<i, n>>] = n + FeaSize(s[i])
  OBVIOUS
<1>3. Len(s) \in Nat /\ 0 \in Nat
  OBVIOUS
<1> HIDE DEF step
<1>4. PICK g \in [0 .. Len(s) -> Nat] : Follows(g, Len(s), 0, step)
  BY <1>1, <1>3, RecursionExists
<1>5. ASSUME NEW i \in 0 .. Len(s) PROVE g[i] = IF i = 0 THEN 0 ELSE g[i - 1] + FeaSize(s[i])
  <2>1. CASE i = 0
    BY <1>4, <2>1 DEF Follows
  <2>2. CASE i # 0
    <3>1. i \in 1 .. Len(s) /\ g[i - 1] \in Nat
      BY <2>2
    <3>2. QED BY <1>2, <1>4, <2>2, <3>1 DEF Follows
  <2>3. QED BY <2>1, <2>2
<1>6. g = [i \in 0 .. Len(s) |-> IF i = 0 THEN 0 ELSE g[i - 1] + FeaSize(s[i])]
  <2>1. [i \in 0 .. Len(s) |-> g[i]]
          = [i \in 0 .. Len(s) |-> IF i = 0 THEN 0 ELSE g[i - 1] + FeaSize(s[i])]
    BY <1>5, Zenon
  <2>2. QED BY <2>1
<1>7. QED BY <1>6, Zenon DEF IsBytes

LEMMA BytesIs ==
    ASSUME NEW s \in Seq(Eas), NEW g, IsBytes(g, s)
    PROVE  Bytes(s) = g[Len(s)] /\ Bytes(s) \in Nat
<1> DEFINE h == CHOOSE h : IsBytes(h, s)
<1>1. IsBytes(h, s)
  OBVIOUS
<1>2. Bytes(s) = h[Len(s)]
  BY DEF Bytes, IsBytes
<1> HIDE DEF h
<1>3. Len(s) \in Nat
  OBVIOUS
<1>4. ASSUME NEW f, IsBytes(f, s) PROVE f[Len(s)] = h[Len(s)]
  <2>1. f[0] = h[0]
    <3>1. 0 \in 0 .. Len(s)
      BY <1>3
    <3>2. QED BY <1>1, <1>4, <3>1, BytesAt
  <2>2. \A i \in 1 .. Len(s) : f[i - 1] = h[i - 1] => f[i] = h[i]
    <3>1. \A i \in 1 .. Len(s) : i \in 0 .. Len(s) /\ i # 0
      OBVIOUS
    <3>2. QED BY <1>1, <1>4, <3>1, BytesAt
  <2>3. \A i \in 0 .. Len(s) : f[i] = h[i]
    <3>1. Alike(f, h, Len(s))
      BY <2>1, <2>2, Zenon DEF Alike
    <3>2. QED BY <1>3, <3>1, SameByInduction
  <2>4. QED BY <1>3, <2>3
<1>5. g[Len(s)] = h[Len(s)]
  BY <1>4
<1>6. PICK f \in [0 .. Len(s) -> Nat] : IsBytes(f, s)
  BY BytesExists
<1>7. f[Len(s)] \in Nat
  BY <1>3, <1>6
<1>8. QED BY <1>2, <1>4, <1>5, <1>6, <1>7

LEMMA BytesNat == ASSUME NEW s \in Seq(Eas) PROVE Bytes(s) \in Nat
  BY BytesExists, BytesIs

LEMMA BytesEmpty == Bytes(<<>>) = 0
<1>1. <<>> \in Seq(Eas) /\ Len(<<>>) = 0
  OBVIOUS
<1>2. PICK g \in [0 .. Len(<<>>) -> Nat] : IsBytes(g, <<>>)
  BY <1>1, BytesExists
<1>3. g[0] = 0
  BY <1>1, <1>2, BytesAt
<1>4. Bytes(<<>>) = g[Len(<<>>)]
  BY <1>1, <1>2, BytesIs
<1>5. QED BY <1>1, <1>3, <1>4

LEMMA BytesAppend ==
    ASSUME NEW s \in Seq(Eas), NEW e \in Eas
    PROVE  Bytes(Append(s, e)) = Bytes(s) + FeaSize(e)
<1> DEFINE n == Len(s)
           longer == Append(s, e)
<1>1. /\ longer \in Seq(Eas) /\ Len(longer) = n + 1 /\ n \in Nat
      /\ longer[n + 1] = e /\ \A i \in 1 .. n : longer[i] = s[i]
  BY AppendProperties
<1> HIDE DEF n, longer
<1>2. PICK g \in [0 .. Len(longer) -> Nat] : IsBytes(g, longer)
  BY <1>1, BytesExists
<1> DEFINE f == [i \in 0 .. n |-> g[i]]
<1>3. ASSUME NEW i \in 0 .. n
      PROVE  f[i] = IF i = 0 THEN 0 ELSE f[i - 1] + FeaSize(s[i])
  <2>1. i \in 0 .. Len(longer) /\ (i # 0 => longer[i] = s[i] /\ f[i - 1] = g[i - 1])
    BY <1>1
  <2>2. g[i] = IF i = 0 THEN 0 ELSE g[i - 1] + FeaSize(longer[i])
    BY <1>2, <2>1, BytesAt
  <2>3. f[i] = g[i]
    OBVIOUS
  <2> HIDE DEF f
  <2>4. QED BY <2>1, <2>2, <2>3, Zenon
<1>4. f = [i \in 0 .. n |-> f[i]] /\ f[n] = g[n]
  BY <1>1
<1> HIDE DEF f
<1>5. [i \in 0 .. n |-> f[i]] = [i \in 0 .. n |-> IF i = 0 THEN 0 ELSE f[i - 1] + FeaSize(s[i])]
  BY <1>3, Zenon
<1>6. IsBytes(f, s)
  BY <1>4, <1>5, Zenon DEF IsBytes, n
<1>7. Bytes(s) = g[n]
  BY <1>4, <1>6, BytesIs DEF n
<1>8. Bytes(longer) = g[n + 1]
  BY <1>1, <1>2, BytesIs
<1>9. n + 1 \in 0 .. Len(longer) /\ (n + 1) - 1 = n /\ n + 1 # 0
  BY <1>1
<1>10. g[n + 1] = g[(n + 1) - 1] + FeaSize(longer[n + 1])
  BY <1>2, <1>9, BytesAt, Zenon
<1>11. QED BY <1>1, <1>7, <1>8, <1>9, <1>10 DEF longer

-------------------------------------------------------------------------------
(* Extended attributes: the walk that selects.                             *)

\* What the walk has after the i-th element.
KeptAt(g, s, kept, i) ==
    IF i = 0 THEN <<>>
    ELSE IF s[i] \in kept THEN Append(g[i - 1], s[i]) ELSE g[i - 1]

\* The function by which Among is defined.
IsAmong(g, s, kept) == g = [i \in 0 .. Len(s) |-> KeptAt(g, s, kept, i)]

LEMMA AmongAt ==
    ASSUME NEW s, NEW kept, NEW g, IsAmong(g, s, kept)
    PROVE  \A i \in 0 .. Len(s) : g[i] = KeptAt(g, s, kept, i)
  BY Zenon DEF IsAmong

LEMMA AmongExists ==
    ASSUME NEW E, NEW s \in Seq(E), NEW kept
    PROVE  \E g \in [0 .. Len(s) -> Seq(E)] : IsAmong(g, s, kept)
<1> DEFINE Next1(i, t) == IF s[i] \in kept THEN Append(t, s[i]) ELSE t
           step == [p \in (1 .. Len(s)) \X Seq(E) |-> Next1(p[1], p[2])]
<1>1. IsStep(step, Len(s), Seq(E))
  <2>1. \A i \in 1 .. Len(s), t \in Seq(E) : Next1(i, t) \in Seq(E)
    BY AppendProperties
  <2> HIDE DEF Next1
  <2>2. QED BY <2>1 DEF IsStep
<1>2. \A i \in 1 .. Len(s), t \in Seq(E) : step[<<i, t>>] = Next1(i, t)
  <2> HIDE DEF Next1
  <2>1. QED OBVIOUS
<1>3. Len(s) \in Nat /\ <<>> \in Seq(E)
  OBVIOUS
<1> HIDE DEF step
<1>4. PICK g \in [0 .. Len(s) -> Seq(E)] : Follows(g, Len(s), <<>>, step)
  BY <1>1, <1>3, RecursionExists
<1>5. ASSUME NEW i \in 0 .. Len(s) PROVE g[i] = KeptAt(g, s, kept, i)
  <2>1. CASE i = 0
    BY <1>4, <2>1 DEF KeptAt, Follows
  <2>2. CASE i # 0
    <3>1. i \in 1 .. Len(s) /\ g[i - 1] \in Seq(E)
      BY <2>2
    <3>2. QED BY <1>2, <1>4, <2>2, <3>1, Zenon DEF KeptAt, Follows
  <2>3. QED BY <2>1, <2>2
<1>6. g = [i \in 0 .. Len(s) |-> KeptAt(g, s, kept, i)]
  <2>1. [i \in 0 .. Len(s) |-> g[i]] = [i \in 0 .. Len(s) |-> KeptAt(g, s, kept, i)]
    BY <1>5, Zenon
  <2>2. QED BY <2>1
<1>7. QED BY <1>6, Zenon DEF IsAmong

LEMMA AmongIs ==
    ASSUME NEW E, NEW s \in Seq(E), NEW kept, NEW g, IsAmong(g, s, kept)
    PROVE  Among(s, kept) = g[Len(s)] /\ Among(s, kept) \in Seq(E)
<1> DEFINE h == CHOOSE h : IsAmong(h, s, kept)
<1>1. IsAmong(h, s, kept)
  OBVIOUS
<1>2. Among(s, kept) = h[Len(s)]
  BY DEF Among, IsAmong, KeptAt
<1> HIDE DEF h
<1>3. Len(s) \in Nat
  OBVIOUS
<1>4. ASSUME NEW f, IsAmong(f, s, kept) PROVE f[Len(s)] = h[Len(s)]
  <2>1. f[0] = h[0]
    <3>1. 0 \in 0 .. Len(s)
      BY <1>3
    <3>2. QED BY <1>1, <1>4, <3>1, AmongAt DEF KeptAt
  <2>2. \A i \in 1 .. Len(s) : f[i - 1] = h[i - 1] => f[i] = h[i]
    <3>1. \A i \in 1 .. Len(s) : i \in 0 .. Len(s) /\ i # 0
      OBVIOUS
    <3>2. QED BY <1>1, <1>4, <3>1, AmongAt DEF KeptAt
  <2>3. \A i \in 0 .. Len(s) : f[i] = h[i]
    <3>1. Alike(f, h, Len(s))
      BY <2>1, <2>2, Zenon DEF Alike
    <3>2. QED BY <1>3, <3>1, SameByInduction
  <2>4. QED BY <1>3, <2>3
<1>5. g[Len(s)] = h[Len(s)]
  BY <1>4
<1>6. PICK f \in [0 .. Len(s) -> Seq(E)] : IsAmong(f, s, kept)
  BY AmongExists
<1>7. f[Len(s)] \in Seq(E)
  BY <1>3, <1>6
<1>8. QED BY <1>2, <1>4, <1>5, <1>6, <1>7

LEMMA AmongSeq == ASSUME NEW E, NEW s \in Seq(E), NEW kept PROVE Among(s, kept) \in Seq(E)
  BY AmongExists, AmongIs

LEMMA AmongEmpty == ASSUME NEW kept PROVE Among(<<>>, kept) = <<>>
<1>1. <<>> \in Seq({}) /\ Len(<<>>) = 0
  OBVIOUS
<1>2. PICK g \in [0 .. Len(<<>>) -> Seq({})] : IsAmong(g, <<>>, kept)
  BY <1>1, AmongExists
<1>3. g[0] = <<>>
  BY <1>1, <1>2, AmongAt DEF KeptAt
<1>4. Among(<<>>, kept) = g[Len(<<>>)]
  BY <1>1, <1>2, AmongIs
<1>5. QED BY <1>1, <1>3, <1>4

LEMMA AmongAppend ==
    ASSUME NEW E, NEW s \in Seq(E), NEW e \in E, NEW kept
    PROVE  Among(Append(s, e), kept)
             = IF e \in kept THEN Append(Among(s, kept), e) ELSE Among(s, kept)
<1> DEFINE n == Len(s)
           longer == Append(s, e)
<1>1. /\ longer \in Seq(E) /\ Len(longer) = n + 1 /\ n \in Nat
      /\ longer[n + 1] = e /\ \A i \in 1 .. n : longer[i] = s[i]
  BY AppendProperties
<1> HIDE DEF n, longer
<1>2. PICK g \in [0 .. Len(longer) -> Seq(E)] : IsAmong(g, longer, kept)
  BY <1>1, AmongExists
<1> DEFINE f == [i \in 0 .. n |-> g[i]]
<1>3. ASSUME NEW i \in 0 .. n
      PROVE  f[i] = KeptAt(f, s, kept, i)
  <2>1. i \in 0 .. Len(longer) /\ (i # 0 => longer[i] = s[i] /\ f[i - 1] = g[i - 1])
    BY <1>1
  <2>2. g[i] = KeptAt(g, longer, kept, i)
    BY <1>2, <2>1, AmongAt
  <2>3. f[i] = g[i]
    OBVIOUS
  <2> HIDE DEF f
  <2>4. QED BY <2>1, <2>2, <2>3, Zenon DEF KeptAt
<1>4. f = [i \in 0 .. n |-> f[i]] /\ f[n] = g[n]
  BY <1>1
<1> HIDE DEF f
<1>5. [i \in 0 .. n |-> f[i]] = [i \in 0 .. n |-> KeptAt(f, s, kept, i)]
  BY <1>3, Zenon
<1>6. IsAmong(f, s, kept)
  BY <1>4, <1>5, Zenon DEF IsAmong, n
<1>7. Among(s, kept) = g[n]
  BY <1>4, <1>6, AmongIs DEF n
<1>8. Among(longer, kept) = g[n + 1]
  BY <1>1, <1>2, AmongIs
<1>9. n + 1 \in 0 .. Len(longer) /\ (n + 1) - 1 = n /\ n + 1 # 0
  BY <1>1
<1>10. g[n + 1] = KeptAt(g, longer, kept, n + 1)
  BY <1>2, <1>9, AmongAt, Zenon
<1>11. QED BY <1>1, <1>7, <1>8, <1>9, <1>10 DEF longer, KeptAt

-------------------------------------------------------------------------------
(* Extended attributes: what a selection holds, and what the parts of a    *)
(* list add up to.                                                         *)

\* An EA is selected when it is in the list and to be kept.
LEMMA AmongHolds ==
    ASSUME NEW E, NEW s \in Seq(E), NEW kept
    PROVE  \A x : Contains(Among(s, kept), x) <=> Contains(s, x) /\ x \in kept
<1> DEFINE Holds(u) == \A x : Contains(Among(u, kept), x) <=> Contains(u, x) /\ x \in kept
           T == {n \in Nat : \A u \in Seq(E) : Len(u) = n => Holds(u)}
<1>1. 0 \in T
  <2>1. ASSUME NEW u \in Seq(E), Len(u) = 0 PROVE Holds(u)
    <3>1. u = <<>> /\ Among(u, kept) = <<>>
      BY <2>1, AmongEmpty
    <3>2. QED BY <3>1 DEF Contains
  <2> HIDE DEF Holds
  <2>2. QED BY <2>1
<1>2. ASSUME NEW n \in Nat, n \in T PROVE n + 1 \in T
  <2>1. ASSUME NEW u \in Seq(E), Len(u) = n + 1 PROVE Holds(u)
    <3>1. u # <<>>
      BY <2>1
    <3>2. PICK v \in Seq(E), e \in E : u = Append(v, e)
      BY <3>1, SequenceEmptyOrAppend
    <3>3. Len(v) = n
      BY <2>1, <3>2
    <3>4. Holds(v)
      <4> HIDE DEF Holds
      <4>1. QED BY <1>2, <3>3
    <3>5. ASSUME NEW w \in Seq(E) PROVE \A x : Contains(Append(w, e), x) <=> Contains(w, x) \/ x = e
      <4>1. /\ Len(Append(w, e)) = Len(w) + 1 /\ Append(w, e)[Len(w) + 1] = e
            /\ \A i \in 1 .. Len(w) : Append(w, e)[i] = w[i]
        BY AppendProperties
      <4>2. Len(w) \in Nat
        OBVIOUS
      <4>3. QED BY <4>1, <4>2 DEF Contains
    <3>6. Among(v, kept) \in Seq(E)
      BY AmongSeq
    <3>7. Among(u, kept) = IF e \in kept THEN Append(Among(v, kept), e) ELSE Among(v, kept)
      BY <3>2, AmongAppend
    <3>8. QED BY <3>2, <3>4, <3>5, <3>6, <3>7
  <2>2. n + 1 \in Nat
    OBVIOUS
  <2> HIDE DEF Holds
  <2>3. QED BY <2>1, <2>2
<1>3. \A n \in Nat : n \in T
  <2> HIDE DEF T
  <2>1. QED BY <1>1, <1>2, SetInduction
<1>4. Len(s) \in Nat
  OBVIOUS
<1> HIDE DEF Holds
<1>5. Holds(s)
  BY <1>3, <1>4
<1>6. QED BY <1>5 DEF Holds

\* A selection is no longer than the list.
LEMMA AmongBytes ==
    ASSUME NEW s \in Seq(Eas), NEW kept
    PROVE  Bytes(Among(s, kept)) <= Bytes(s)
<1> DEFINE Holds(u) == Bytes(Among(u, kept)) <= Bytes(u)
           T == {n \in Nat : \A u \in Seq(Eas) : Len(u) = n => Holds(u)}
<1>1. 0 \in T
  <2>1. ASSUME NEW u \in Seq(Eas), Len(u) = 0 PROVE Holds(u)
    <3>1. u = <<>> /\ Among(u, kept) = <<>>
      BY <2>1, AmongEmpty
    <3>2. QED BY <3>1, BytesEmpty
  <2> HIDE DEF Holds
  <2>2. QED BY <2>1
<1>2. ASSUME NEW n \in Nat, n \in T PROVE n + 1 \in T
  <2>1. ASSUME NEW u \in Seq(Eas), Len(u) = n + 1 PROVE Holds(u)
    <3>1. u # <<>>
      BY <2>1
    <3>2. PICK v \in Seq(Eas), e \in Eas : u = Append(v, e)
      BY <3>1, SequenceEmptyOrAppend
    <3>3. Len(v) = n
      BY <2>1, <3>2
    <3>4. Bytes(Among(v, kept)) <= Bytes(v)
      BY <1>2, <3>3
    <3>5. Among(v, kept) \in Seq(Eas)
      BY AmongSeq
    <3>6. Bytes(v) \in Nat /\ Bytes(Among(v, kept)) \in Nat /\ FeaSize(e) \in Nat
      BY <3>5, BytesNat, FeaSizeNat
    <3>7. Bytes(u) = Bytes(v) + FeaSize(e)
      BY <3>2, BytesAppend
    <3>8. Bytes(Append(Among(v, kept), e)) = Bytes(Among(v, kept)) + FeaSize(e)
      BY <3>5, BytesAppend
    <3>9. Among(u, kept) = IF e \in kept THEN Append(Among(v, kept), e) ELSE Among(v, kept)
      BY <3>2, AmongAppend
    <3>10. QED BY <3>4, <3>6, <3>7, <3>8, <3>9
  <2>2. n + 1 \in Nat
    OBVIOUS
  <2> HIDE DEF Holds
  <2>3. QED BY <2>1, <2>2
<1>3. \A n \in Nat : n \in T
  <2> HIDE DEF T
  <2>1. QED BY <1>1, <1>2, SetInduction
<1>4. Len(s) \in Nat
  OBVIOUS
<1> HIDE DEF Holds
<1>5. Holds(s)
  BY <1>3, <1>4
<1>6. QED BY <1>5 DEF Holds

LEMMA BytesConcat ==
    ASSUME NEW s \in Seq(Eas), NEW t \in Seq(Eas)
    PROVE  Bytes(s \o t) = Bytes(s) + Bytes(t)
<1> DEFINE Holds(u) == Bytes(s \o u) = Bytes(s) + Bytes(u)
           T == {n \in Nat : \A u \in Seq(Eas) : Len(u) = n => Holds(u)}
<1>1. 0 \in T
  <2>1. ASSUME NEW u \in Seq(Eas), Len(u) = 0 PROVE Holds(u)
    <3>1. u = <<>> /\ s \o <<>> = s
      BY <2>1, ConcatEmptySeq
    <3>2. Bytes(s) \in Nat
      BY BytesNat
    <3>3. QED BY <3>1, <3>2, BytesEmpty
  <2> HIDE DEF Holds
  <2>2. QED BY <2>1
<1>2. ASSUME NEW n \in Nat, n \in T PROVE n + 1 \in T
  <2>1. ASSUME NEW u \in Seq(Eas), Len(u) = n + 1 PROVE Holds(u)
    <3>1. u # <<>>
      BY <2>1
    <3>2. PICK v \in Seq(Eas), e \in Eas : u = Append(v, e)
      BY <3>1, SequenceEmptyOrAppend
    <3>3. Len(v) = n
      BY <2>1, <3>2
    <3>4. Bytes(s \o v) = Bytes(s) + Bytes(v)
      BY <1>2, <3>3
    <3>5. s \o v \in Seq(Eas) /\ s \o Append(v, e) = Append(s \o v, e)
      <4>1. s \o v \in Seq(Eas) /\ Append(v, e) = v \o <<e>> /\ <<e>> \in Seq(Eas)
        BY ConcatProperties, AppendIsConcat
      <4>2. s \o (v \o <<e>>) = (s \o v) \o <<e>>
        BY <4>1, ConcatAssociative
      <4>3. Append(s \o v, e) = (s \o v) \o <<e>>
        BY <4>1, AppendIsConcat
      <4>4. QED BY <4>1, <4>2, <4>3
    <3>6. Bytes(s \o u) = Bytes(s \o v) + FeaSize(e)
      BY <3>2, <3>5, BytesAppend
    <3>7. Bytes(u) = Bytes(v) + FeaSize(e)
      BY <3>2, BytesAppend
    <3>8. Bytes(s) \in Nat /\ Bytes(v) \in Nat /\ FeaSize(e) \in Nat
      BY BytesNat, FeaSizeNat
    <3>9. QED BY <3>4, <3>6, <3>7, <3>8
  <2>2. n + 1 \in Nat
    OBVIOUS
  <2> HIDE DEF Holds
  <2>3. QED BY <2>1, <2>2
<1>3. \A n \in Nat : n \in T
  <2> HIDE DEF T
  <2>1. QED BY <1>1, <1>2, SetInduction
<1>4. Len(t) \in Nat
  OBVIOUS
<1> HIDE DEF Holds
<1>5. Holds(t)
  BY <1>3, <1>4
<1>6. QED BY <1>5 DEF Holds

\* Every EA takes at least five bytes.
LEMMA BytesAtLeast ==
    ASSUME NEW s \in Seq(Eas)
    PROVE  Bytes(s) >= 5 * Len(s)
<1> DEFINE Holds(u) == Bytes(u) >= 5 * Len(u)
           T == {n \in Nat : \A u \in Seq(Eas) : Len(u) = n => Holds(u)}
<1>1. 0 \in T
  <2>1. ASSUME NEW u \in Seq(Eas), Len(u) = 0 PROVE Holds(u)
    <3>1. u = <<>>
      BY <2>1
    <3>2. QED BY <2>1, <3>1, BytesEmpty
  <2> HIDE DEF Holds
  <2>2. QED BY <2>1
<1>2. ASSUME NEW n \in Nat, n \in T PROVE n + 1 \in T
  <2>1. ASSUME NEW u \in Seq(Eas), Len(u) = n + 1 PROVE Holds(u)
    <3>1. u # <<>>
      BY <2>1
    <3>2. PICK v \in Seq(Eas), e \in Eas : u = Append(v, e)
      BY <3>1, SequenceEmptyOrAppend
    <3>3. Len(v) = n
      BY <2>1, <3>2
    <3>4. Bytes(v) >= 5 * n
      BY <1>2, <3>3
    <3>5. Bytes(u) = Bytes(v) + FeaSize(e)
      BY <3>2, BytesAppend
    <3>6. Bytes(v) \in Nat /\ FeaSize(e) \in Nat /\ FeaSize(e) >= 5
      BY BytesNat, FeaSizeNat
    <3>7. QED BY <2>1, <3>4, <3>5, <3>6
  <2>2. n + 1 \in Nat
    OBVIOUS
  <2> HIDE DEF Holds
  <2>3. QED BY <2>1, <2>2
<1>3. \A n \in Nat : n \in T
  <2> HIDE DEF T
  <2>1. QED BY <1>1, <1>2, SetInduction
<1>4. Len(s) \in Nat
  OBVIOUS
<1> HIDE DEF Holds
<1>5. Holds(s)
  BY <1>3, <1>4
<1>6. QED BY <1>5 DEF Holds

LEMMA PartIsList ==
    ASSUME NEW E, NEW s \in Seq(E), NEW i \in 1 .. Len(s) + 1, NEW j \in 0 .. Len(s)
    PROVE  /\ SubSeq(s, i, j) \in Seq(E)
           /\ Len(SubSeq(s, i, j)) = IF i <= j THEN j - i + 1 ELSE 0
           /\ \A k \in 1 .. j - i + 1 : SubSeq(s, i, j)[k] = s[i + k - 1]
<1>1. i \in Int /\ j \in Int /\ \A k \in i .. j : s[k] \in E
  OBVIOUS
<1>2. QED BY <1>1, SubSeqProperties

\* A list cut at k.
LEMMA BytesParts ==
    ASSUME NEW s \in Seq(Eas), NEW i \in 1 .. Len(s) + 1,
           NEW k \in i - 1 .. Len(s), NEW j \in k .. Len(s)
    PROVE  /\ Bytes(SubSeq(s, i, j)) = Bytes(SubSeq(s, i, k)) + Bytes(SubSeq(s, k + 1, j))
           /\ Bytes(SubSeq(s, i, k)) \in Nat /\ Bytes(SubSeq(s, k + 1, j)) \in Nat
<1>1. k + 1 \in 1 .. Len(s) + 1 /\ k \in 0 .. Len(s) /\ j \in 0 .. Len(s)
  OBVIOUS
<1>2. SubSeq(s, i, k) \in Seq(Eas) /\ SubSeq(s, k + 1, j) \in Seq(Eas)
  BY <1>1, PartIsList
<1>3. SubSeq(s, i, k) \o SubSeq(s, k + 1, j) = SubSeq(s, i, j)
  BY ConcatAdjacentSubSeq
<1>4. QED BY <1>2, <1>3, BytesConcat, BytesNat

\* What fits of a list is a beginning of it.
LEMMA FitsBegins ==
    ASSUME NEW s \in Seq(Eas), NEW room \in Nat, NEW j \in 1 .. Len(s), Fits(s, j, room),
           NEW k \in 1 .. j
    PROVE  Fits(s, k, room)
<1>1. 1 \in 1 .. Len(s) + 1 /\ k \in 1 - 1 .. Len(s) /\ j \in k .. Len(s)
  OBVIOUS
<1>2. /\ Bytes(SubSeq(s, 1, j)) = Bytes(SubSeq(s, 1, k)) + Bytes(SubSeq(s, k + 1, j))
      /\ Bytes(SubSeq(s, 1, k)) \in Nat /\ Bytes(SubSeq(s, k + 1, j)) \in Nat
  BY <1>1, BytesParts
<1>3. QED BY <1>2 DEF Fits, ListSize, Header

LEMMA CopiedAll ==
    ASSUME NEW s \in Seq(Eas), NEW room \in Nat, ListSize(s) <= room
    PROVE  Copied(s, room) = s
<1> DEFINE fitting == {i \in 1 .. Len(s) : Fits(s, i, room)}
<1>1. Len(s) \in Nat /\ SubSeq(s, 1, Len(s)) = s
  BY SubSeqFull
<1>2. Len(s) # 0 => Fits(s, Len(s), room)
  BY <1>1 DEF Fits
<1>3. fitting = 1 .. Len(s)
  BY <1>1, <1>2, FitsBegins
<1>4. Cardinality(1 .. Len(s)) = Len(s)
  <2>1. 1 \in Int /\ Len(s) \in Int
    BY <1>1
  <2>2. Cardinality(1 .. Len(s)) = IF 1 > Len(s) THEN 0 ELSE Len(s) - 1 + 1
    BY <2>1, FS_Interval
  <2>3. QED BY <1>1, <2>2
<1>5. Copied(s, room) = SubSeq(s, 1, Cardinality(fitting))
  BY DEF Copied
<1> HIDE DEF fitting
<1>6. QED BY <1>1, <1>3, <1>4, <1>5

LEMMA CopiedFits ==
    ASSUME NEW s \in Seq(Eas), NEW room \in Nat
    PROVE  Copied(s, room) # <<>> => ListSize(Copied(s, room)) <= room
<1> DEFINE fitting == {i \in 1 .. Len(s) : Fits(s, i, room)}
<1>1. Len(s) \in Nat
  OBVIOUS
<1>2. Copied(s, room) = SubSeq(s, 1, Cardinality(fitting))
  BY DEF Copied
<1>3. CASE fitting = {}
  <2> HIDE DEF fitting
  <2>1. SubSeq(s, 1, 0) = <<>>
    BY SubSeqEmpty
  <2>2. QED BY <1>2, <1>3, <2>1, FS_EmptySet
<1>4. CASE fitting # {}
  <2> DEFINE k == Max(fitting)
  <2>1. fitting \subseteq 1 .. Len(s)
    OBVIOUS
  <2>2. k \in fitting /\ \A y \in fitting : k >= y
    <3> HIDE DEF fitting
    <3>1. QED BY <1>1, <1>4, <2>1, Greatest
  <2> HIDE DEF k
  <2>3. k \in 1 .. Len(s) /\ Fits(s, k, room)
    BY <2>2
  <2>4. fitting = 1 .. k
    <3>1. \A i \in 1 .. k : Fits(s, i, room)
      BY <2>3, FitsBegins
    <3>2. QED BY <2>2, <2>3, <3>1
  <2>5. Cardinality(1 .. k) = k
    <3>1. 1 \in Int /\ k \in Int
      BY <2>3
    <3>2. Cardinality(1 .. k) = IF 1 > k THEN 0 ELSE k - 1 + 1
      BY <3>1, FS_Interval
    <3>3. QED BY <2>3, <3>2
  <2>6. Copied(s, room) = SubSeq(s, 1, k)
    <3> HIDE DEF fitting
    <3>1. QED BY <1>2, <2>4, <2>5
  <2>7. QED BY <2>3, <2>6 DEF Fits
<1>5. QED BY <1>3, <1>4

-------------------------------------------------------------------------------
(* Extended attributes: queries.                                           *)

\* The server has a length for every name.
EasOK == eas \in [ToSet(EaNames) -> Values]

LEMMA ListedIsList == ASSUME EasOK PROVE Listed \in Seq(Eas)
<1> DEFINE all == [i \in 1 .. Len(EaNames) |-> [name |-> EaNames[i], value |-> eas[EaNames[i]]]]
<1>1. all \in Seq(Eas)
  <2>1. Len(EaNames) \in Nat /\ DOMAIN EaNames = 1 .. Len(EaNames)
    BY NamesAssumption
  <2>2. ASSUME NEW i \in 1 .. Len(EaNames)
        PROVE  [name |-> EaNames[i], value |-> eas[EaNames[i]]] \in Eas
    <3>1. EaNames[i] \in ToSet(EaNames)
      BY <2>1 DEF ToSet
    <3>2. eas[EaNames[i]] \in Nat
      BY <3>1, ValuesAssumption DEF EasOK
    <3>3. QED BY <3>1, <3>2 DEF Eas
  <2>3. QED BY <2>1, <2>2
<1>2. Listed = Among(all, {ea \in ToSet(all) : ea.value \in 1 .. MaxValue})
  BY DEF Listed
<1> HIDE DEF all
<1>3. QED BY <1>1, <1>2, AmongSeq

LEMMA SelectedIsList ==
    ASSUME EasOK, NEW gea
    PROVE  /\ Selected(gea) \in Seq(Eas)
           /\ Bytes(Selected(gea)) <= Bytes(Listed)
           /\ \A x : Contains(Selected(gea), x) <=> Contains(Listed, x) /\ Wanted(x, gea)
<1>1. Listed \in Seq(Eas)
  BY ListedIsList
<1> DEFINE kept == {ea \in ToSet(Listed) : Wanted(ea, gea)}
<1>2. Selected(gea) = Among(Listed, kept)
  BY DEF Selected
<1>3. \A x : Contains(Listed, x) => (x \in kept <=> Wanted(x, gea))
  <2>1. DOMAIN Listed = 1 .. Len(Listed)
    BY <1>1
  <2>2. \A x : Contains(Listed, x) => x \in ToSet(Listed)
    BY <2>1 DEF Contains, ToSet
  <2>3. QED BY <2>2
<1> HIDE DEF kept
<1>4. Among(Listed, kept) \in Seq(Eas)
  BY <1>1, AmongSeq
<1>5. Bytes(Among(Listed, kept)) <= Bytes(Listed)
  BY <1>1, AmongBytes
<1>6. \A x : Contains(Among(Listed, kept), x) <=> Contains(Listed, x) /\ x \in kept
  BY <1>1, AmongHolds
<1>7. QED BY <1>2, <1>3, <1>4, <1>5, <1>6

\* What the last answer says of the server's list, which does not change before
\* the host has read it.
AnswerKept ==
    /\ reply.op = "query" /\ reply.found =>
         LET s == Selected(reply.asked)
         IN  /\ reply.room \in Nat
             /\ reply.got = Copied(s, reply.room)
             /\ reply.cbList = ListSize(s)
             /\ reply.rc = "NO_ERROR" => ~Overflows(s, reply.room)
    /\ reply.op = "size" /\ reply.found => reply.cbList = GotSize(Listed)

LEMMA SameList ==
    ASSUME eas' = eas
    PROVE  Listed' = Listed /\ \A gea : Selected(gea)' = Selected(gea)
<1>1. Listed' = Listed
  BY DEF Listed
<1>2. QED BY <1>1 DEF Selected

\* What is selected with enough room is complete.
LEMMA AllIsComplete ==
    ASSUME EasOK, NEW gea, reply.asked = gea, reply.got = Selected(gea),
           reply.cbList = ListSize(Selected(gea))
    PROVE  Complete
<1>1. Listed \in Seq(Eas) /\ \A x : Contains(Selected(gea), x) <=> Contains(Listed, x) /\ Wanted(x, gea)
  BY ListedIsList, SelectedIsList
<1>2. ASSUME NEW i \in 1 .. Len(Listed), gea = <<>> \/ Contains(gea, Listed[i].name)
      PROVE  Contains(Selected(gea), Listed[i])
  <2>1. Contains(Listed, Listed[i])
    BY DEF Contains
  <2>2. IsPrefix(Listed[i].name, Listed[i].name)
    <3>1. Listed[i].name \in ToSet(EaNames)
      <4>1. Listed[i] \in Eas
        BY <1>1
      <4>2. QED BY <4>1 DEF Eas
    <3>2. Len(Listed[i].name) \in Nat
      BY <3>1, NamesAssumption
    <3>3. QED BY <3>2 DEF IsPrefix
  <2>3. Wanted(Listed[i], gea)
    BY <1>2, <2>2 DEF Wanted, Contains
  <2>4. QED BY <1>1, <2>1, <2>3
<1>3. ASSUME NEW i \in 1 .. Len(Selected(gea))
      PROVE  /\ Contains(Listed, Selected(gea)[i])
             /\ gea = <<>> \/ \E j \in 1 .. Len(gea) : IsPrefix(gea[j], Selected(gea)[i].name)
  <2>1. Contains(Selected(gea), Selected(gea)[i])
    BY DEF Contains
  <2>2. Contains(Listed, Selected(gea)[i]) /\ Wanted(Selected(gea)[i], gea)
    BY <1>1, <2>1
  <2>3. QED BY <2>2 DEF Wanted
<1>4. QED BY <1>2, <1>3 DEF Complete

LEMMA AnswerKeptIsEnough == ASSUME EaTypeOK, AnswerKept PROVE QueryAnswered
<1>1. EasOK
  BY DEF EaTypeOK, EasOK
<1>2. ASSUME reply.op = "query", reply.found
      PROVE  /\ reply.rc = "NO_ERROR" /\ reply.room > Header => Complete
             /\ reply.got # <<>> => ListSize(reply.got) <= reply.room
             /\ reply.room > Header /\ ListSize(reply.got) < reply.cbList
                  => /\ reply.rc # "NO_ERROR"
                     /\ Len(Copied(Selected(reply.asked), reply.cbList))
                          = Len(Selected(reply.asked))
  <2> DEFINE s == Selected(reply.asked)
  <2>1. /\ reply.room \in Nat /\ reply.got = Copied(s, reply.room)
        /\ reply.cbList = ListSize(s)
        /\ reply.rc = "NO_ERROR" => ~Overflows(s, reply.room)
    BY <1>2 DEF AnswerKept
  <2>2. s \in Seq(Eas)
    BY <1>1, SelectedIsList
  <2>3. Bytes(s) \in Nat /\ ListSize(s) \in Nat /\ ListSize(s) <= ListSize(s)
    BY <2>2, BytesNat DEF ListSize, Header
  <2> HIDE DEF s
  <2>4. reply.rc = "NO_ERROR" /\ reply.room > Header => Copied(s, reply.room) = s
    <3>1. SUFFICES ASSUME reply.rc = "NO_ERROR", reply.room > Header
                   PROVE  Copied(s, reply.room) = s
      OBVIOUS
    <3>2. ListSize(s) <= reply.room
      BY <2>1, <2>3, <3>1 DEF Overflows
    <3>3. QED BY <2>1, <2>2, <3>2, CopiedAll
  <2>5. reply.rc = "NO_ERROR" /\ reply.room > Header => Complete
    BY <1>1, <2>1, <2>4, AllIsComplete DEF s
  <2>6. reply.got # <<>> => ListSize(reply.got) <= reply.room
    BY <2>1, <2>2, CopiedFits
  <2>7. Copied(s, reply.cbList) = s
    BY <2>1, <2>2, <2>3, CopiedAll
  <2>8. reply.room > Header /\ ListSize(reply.got) < reply.cbList => reply.rc # "NO_ERROR"
    BY <2>1, <2>3, <2>4
  <2>9. QED BY <2>5, <2>6, <2>7, <2>8 DEF s
<1>3. ASSUME reply.op = "size", reply.found, NEW gea \in GetLists
      PROVE  ~Overflows(Selected(gea), reply.cbList)
  <2>1. Listed \in Seq(Eas) /\ Selected(gea) \in Seq(Eas) /\ Bytes(Selected(gea)) <= Bytes(Listed)
    BY <1>1, ListedIsList, SelectedIsList
  <2>2. Bytes(Listed) \in Nat /\ Bytes(Selected(gea)) \in Nat
    BY <2>1, BytesNat
  <2>3. reply.cbList = GotSize(Listed)
    BY <1>3 DEF AnswerKept
  <2>4. QED BY <2>1, <2>2, <2>3 DEF Overflows, GotSize, ListSize, Header
<1>4. QED BY <1>2, <1>3 DEF QueryAnswered

-------------------------------------------------------------------------------
(* Extended attributes: sets.                                              *)

\* What an EA of a list to set may be.
Settable == [name : ToSet(EaNames), value : Values]

\* What the server may have for a file.
EasSets == [ToSet(EaNames) -> Values]

\* The EAs of the server after the i-th of a list was set.
EasAt(g, list, i) ==
    IF i = 0 THEN eas ELSE [g[i - 1] EXCEPT ![list[i].name] = list[i].value]

\* The function by which Effect is defined.
IsEffect(g, list) == g = [i \in 0 .. Len(list) |-> EasAt(g, list, i)]

LEMMA EffectAt ==
    ASSUME NEW list, NEW g, IsEffect(g, list)
    PROVE  \A i \in 0 .. Len(list) : g[i] = EasAt(g, list, i)
  BY Zenon DEF IsEffect

LEMMA EffectExists ==
    ASSUME EasOK, NEW list \in Seq(Settable)
    PROVE  \E g \in [0 .. Len(list) -> EasSets] : IsEffect(g, list)
<1> DEFINE After(i, f) == [f EXCEPT ![list[i].name] = list[i].value]
           step == [p \in (1 .. Len(list)) \X EasSets |-> After(p[1], p[2])]
<1>1. IsStep(step, Len(list), EasSets)
  <2>1. \A i \in 1 .. Len(list), f \in EasSets : After(i, f) \in EasSets
    <3>1. \A i \in 1 .. Len(list) : list[i] \in Settable
      OBVIOUS
    <3>2. \A e \in Settable, f \in EasSets : [f EXCEPT ![e.name] = e.value] \in EasSets
      BY DEF Settable, EasSets
    <3>3. QED BY <3>1, <3>2
  <2> HIDE DEF After
  <2>2. QED BY <2>1 DEF IsStep
<1>2. \A i \in 1 .. Len(list), f \in EasSets : step[<<i, f>>] = After(i, f)
  <2> HIDE DEF After
  <2>1. QED OBVIOUS
<1>3. Len(list) \in Nat /\ eas \in EasSets
  BY DEF EasOK, EasSets
<1> HIDE DEF step
<1>4. PICK g \in [0 .. Len(list) -> EasSets] : Follows(g, Len(list), eas, step)
  BY <1>1, <1>3, RecursionExists
<1>5. ASSUME NEW i \in 0 .. Len(list) PROVE g[i] = EasAt(g, list, i)
  <2>1. CASE i = 0
    BY <1>4, <2>1 DEF EasAt, Follows
  <2>2. CASE i # 0
    <3>1. i \in 1 .. Len(list) /\ g[i - 1] \in EasSets
      BY <2>2
    <3>2. QED BY <1>2, <1>4, <2>2, <3>1, Zenon DEF EasAt, Follows
  <2>3. QED BY <2>1, <2>2
<1>6. g = [i \in 0 .. Len(list) |-> EasAt(g, list, i)]
  <2>1. [i \in 0 .. Len(list) |-> g[i]] = [i \in 0 .. Len(list) |-> EasAt(g, list, i)]
    BY <1>5, Zenon
  <2>2. QED BY <2>1
<1>7. QED BY <1>6, Zenon DEF IsEffect

LEMMA EffectIs ==
    ASSUME EasOK, NEW list \in Seq(Settable), NEW g, IsEffect(g, list)
    PROVE  Effect(list) = g[Len(list)] /\ Effect(list) \in EasSets
<1> DEFINE h == CHOOSE h : IsEffect(h, list)
<1>1. IsEffect(h, list)
  OBVIOUS
<1>2. Effect(list) = h[Len(list)]
  BY DEF Effect, IsEffect, EasAt
<1> HIDE DEF h
<1>3. Len(list) \in Nat
  OBVIOUS
<1>4. ASSUME NEW f, IsEffect(f, list) PROVE f[Len(list)] = h[Len(list)]
  <2>1. f[0] = h[0]
    <3>1. 0 \in 0 .. Len(list)
      BY <1>3
    <3>2. QED BY <1>1, <1>4, <3>1, EffectAt DEF EasAt
  <2>2. \A i \in 1 .. Len(list) : f[i - 1] = h[i - 1] => f[i] = h[i]
    <3>1. \A i \in 1 .. Len(list) : i \in 0 .. Len(list) /\ i # 0
      OBVIOUS
    <3>2. \A i \in 1 .. Len(list) : f[i] = EasAt(f, list, i) /\ h[i] = EasAt(h, list, i)
      BY <1>1, <1>4, <3>1, EffectAt
    <3>3. \A i \in 1 .. Len(list) : f[i - 1] = h[i - 1] => EasAt(f, list, i) = EasAt(h, list, i)
      BY <3>1, Zenon DEF EasAt
    <3>4. QED BY <3>2, <3>3
  <2>3. \A i \in 0 .. Len(list) : f[i] = h[i]
    <3>1. Alike(f, h, Len(list))
      BY <2>1, <2>2, Zenon DEF Alike
    <3>2. QED BY <1>3, <3>1, SameByInduction
  <2>4. QED BY <1>3, <2>3
<1>5. g[Len(list)] = h[Len(list)]
  BY <1>4
<1>6. PICK f \in [0 .. Len(list) -> EasSets] : IsEffect(f, list)
  BY EffectExists
<1>7. f[Len(list)] \in EasSets
  BY <1>3, <1>6
<1>8. QED BY <1>2, <1>4, <1>5, <1>6, <1>7

LEMMA EffectIsEas == ASSUME EasOK, NEW list \in Seq(Settable) PROVE Effect(list) \in EasSets
  BY EffectExists, EffectIs

LEMMA EffectEmpty == ASSUME EasOK PROVE Effect(<<>>) = eas
<1>1. <<>> \in Seq(Settable) /\ Len(<<>>) = 0
  OBVIOUS
<1>2. PICK g \in [0 .. Len(<<>>) -> EasSets] : IsEffect(g, <<>>)
  BY <1>1, EffectExists
<1>3. g[0] = eas
  <2>1. 0 \in 0 .. Len(<<>>)
    BY <1>1
  <2>2. g[0] = EasAt(g, <<>>, 0)
    BY <1>2, <2>1, EffectAt
  <2>3. QED BY <2>2, Zenon DEF EasAt
<1>4. Effect(<<>>) = g[Len(<<>>)]
  BY <1>1, <1>2, EffectIs
<1>5. QED BY <1>1, <1>3, <1>4

LEMMA EffectAppend ==
    ASSUME EasOK, NEW list \in Seq(Settable), NEW e \in Settable
    PROVE  Effect(Append(list, e)) = [Effect(list) EXCEPT ![e.name] = e.value]
<1> DEFINE n == Len(list)
           longer == Append(list, e)
<1>1. /\ longer \in Seq(Settable) /\ Len(longer) = n + 1 /\ n \in Nat
      /\ longer[n + 1] = e /\ \A i \in 1 .. n : longer[i] = list[i]
  BY AppendProperties
<1> HIDE DEF n, longer
<1>2. PICK g \in [0 .. Len(longer) -> EasSets] : IsEffect(g, longer)
  BY <1>1, EffectExists
<1> DEFINE f == [i \in 0 .. n |-> g[i]]
<1>3. ASSUME NEW i \in 0 .. n
      PROVE  f[i] = EasAt(f, list, i)
  <2>1. i \in 0 .. Len(longer) /\ (i # 0 => longer[i] = list[i] /\ f[i - 1] = g[i - 1])
    BY <1>1
  <2>2. g[i] = EasAt(g, longer, i)
    BY <1>2, <2>1, EffectAt
  <2>3. f[i] = g[i]
    OBVIOUS
  <2> HIDE DEF f
  <2>4. QED BY <2>1, <2>2, <2>3, Zenon DEF EasAt
<1>4. f = [i \in 0 .. n |-> f[i]] /\ f[n] = g[n]
  BY <1>1
<1> HIDE DEF f
<1>5. [i \in 0 .. n |-> f[i]] = [i \in 0 .. n |-> EasAt(f, list, i)]
  BY <1>3, Zenon
<1>6. IsEffect(f, list)
  BY <1>4, <1>5, Zenon DEF IsEffect, n
<1>7. Effect(list) = g[n]
  BY <1>4, <1>6, EffectIs DEF n
<1>8. Effect(longer) = g[n + 1]
  BY <1>1, <1>2, EffectIs
<1>9. n + 1 \in 0 .. Len(longer) /\ (n + 1) - 1 = n /\ n + 1 # 0
  BY <1>1
<1>10. g[n + 1] = EasAt(g, longer, n + 1)
  BY <1>2, <1>9, EffectAt, Zenon
<1>11. QED BY <1>1, <1>7, <1>8, <1>9, <1>10, Zenon DEF longer, EasAt

\* The last EA of a name wins.
LEMMA EffectWins ==
    ASSUME EasOK, NEW list \in Seq(Settable), NEW n \in ToSet(EaNames)
    PROVE  LastWins(list, n, eas[n], Effect(list)[n])
<1> DEFINE Holds(u) == LastWins(u, n, eas[n], Effect(u)[n])
           T == {k \in Nat : \A u \in Seq(Settable) : Len(u) = k => Holds(u)}
<1>1. 0 \in T
  <2>1. ASSUME NEW u \in Seq(Settable), Len(u) = 0 PROVE Holds(u)
    <3>1. u = <<>>
      BY <2>1
    <3>2. {i \in 1 .. Len(u) : u[i].name = n} = {}
      BY <2>1
    <3>3. QED BY <3>1, <3>2, EffectEmpty DEF LastWins
  <2> HIDE DEF Holds
  <2>2. QED BY <2>1
<1>2. ASSUME NEW k \in Nat, k \in T PROVE k + 1 \in T
  <2>1. ASSUME NEW u \in Seq(Settable), Len(u) = k + 1 PROVE Holds(u)
    <3>1. u # <<>>
      BY <2>1
    <3>2. PICK v \in Seq(Settable), e \in Settable : u = Append(v, e)
      BY <3>1, SequenceEmptyOrAppend
    <3>3. /\ Len(v) = k /\ u[k + 1] = e /\ \A i \in 1 .. k : u[i] = v[i]
      <4>1. Len(v) = k
        BY <2>1, <3>2
      <4>2. QED BY <3>2, <4>1, AppendProperties
    <3>4. Holds(v)
      <4> HIDE DEF Holds
      <4>1. QED BY <1>2, <3>3
    <3>5. Effect(u) = [Effect(v) EXCEPT ![e.name] = e.value] /\ Effect(v) \in EasSets
      BY <3>2, EffectAppend, EffectIsEas
    <3> DEFINE was == {i \in 1 .. Len(v) : v[i].name = n}
               set == {i \in 1 .. Len(u) : u[i].name = n}
    <3>6. CASE e.name = n
      <4>1. k + 1 \in set /\ set \subseteq 1 .. k + 1
        BY <2>1, <3>3, <3>6
      <4>2. Max(set) = k + 1
        <5> HIDE DEF set
        <5>1. k + 1 \in Nat /\ set # {}
          BY <4>1
        <5>2. Max(set) \in set /\ \A y \in set : Max(set) >= y
          BY <4>1, <5>1, Greatest
        <5>3. Max(set) \in 1 .. k + 1 /\ Max(set) >= k + 1
          BY <4>1, <5>2
        <5>4. QED BY <5>3
      <4>3. Effect(u)[n] = e.value
        BY <3>5, <3>6 DEF EasSets
      <4>4. LastWins(u, n, eas[n], Effect(u)[n])
            <=> Effect(u)[n] = IF set = {} THEN eas[n] ELSE u[Max(set)].value
        BY DEF LastWins
      <4> HIDE DEF set
      <4>5. QED BY <3>3, <4>1, <4>2, <4>3, <4>4
    <3>7. CASE e.name # n
      <4>1. set = was
        BY <2>1, <3>3, <3>7
      <4>2. Effect(u)[n] = Effect(v)[n]
        BY <3>5, <3>7 DEF EasSets
      <4>3. LastWins(u, n, eas[n], Effect(u)[n])
            <=> Effect(u)[n] = IF set = {} THEN eas[n] ELSE u[Max(set)].value
        BY DEF LastWins
      <4>4. Effect(v)[n] = IF was = {} THEN eas[n] ELSE v[Max(was)].value
        BY <3>4 DEF LastWins
      <4>5. was # {} => u[Max(was)] = v[Max(was)]
        <5>1. was \subseteq 1 .. k
          BY <3>3
        <5> HIDE DEF was, set
        <5>2. was # {} => Max(was) \in was
          BY <5>1, Greatest
        <5>3. QED BY <3>3, <5>1, <5>2
      <4> HIDE DEF was, set
      <4>6. QED BY <4>1, <4>2, <4>3, <4>4, <4>5
    <3>8. QED BY <3>6, <3>7
  <2>2. k + 1 \in Nat
    OBVIOUS
  <2> HIDE DEF Holds
  <2>3. QED BY <2>1, <2>2
<1>3. \A k \in Nat : k \in T
  <2> HIDE DEF T
  <2>1. QED BY <1>1, <1>2, SetInduction
<1>4. Len(list) \in Nat
  OBVIOUS
<1> HIDE DEF Holds
<1>5. Holds(list)
  BY <1>3, <1>4
<1>6. QED BY <1>5 DEF Holds

LEMMA BytesFirst ==
    ASSUME NEW list \in Seq(Eas), list # <<>>
    PROVE  /\ Bytes(list) = FeaSize(list[1]) + Bytes(SubSeq(list, 2, Len(list)))
           /\ FeaSize(list[1]) \in Nat /\ FeaSize(list[1]) >= 5
           /\ Bytes(SubSeq(list, 2, Len(list))) \in Nat
<1>1. Len(list) \in Nat /\ Len(list) >= 1 /\ list[1] \in Eas
  OBVIOUS
<1>2. 1 \in 1 .. Len(list) + 1 /\ 1 \in 1 - 1 .. Len(list) /\ Len(list) \in 1 .. Len(list)
  BY <1>1
<1>3. /\ Bytes(SubSeq(list, 1, Len(list)))
           = Bytes(SubSeq(list, 1, 1)) + Bytes(SubSeq(list, 1 + 1, Len(list)))
      /\ Bytes(SubSeq(list, 1 + 1, Len(list))) \in Nat
  BY <1>2, BytesParts
<1>4. SubSeq(list, 1, Len(list)) = list
  BY SubSeqFull
<1>5. SubSeq(list, 1, 1) = Append(<<>>, list[1])
  <2>1. /\ SubSeq(list, 1, 1) \in Seq(Eas) /\ Len(SubSeq(list, 1, 1)) = 1
        /\ SubSeq(list, 1, 1)[1] = list[1]
    <3>1. 1 \in 1 .. Len(list) + 1 /\ 1 \in 0 .. Len(list) /\ 1 \in 1 .. 1 - 1 + 1
      BY <1>1
    <3>2. /\ SubSeq(list, 1, 1) \in Seq(Eas) /\ Len(SubSeq(list, 1, 1)) = IF 1 <= 1 THEN 1 - 1 + 1 ELSE 0
          /\ SubSeq(list, 1, 1)[1] = list[1 + 1 - 1]
      BY <3>1, PartIsList
    <3>3. 1 + 1 - 1 = 1
      OBVIOUS
    <3>4. QED BY <3>2, <3>3
  <2> DEFINE a == SubSeq(list, 1, 1)
             b == Append(<<>>, list[1])
  <2>2. a \in Seq(Eas) /\ Len(a) = 1 /\ a[1] = list[1]
    BY <2>1
  <2>3. b \in Seq(Eas) /\ Len(b) = 1 /\ b[1] = list[1]
    BY <1>1
  <2> HIDE DEF a, b
  <2>4. a = b
    BY <2>2, <2>3
  <2>5. QED BY <2>4 DEF a, b
<1>6. Bytes(SubSeq(list, 1, 1)) = FeaSize(list[1])
  <2> DEFINE beginning == SubSeq(list, 1, 1)
             ea == list[1]
  <2>1. beginning = Append(<<>>, ea) /\ ea \in Eas
    BY <1>1, <1>5
  <2> HIDE DEF beginning, ea
  <2>2. <<>> \in Seq(Eas) /\ FeaSize(ea) \in Nat
    BY <2>1, FeaSizeNat
  <2>3. Bytes(Append(<<>>, ea)) = Bytes(<<>>) + FeaSize(ea)
    BY <2>1, <2>2, BytesAppend
  <2>4. Bytes(<<>>) + FeaSize(ea) = FeaSize(ea)
    BY <2>2, BytesEmpty
  <2>5. Bytes(beginning) = FeaSize(ea)
    BY <2>1, <2>3, <2>4, Zenon
  <2>6. QED BY <2>5 DEF beginning, ea
<1>7. 1 + 1 = 2
  OBVIOUS
<1>8. QED BY <1>1, <1>3, <1>4, <1>6, <1>7, FeaSizeNat

\* How far the walk over the host's list has counted, in the list and behind it.
LEMMA DoneInside ==
    ASSUME NEW list \in Seq(Eas), list # <<>>, NEW g \in Behind, NEW k \in 1 .. Len(list) - 1
    PROVE  Done(list, g, k) \in Nat /\ Done(list, g, k) < ListSize(list)
<1> DEFINE n == Len(list)
<1>1. n \in Nat /\ n >= 1
  OBVIOUS
<1>2. Min({k + 1, n}) = k + 1 /\ Max({0, k + 1 - n}) = 0
  <2>1. k + 1 \in Int /\ n \in Int /\ k + 1 - n \in Int /\ k + 1 <= n /\ ~(0 < k + 1 - n) /\ 0 \in Int
    OBVIOUS
  <2> HIDE DEF n
  <2>2. Min({k + 1, n}) = IF k + 1 <= n THEN k + 1 ELSE n
    BY <2>1, MinOfTwo
  <2>3. Max({0, k + 1 - n}) = IF 0 >= k + 1 - n THEN 0 ELSE k + 1 - n
    BY <2>1, MaxOfTwo
  <2>4. QED BY <2>1, <2>2, <2>3
<1>3. Done(list, g, k) = Header + Bytes(SubSeq(list, 2, k + 1)) + g * 0
  BY <1>2 DEF Done
<1>4. g * 0 = 0
  BY RoomsAssumption
<1>5. /\ Bytes(SubSeq(list, 2, n)) = Bytes(SubSeq(list, 2, k + 1)) + Bytes(SubSeq(list, k + 1 + 1, n))
      /\ Bytes(SubSeq(list, 2, k + 1)) \in Nat /\ Bytes(SubSeq(list, k + 1 + 1, n)) \in Nat
  <2>1. 2 \in 1 .. Len(list) + 1 /\ k + 1 \in 2 - 1 .. Len(list) /\ n \in k + 1 .. Len(list)
    OBVIOUS
  <2>2. QED BY <2>1, BytesParts
<1>6. Bytes(list) = FeaSize(list[1]) + Bytes(SubSeq(list, 2, n)) /\ FeaSize(list[1]) \in Nat \ {0}
  BY BytesFirst
<1>7. QED BY <1>3, <1>4, <1>5, <1>6 DEF ListSize, Header

LEMMA DoneBehind ==
    ASSUME NEW list \in Seq(Eas), list # <<>>, NEW g \in Behind, NEW k \in Nat, k >= Len(list)
    PROVE  /\ Done(list, g, k) = ListSize(list) - FeaSize(list[1]) + g * (k + 1 - Len(list))
           /\ FeaSize(list[1]) \in Nat /\ Bytes(list) \in Nat
<1> DEFINE n == Len(list)
<1>1. n \in Nat /\ n >= 1
  OBVIOUS
<1>2. Min({k + 1, n}) = n /\ Max({0, k + 1 - n}) = k + 1 - n
  <2>1. k + 1 \in Int /\ n \in Int /\ k + 1 - n \in Int /\ ~(k + 1 <= n) /\ 0 < k + 1 - n /\ 0 \in Int
    OBVIOUS
  <2> HIDE DEF n
  <2>2. Min({k + 1, n}) = IF k + 1 <= n THEN k + 1 ELSE n
    BY <2>1, MinOfTwo
  <2>3. Max({0, k + 1 - n}) = IF 0 >= k + 1 - n THEN 0 ELSE k + 1 - n
    BY <2>1, MaxOfTwo
  <2>4. QED BY <2>1, <2>2, <2>3
<1>3. Done(list, g, k) = Header + Bytes(SubSeq(list, 2, n)) + g * (k + 1 - n)
  BY <1>2 DEF Done
<1>4. /\ Bytes(list) = FeaSize(list[1]) + Bytes(SubSeq(list, 2, n)) /\ FeaSize(list[1]) \in Nat
      /\ Bytes(SubSeq(list, 2, n)) \in Nat
  BY BytesFirst
<1>5. g * (k + 1 - n) \in Int
  BY <1>1, RoomsAssumption
<1> DEFINE x == g * (k + 1 - n)
<1>6. Done(list, g, k) = Header + Bytes(SubSeq(list, 2, n)) + x /\ x \in Int
  BY <1>3, <1>5
<1> HIDE DEF x
<1>7. Done(list, g, k) = ListSize(list) - FeaSize(list[1]) + x
  BY <1>4, <1>6 DEF ListSize, Header
<1>8. Bytes(list) \in Nat
  BY <1>4
<1>9. QED BY <1>4, <1>7, <1>8 DEF x

\* The walk reaches every EA of the list, and goes behind the end of the list
\* only when what lies there looks smaller than the first EA.
LEMMA TurnsReach ==
    ASSUME NEW list \in Seq(Eas), list # <<>>, NEW g \in Behind
    PROVE  /\ Turns(list, g) \in Nat /\ Turns(list, g) >= Len(list)
           /\ Turns(list, g) > Len(list) => g < FeaSize(list[1])
<1> DEFINE n == Len(list)
           total == ListSize(list)
           enough == {k \in 1 .. total : Done(list, g, k) >= total}
<1>1. n \in Nat /\ n >= 1 /\ Bytes(list) \in Nat /\ Bytes(list) >= 5 * n
  BY BytesNat, BytesAtLeast
<1>2. total \in Nat /\ total >= 5 * n + 4
  BY <1>1 DEF ListSize, Header
<1>3. g \in Nat \ {0}
  BY RoomsAssumption
<1>4. FeaSize(list[1]) \in Nat /\ FeaSize(list[1]) <= total + 1 - n
  <2>1. /\ Bytes(list) = FeaSize(list[1]) + Bytes(SubSeq(list, 2, n)) /\ FeaSize(list[1]) \in Nat
        /\ Bytes(SubSeq(list, 2, n)) \in Nat
    BY BytesFirst
  <2>2. Bytes(SubSeq(list, 2, n)) >= n - 1
    <3>1. 2 \in 1 .. Len(list) + 1 /\ n \in 0 .. Len(list)
      BY <1>1
    <3>2. SubSeq(list, 2, n) \in Seq(Eas) /\ Len(SubSeq(list, 2, n)) = IF 2 <= n THEN n - 2 + 1 ELSE 0
      BY <3>1, PartIsList
    <3>3. Bytes(SubSeq(list, 2, n)) >= 5 * Len(SubSeq(list, 2, n))
      BY <3>2, BytesAtLeast
    <3> DEFINE b == Bytes(SubSeq(list, 2, n))
               l == Len(SubSeq(list, 2, n))
    <3>4. b \in Nat /\ b >= 5 * l /\ l = IF 2 <= n THEN n - 2 + 1 ELSE 0
      BY <2>1, <3>2, <3>3
    <3> HIDE DEF b, l, n
    <3>5. b >= n - 1
      BY <1>1, <3>4
    <3>6. QED BY <3>5 DEF b
  <2>3. total = 4 + Bytes(list)
    BY DEF ListSize, Header
  <2>4. QED BY <1>1, <2>1, <2>2, <2>3
<1>5. total \in enough
  <2>1. total \in Nat /\ total >= n /\ total \in 1 .. total
    BY <1>1, <1>2
  <2>2. Done(list, g, total) = total - FeaSize(list[1]) + g * (total + 1 - n)
    BY <2>1, DoneBehind
  <2>3. total + 1 - n \in Nat
    BY <1>1, <2>1
  <2>4. g * (total + 1 - n) \in Nat /\ g * (total + 1 - n) >= total + 1 - n
    BY <1>3, <2>3, TimesAtLeast
  <2> DEFINE x == g * (total + 1 - n)
  <2>5. Done(list, g, total) = total - FeaSize(list[1]) + x /\ x \in Nat /\ x >= total + 1 - n
    BY <2>2, <2>4
  <2> HIDE DEF x, total, n
  <2>6. Done(list, g, total) >= total
    BY <1>1, <1>2, <1>4, <2>5
  <2>7. QED BY <2>1, <2>6
<1>6. Turns(list, g) \in enough /\ \A k \in enough : Turns(list, g) <= k
  <2>1. enough \subseteq Nat
    BY <1>2
  <2>2. Turns(list, g) = Min(enough)
    BY DEF Turns
  <2> HIDE DEF enough
  <2>3. QED BY <1>5, <2>1, <2>2, MinOfNats
<1>7. Turns(list, g) >= n
  <2>1. SUFFICES ASSUME Turns(list, g) < n PROVE FALSE
    BY <1>1, <1>2, <1>6
  <2>2. Turns(list, g) \in 1 .. Len(list) - 1
    BY <1>1, <1>2, <1>6, <2>1
  <2>3. Done(list, g, Turns(list, g)) \in Nat /\ Done(list, g, Turns(list, g)) < total
    BY <2>2, DoneInside
  <2>4. Done(list, g, Turns(list, g)) >= total
    BY <1>6
  <2> HIDE DEF total
  <2>5. QED BY <1>2, <2>3, <2>4
<1>8. ASSUME Turns(list, g) > n PROVE g < FeaSize(list[1])
  <2>1. n \notin enough
    BY <1>1, <1>2, <1>6, <1>8
  <2>2. n \in 1 .. total
    BY <1>1, <1>2
  <2>3. Done(list, g, n) = total - FeaSize(list[1]) + g * (n + 1 - n)
    BY <1>1, DoneBehind
  <2>4. n + 1 - n = 1 /\ g * 1 = g
    BY <1>1, <1>3
  <2>5. ~(Done(list, g, n) >= total)
    BY <2>1, <2>2
  <2>6. Done(list, g, n) = total - FeaSize(list[1]) + g
    BY <2>3, <2>4
  <2> HIDE DEF total, n
  <2>7. QED BY <1>2, <1>3, <1>4, <2>5, <2>6
<1>9. QED BY <1>2, <1>6, <1>7, <1>8

LEMMA SetListIsList ==
    ASSUME NEW list \in SetLists
    PROVE  list \in Seq(Settable) /\ list \in Seq(Eas) /\ list # <<>>
<1> DEFINE settable == [name : ToSet(EaNames), value : {v \in Values : v <= MaxValue}]
<1>1. settable \subseteq Settable
  BY DEF Settable
<1>2. Settable \subseteq Eas
  BY ValuesAssumption DEF Settable, Eas
<1>3. list \in Seq(Settable)
  <2>1. list \in Seq(settable)
    BY ListsAssumption
  <2> HIDE DEF settable
  <2>2. QED BY <1>1, <2>1
<1>4. list \in Seq(Eas)
  BY <1>2, <1>3
<1>5. QED BY <1>3, <1>4, ListsAssumption

\* A set changes the EAs as the part of the list says that it came to.
LEMMA SetWins ==
    ASSUME EasOK, NEW by \in {"path", "handle", "create"}, NEW list \in SetLists,
           NEW g \in Behind, Set(by, list, g)
    PROVE  /\ eas' \in EasSets
           /\ reply'.op = "set"
           /\ LET k == reply'.refused
                  told == reply'.rc = "NO_ERROR" /\ reply'.by # "create"
                  accepted == IF k = 0 \/ told THEN list
                              ELSE SubSeq(list, 1, IF k > Len(list) THEN Len(list) ELSE k - 1)
              IN  /\ \A n \in ToSet(EaNames) : LastWins(accepted, n, eas[n], eas'[n])
                  /\ k > Len(list) => reply'.behind < FeaSize(list[1])
           /\ reply'.list = list
<1>1. list \in Seq(Settable) /\ list \in Seq(Eas) /\ list # <<>> /\ Len(list) \in Nat
  BY SetListIsList
<1> DEFINE turns == Turns(list, g)
<1>2. turns \in Nat /\ turns >= Len(list) /\ (turns > Len(list) => g < FeaSize(list[1]))
  BY <1>1, TurnsReach
<1>3. PICK k \in 0 .. turns :
        /\ eas' = Effect(SubSeq(list, 1, Min({IF k = 0 THEN turns ELSE k - 1, Len(list)})))
        /\ SetReply(by, list, g, k)
  BY DEF Set
<1> HIDE DEF turns
<1> DEFINE last == IF k = 0 THEN turns ELSE k - 1
           reached == IF last <= Len(list) THEN last ELSE Len(list)
<1>4. last \in Nat /\ reached \in 0 .. Len(list)
  BY <1>1, <1>2
<1>5. Min({last, Len(list)}) = reached
  <2>1. last \in Int /\ Len(list) \in Int
    BY <1>1, <1>4
  <2> HIDE DEF last
  <2>2. QED BY <2>1, MinOfTwo
<1> DEFINE part == SubSeq(list, 1, reached)
<1>6. eas' = Effect(part)
  BY <1>3, <1>5
<1>7. part \in Seq(Settable)
  <2>1. 1 \in 1 .. Len(list) + 1
    BY <1>1
  <2> HIDE DEF reached
  <2>2. QED BY <1>1, <1>4, <2>1, PartIsList
<1>8. /\ reply'.op = "set" /\ reply'.by = by /\ reply'.list = list /\ reply'.behind = g
      /\ reply'.refused = k
      /\ reply'.rc = IF k = 0 \/ by = "create" THEN "NO_ERROR"
                     ELSE IF by = "path" THEN "EAS_NOT_SUPPORTED" ELSE "ERROR"
  BY <1>3 DEF SetReply
<1> DEFINE accepted == IF k = 0 \/ (reply'.rc = "NO_ERROR" /\ reply'.by # "create") THEN list
                       ELSE SubSeq(list, 1, IF k > Len(list) THEN Len(list) ELSE k - 1)
<1>9. accepted = part
  <2>1. CASE k = 0
    <3>1. reached = Len(list)
      BY <1>1, <1>2, <2>1
    <3>2. QED BY <1>1, <2>1, <3>1, SubSeqFull
  <2>2. CASE k # 0
    <3>1. ~(reply'.rc = "NO_ERROR" /\ reply'.by # "create")
      BY <1>8, <2>2
    <3>2. reached = IF k > Len(list) THEN Len(list) ELSE k - 1
      BY <1>1, <2>2
    <3> HIDE DEF reached
    <3>3. QED BY <2>2, <3>1, <3>2
  <2>3. QED BY <2>1, <2>2
<1>10. k > Len(list) => turns > Len(list)
  BY <1>1, <1>2
<1> HIDE DEF part, last, reached
<1>11. \A n \in ToSet(EaNames) : LastWins(part, n, eas[n], Effect(part)[n])
  BY <1>7, EffectWins
<1>12. Effect(part) \in EasSets
  BY <1>7, EffectIsEas
<1>13. \A n \in ToSet(EaNames) : LastWins(accepted, n, eas[n], eas'[n])
  <2> HIDE DEF accepted
  <2>1. QED BY <1>6, <1>9, <1>11, Zenon
<1>14. k > Len(list) => reply'.behind < FeaSize(list[1])
  BY <1>2, <1>8, <1>10
<1>15. reply'.refused = k /\ reply'.op = "set" /\ reply'.list = list
  BY <1>8
<1>16. QED BY <1>6, <1>12, <1>13, <1>14, <1>15, Zenon

-------------------------------------------------------------------------------
(* Extended attributes: the theorems.                                      *)

\* The inductive invariant: QueryAnswered follows from it, and it says of the
\* last answer how it was come by.
EaInv == EaTypeOK /\ AnswerKept

LEMMA EaInvInit == EaInit => EaInv
  BY ValuesAssumption DEF EaInit, EaInv, EaTypeOK, AnswerKept

LEMMA QueryKeeps ==
    ASSUME EaInv, NEW by \in {"path", "handle"}, NEW gea \in GetLists, NEW room \in Rooms,
           Query(by, gea, room)
    PROVE  EaInv'
<1>1. EasOK /\ eas' = eas /\ easupport' = easupport
  BY DEF EaInv, EaTypeOK, EasOK, Query
<1> DEFINE s == Selected(gea)
<1>2. s \in Seq(Eas)
  BY <1>1, SelectedIsList
<1>3. ListSize(s) \in Nat /\ ListSize(s) >= Header
  <2> HIDE DEF s
  <2>1. Bytes(s) \in Nat
    BY <1>2, BytesNat
  <2>2. QED BY <2>1 DEF ListSize, Header
<1>4. /\ reply'.op = "query" /\ reply'.asked = gea /\ reply'.room = room
      /\ reply'.got = Copied(s, room) /\ reply'.cbList = ListSize(s)
      /\ reply'.rc = QueryRc(by, IF Overflows(s, room) THEN "BUFFER_OVERFLOW" ELSE "NO_ERROR")
  BY DEF Query
<1>5. reply'.rc = "NO_ERROR" => ~Overflows(s, room)
  <2> HIDE DEF s
  <2>1. QED BY <1>4 DEF QueryRc
<1>6. Selected(reply.asked)' = s
  <2>1. Listed' = Listed
    BY <1>1, SameList
  <2>2. QED BY <1>4, <2>1 DEF Selected
<1>7. room \in Nat
  BY RoomsAssumption
<1>8. EaTypeOK'
  BY <1>1, <1>3, <1>4 DEF EaInv, EaTypeOK
<1>9. AnswerKept'
  <2> HIDE DEF s
  <2>1. QED BY <1>4, <1>5, <1>6, <1>7 DEF AnswerKept
<1>10. QED BY <1>8, <1>9 DEF EaInv

LEMMA EaInvNext == EaInv /\ [EaNext]_eaVars => EaInv'
<1> SUFFICES ASSUME EaInv, [EaNext]_eaVars PROVE EaInv'
  OBVIOUS
<1> USE DEF EaInv
<1>1. CASE Rejected \/ Returned
  <2>1. eas' = eas /\ easupport' = easupport /\ reply'.op \in {"none", "rejected"}
    BY <1>1 DEF Rejected, Returned
  <2>2. EaTypeOK'
    BY <2>1 DEF EaTypeOK
  <2>3. AnswerKept'
    BY <2>1 DEF AnswerKept
  <2>4. QED BY <2>2, <2>3
<1>2. ASSUME NEW by \in {"path", "handle", "create"}, NEW list \in SetLists, NEW g \in Behind,
             Set(by, list, g)
      PROVE  EaInv'
  <2>1. EasOK
    BY DEF EaTypeOK, EasOK
  <2>2. eas' \in EasSets /\ reply'.op = "set" /\ easupport' = easupport
    BY <1>2, <2>1, SetWins DEF Set
  <2>3. EaTypeOK'
    BY <2>2 DEF EaTypeOK, EasSets
  <2>4. AnswerKept'
    BY <2>2 DEF AnswerKept
  <2>5. QED BY <2>3, <2>4
<1>3. ASSUME NEW by \in {"path", "handle"}, NEW gea \in GetLists, NEW room \in Rooms,
             Query(by, gea, room)
      PROVE  EaInv'
  BY <1>3, QueryKeeps
<1>4. ASSUME NEW by \in {"path", "handle"}, QueryFails(by) \/ SizeUnknown(by) PROVE EaInv'
  <2>1. /\ eas' = eas /\ easupport' = easupport /\ reply'.op \in {"query", "size"}
        /\ ~reply'.found
    BY <1>4 DEF QueryFails, SizeUnknown
  <2>2. EaTypeOK'
    BY <2>1 DEF EaTypeOK
  <2>3. AnswerKept'
    BY <2>1 DEF AnswerKept
  <2>4. QED BY <2>2, <2>3
<1>5. ASSUME NEW by \in {"path", "handle"}, Size(by) PROVE EaInv'
  <2>1. /\ eas' = eas /\ easupport' = easupport /\ reply'.op = "size"
        /\ reply'.cbList = GotSize(Listed)
    BY <1>5 DEF Size
  <2>2. EaTypeOK'
    BY <2>1 DEF EaTypeOK
  <2>3. Listed' = Listed
    BY <2>1, SameList
  <2>4. GotSize(Listed)' = GotSize(Listed)
    BY <2>3 DEF GotSize, ListSize
  <2>5. AnswerKept'
    BY <2>1, <2>4 DEF AnswerKept
  <2>6. QED BY <2>2, <2>5
<1>6. ASSUME NEW n \in ToSet(EaNames), NEW v \in Values, OtherSets(n, v) PROVE EaInv'
  <2>1. eas' \in EasSets /\ easupport' = easupport /\ reply' = reply /\ reply.op = "none"
    BY <1>6 DEF OtherSets, EaTypeOK, EasSets
  <2>2. EaTypeOK'
    BY <2>1 DEF EaTypeOK, EasSets
  <2>3. AnswerKept'
    BY <2>1 DEF AnswerKept
  <2>4. QED BY <2>2, <2>3
<1>7. CASE UNCHANGED eaVars
  <2>1. eas' = eas /\ reply' = reply /\ easupport' = easupport
    BY <1>7 DEF eaVars
  <2>2. EaTypeOK'
    BY <2>1 DEF EaTypeOK
  <2>3. Listed' = Listed /\ Selected(reply.asked)' = Selected(reply.asked)
    BY <2>1, SameList
  <2>4. AnswerKept'
    BY <2>1, <2>3 DEF AnswerKept
  <2>5. QED BY <2>2, <2>4
<1>8. QED BY <1>1, <1>2, <1>3, <1>4, <1>5, <1>6, <1>7, Zenon DEF EaNext

LEMMA EaInvHolds == EaSpec => []EaInv
  BY EaInvInit, EaInvNext, PTL DEF EaSpec

\* A query is complete or the host is told, nothing is stored behind the host's
\* buffer, and a buffer of the size that a size call reports is enough, whatever
\* the names, the lengths, what was asked for and the buffer.
THEOREM QueriesAnswered == EaSpec => []QueryAnswered
<1>1. EaInv => QueryAnswered
  BY AnswerKeptIsEnough DEF EaInv
<1>2. QED BY <1>1, EaInvHolds, PTL

\* A set that succeeds has set the whole list in order, and one that fails what
\* is in front of the EA refused, whatever the list and what lies behind it.
THEOREM SetsInOrder == EaSpec => SetInOrder
<1>1. EaInv /\ [EaNext]_eaVars =>
        [reply'.op = "set" /\ reply.op = "none" =>
         LET list == reply'.list
             k == reply'.refused
             told == reply'.rc = "NO_ERROR" /\ reply'.by # "create"
             accepted == IF k = 0 \/ told THEN list
                         ELSE SubSeq(list, 1, IF k > Len(list) THEN Len(list) ELSE k - 1)
         IN  /\ \A n \in ToSet(EaNames) : LastWins(accepted, n, eas[n], eas'[n])
             /\ k > Len(list) => reply'.behind < FeaSize(list[1])]_eaVars
  <2> SUFFICES ASSUME EaInv, EaNext, reply'.op = "set"
               PROVE  LET list == reply'.list
                          k == reply'.refused
                          told == reply'.rc = "NO_ERROR" /\ reply'.by # "create"
                          accepted == IF k = 0 \/ told THEN list
                                      ELSE SubSeq(list, 1, IF k > Len(list) THEN Len(list)
                                                           ELSE k - 1)
                      IN  /\ \A n \in ToSet(EaNames) : LastWins(accepted, n, eas[n], eas'[n])
                          /\ k > Len(list) => reply'.behind < FeaSize(list[1])
    OBVIOUS
  <2>1. EasOK
    BY DEF EaInv, EaTypeOK, EasOK
  <2>2. PICK by \in {"path", "handle", "create"}, list \in SetLists, g \in Behind :
          Set(by, list, g)
    <3>1. ~Rejected /\ ~Returned
      BY DEF Rejected, Returned
    <3>2. \A by \in {"path", "handle"} :
            /\ \A gea \in GetLists, room \in Rooms : ~Query(by, gea, room)
            /\ ~QueryFails(by) /\ ~Size(by) /\ ~SizeUnknown(by)
      BY DEF Query, QueryFails, Size, SizeUnknown
    <3>3. \A n \in ToSet(EaNames), v \in Values : ~OtherSets(n, v)
      BY DEF OtherSets
    <3>4. QED BY <3>1, <3>2, <3>3, Zenon DEF EaNext
  <2>3. QED BY <2>1, <2>2, SetWins
<1>2. QED BY <1>1, EaInvHolds, PTL DEF EaSpec, SetInOrder

===============================================================================
