------------------------------- MODULE OpenFile -------------------------------
(***************************************************************************)
(* The one open file of a connection (smbwrp_file in ndpsmb.c and          *)
(* smbwrp.c): its handle, its offset, and the attributes and times that    *)
(* the handlers only remember and smbwrp_close applies, by name, after the *)
(* file is closed.                                                         *)
(*                                                                         *)
(* One request at a time (plugin mutex); the session stays (Session models *)
(* what a reconnection does to an open handle).                            *)
(***************************************************************************)
EXTENDS Integers, FiniteSets

CONSTANTS
    Files,      \* files of the share
    Handles,    \* what cli_open may return; 0 is a handle like any other
    Attrs,      \* attribute bits; 0 is none
    NoFile,     \* the empty fname, and a handle that is not in use
    MaxSize,    \* bound: no file grows beyond it
    Reach,      \* bound: how far from 0 the host moves the file pointer
    Word        \* stands for 2^64: offset is an unsigned long long

ASSUME HandlesAssumption == Handles \subseteq Nat /\ NoFile \notin Files
ASSUME AttrsAssumption == Attrs \subseteq Nat /\ 0 \in Attrs
ASSUME WidthAssumption == /\ MaxSize \in Nat /\ Reach \in Nat
                          /\ Word \in Nat \ {0} /\ 2 * (Reach + MaxSize) < Word

VARIABLES
    fd, fname, openattr, mtime, updatetime, offset, \* pConn->file
    open,       \* server: the file behind every handle
    attr, time, size, \* server: of every file
    due,        \* ghost: attribute and time the host has asked for and not got
    pos,        \* ghost: where the host believes the file pointer to be
    broken,     \* ghost: handles whose cli_close failed
    hidden      \* ghost: the last call, if it failed and the host was not told

connFile == <<fd, fname, openattr, mtime, updatetime, offset>>
onServer == <<open, attr, time, size>>
fileVars == <<connFile, onServer, due, pos, broken, hidden>>

-------------------------------------------------------------------------------
(* Data.                                                                   *)

Closed == -1
Times == {"none", "set", "now"}   \* "none": 0, no change
NotAsked == -1
Owed == [attr : Attrs \cup {NotAsked}, time : Times]
OwedNothing == [attr |-> NotAsked, time |-> "none"]
Answer(call, rc, done) == hidden' = IF rc = "NO_ERROR" /\ ~done THEN call ELSE "none"

\* offset read as a signed number.
Signed(o) == IF 2 * o >= Word THEN o - Word ELSE o

Wrapped(i) == i % Word

Lesser(a, b) == IF a < b THEN a ELSE b
Greater(a, b) == IF a > b THEN a ELSE b

FileInit ==
    /\ fd = Closed /\ fname = NoFile /\ openattr = 0
    /\ mtime = "none" /\ updatetime = 0 /\ offset = 0
    /\ open = [h \in Handles |-> NoFile]
    /\ attr = [f \in Files |-> 0]
    /\ time = [f \in Files |-> "none"]
    /\ size = [f \in Files |-> 0]
    /\ due = OwedNothing /\ pos = 0 /\ broken = {}
    /\ hidden = "none"

\* A handler that changes nothing: its answer is all there is.
Only(call, rc, done) == Answer(call, rc, done) /\ UNCHANGED <<connFile, onServer,
                                                              due, pos, broken>>

-------------------------------------------------------------------------------
(* smbopen: flags are 0 (OpenExisting, attribute 0) or truncating          *)
(* (OpenReplace and OpenCreate).                                           *)

\* Mutant: the guard is missing.
NeverBusy == FALSE

\* A connection has room for one file; 0 counts as closed here.
Busy == fd > 0

OpenRefused == \/ Busy /\ Only("open", "TOO_MANY_OPEN_FILES", FALSE)
               \/ ~Busy /\ Only("open", "ERROR", FALSE)  \* pathparser fails

\* The name and the attribute are stored before cli_open is asked.
Named(f, a) == fname' = f /\ openattr' = a

OpenFails(f, a) ==
    /\ ~Busy
    /\ Named(f, a)
    /\ Answer("open", "ERROR", FALSE)
    /\ UNCHANGED <<fd, mtime, updatetime, offset, onServer, due, pos, broken>>

Open(f, a, truncate) ==
    /\ ~Busy
    /\ truncate \/ a = 0
    /\ Named(f, a)
    /\ \E h \in Handles : /\ open[h] = NoFile
                          /\ fd' = h
                          /\ open' = [open EXCEPT ![h] = f]
                          /\ broken' = broken \ {h}
    /\ updatetime' = 0 /\ offset' = 0
    /\ size' = IF truncate THEN [size EXCEPT ![f] = 0] ELSE size
    /\ due' = [attr |-> IF a = 0 THEN NotAsked ELSE a, time |-> "none"]
    /\ pos' = 0
    /\ Answer("open", "NO_ERROR", TRUE)
    /\ UNCHANGED <<mtime, attr, time>>

-------------------------------------------------------------------------------
(* Reading, writing, resizing.                                             *)

\* The file the server has behind pConn->file.fd.
Target == IF fd \in Handles THEN open[fd] ELSE NoFile

\* Mutant: the pointer moves by what was asked for.
AdvanceAsked(asked, got) == offset' = Wrapped(offset + asked)

\* offset += nread.
Advance(asked, got) == offset' = Wrapped(offset + got)

\* NdpFileRead does not look at fd: the server refuses handle -1.
Read(n) ==
    /\ Target # NoFile
    /\ Signed(offset) >= 0
    /\ LET got == Greater(0, Lesser(n, size[Target] - offset))
       IN  Advance(n, got) /\ pos' = pos + got
    /\ Answer("read", "NO_ERROR", TRUE)
    /\ UNCHANGED <<fd, fname, openattr, mtime, updatetime, onServer, due, broken>>

ReadFails == Only("read", "ERROR", FALSE)

Write(n) ==
    /\ Target # NoFile
    /\ Signed(offset) >= 0 /\ offset + n <= MaxSize
    /\ size' = [size EXCEPT ![Target] = Greater(@, offset + n)]
    /\ updatetime' = 1
    /\ Advance(n, n) /\ pos' = pos + n
    /\ due' = [due EXCEPT !.time = "now"]
    /\ Answer("write", "NO_ERROR", TRUE)
    /\ UNCHANGED <<fd, fname, openattr, mtime, open, attr, time, broken>>

\* cli_writeall may have written a part of it.
WriteFails(n) ==
    /\ fd # Closed
    /\ size' \in {size, [f \in Files |->
                           IF f = Target /\ Signed(offset) >= 0 /\ offset + n <= MaxSize
                           THEN Greater(size[f], offset + n) ELSE size[f]]}
    /\ Answer("write", "ERROR", FALSE)
    /\ UNCHANGED <<connFile, open, attr, time, due, pos, broken>>

\* The guard of write, seek, new size and close.
InvalidHandle == \E call \in {"write", "seek", "newsize", "close"} :
                     fd = Closed /\ Only(call, "INVALID_HANDLE", FALSE)

NewSize(s) ==
    /\ Target # NoFile
    /\ size' = [size EXCEPT ![Target] = s]
    /\ Answer("newsize", "NO_ERROR", TRUE)
    /\ UNCHANGED <<connFile, open, attr, time, due, pos, broken>>

\* smbwrp_setfilesize returns 0 also when cli_ftruncate fails.
NewSizeFails == fd # Closed /\ Only("newsize", "NO_ERROR", FALSE)

-------------------------------------------------------------------------------
(* smbwrp_lseek.  The host bounds |pos|, nothing else does.                *)

MoveTo(i) ==
    /\ i \in -Reach .. Reach
    /\ offset' = Wrapped(i)
    /\ pos' = i
    /\ Answer("seek", "NO_ERROR", TRUE)
    /\ UNCHANGED <<fd, fname, openattr, mtime, updatetime, onServer, due, broken>>

\* SEEK_SET refuses what is negative, SEEK_END what is positive.
Seek(d) ==
    /\ fd # Closed
    /\ \/ d >= 0 /\ MoveTo(d)                                 \* SEEK_SET
       \/ MoveTo(Signed(offset) + d)                          \* SEEK_CUR
       \/ d <= 0 /\ Target # NoFile /\ MoveTo(size[Target] + d) \* SEEK_END

SeekRefused == fd # Closed /\ Only("seek", "INVALID_PARAMETER", FALSE)

-------------------------------------------------------------------------------
(* Deferred attributes and times.                                          *)

SetInfo(a) ==
    /\ fd # Closed /\ fname # NoFile
    /\ openattr' = a
    /\ mtime' = "set"
    /\ updatetime' = 2
    /\ due' = [attr |-> a, time |-> "set"]
    /\ Answer("setinfo", "NO_ERROR", TRUE)
    /\ UNCHANGED <<fd, fname, offset, onServer, pos, broken>>

\* NdpFileSetInfo sets rc for a closed handle and returns NO_ERROR.
SetInfoRefused ==
    /\ fd = Closed \/ fname = NoFile
    /\ Only("setinfo", "NO_ERROR", FALSE)

\* The end of smbwrp_close and of NdpFileClose.
Reset ==
    /\ fd' = Closed /\ fname' = NoFile /\ openattr' = 0
    /\ mtime' = "none" /\ updatetime' = 0 /\ offset' = 0

\* Mutant: the remembered time wins over a later write.
MtimeAlways == mtime

\* updatetime = 1: the last change was a write.
CloseMtime == IF updatetime = 1 THEN "now" ELSE mtime

\* cli_setpathinfo_basic: a zero leaves what the file has.
Applied ==
    /\ attr' = [attr EXCEPT ![fname] = IF openattr = 0 THEN @ ELSE openattr]
    /\ time' = [time EXCEPT ![fname] = IF CloseMtime = "none" THEN @ ELSE CloseMtime]

\* What the host has asked for is there.
Settled(f) == /\ due.attr # NotAsked => attr'[f] = due.attr
              /\ due.time # "none" => time'[f] = due.time

Released == open' = [open EXCEPT ![fd] = NoFile]

\* smbwrp_close, cli_close succeeds; cli_setpathinfo_basic may fail unseen.
CloseFile(call) ==
    /\ fd # Closed /\ fname # NoFile
    /\ \/ (openattr # 0 \/ CloseMtime # "none") /\ Applied
       \/ UNCHANGED <<attr, time>>
    /\ Answer(call, "NO_ERROR", Settled(Target))
    /\ Reset
    /\ due' = OwedNothing /\ pos' = 0
    /\ UNCHANGED size

Close == CloseFile("close") /\ Released /\ UNCHANGED broken

\* Mutant: the error of cli_close does not survive.
CloseRcLost == "NO_ERROR"
CloseRc == "ERROR"

\* cli_close fails: nothing is applied, the handle is given up all the same.
CloseFails ==
    /\ fd # Closed
    /\ Reset
    /\ broken' = broken \cup {fd}
    /\ due' = OwedNothing /\ pos' = 0
    /\ Answer("close", CloseRc, FALSE)
    /\ UNCHANGED onServer

\* NdpFreeConnection closes the file, and smbwrp_disconnect every handle of
\* the session.  The host goes on with a new connection.
Free ==
    /\ \/ CloseFile("free")
       \/ fd = Closed /\ Reset /\ Answer("free", "NO_ERROR", TRUE)
          /\ due' = OwedNothing /\ pos' = 0 /\ UNCHANGED <<attr, time, size>>
    /\ open' = [h \in Handles |-> NoFile]
    /\ broken' = {}

-------------------------------------------------------------------------------
FileNext ==
    \/ OpenRefused
    \/ \E f \in Files, a \in Attrs : \/ OpenFails(f, a)
                                     \/ \E truncate \in BOOLEAN : Open(f, a, truncate)
    \/ \E n \in 0 .. MaxSize : Read(n) \/ Write(n) \/ WriteFails(n) \/ NewSize(n)
    \/ ReadFails \/ InvalidHandle \/ NewSizeFails
    \/ \E d \in -Reach .. Reach : Seek(d)
    \/ SeekRefused
    \/ \E a \in Attrs : SetInfo(a)
    \/ SetInfoRefused \/ Close \/ CloseFails \/ Free

FileSpec == FileInit /\ [][FileNext]_fileVars

-------------------------------------------------------------------------------
(* Properties.                                                             *)

\* The open file and the server's files are well formed.
FileTypeOK ==
    /\ fd \in Handles \cup {Closed}
    /\ fname \in Files \cup {NoFile}
    /\ openattr \in Attrs /\ mtime \in Times /\ updatetime \in 0 .. 2
    /\ offset \in 0 .. Word - 1
    /\ open \in [Handles -> Files \cup {NoFile}]
    /\ attr \in [Files -> Attrs] /\ time \in [Files -> Times]
    /\ size \in [Files -> 0 .. MaxSize]
    /\ due \in Owed /\ pos \in -Word .. Word /\ broken \subseteq Handles

\* The host, which counts what it was told was read and written and where it
\* has moved to, and the plugin agree on the file pointer, whatever fails or
\* comes short, and also when a relative move went below zero.
HostAgreesOnOffset == FileTypeOK /\ Wrapped(pos) = offset

\* Handles the server has open and the plugin does not know any more.
Forgotten == {h \in Handles : open[h] # NoFile} \ {fd}

\* No open handle is forgotten but those that the server would not close, and
\* handle 0, which smbopen takes for "no file open" while all other handlers
\* take it for an open file.  A connection without a file owes no time and no
\* offset to the next one, also after a close or an open that failed.
NothingLeftBehind ==
    /\ Forgotten \subseteq broken \cup {0}
    /\ fd = Closed => mtime = "none" /\ updatetime = 0 /\ offset = 0

\* smbwrp_close changes the file that is being closed and no other, to what
\* the host last asked for through this handle: the time of the last SetInfo,
\* or now if a write came after it, or nothing.  While handle 0 is in use this
\* is not so: an open over it changes the name and keeps the time.
DeferredReachTheFile ==
    [][(0 \in Handles => open[0] = NoFile) =>
         \A f \in Files :
           /\ time'[f] # time[f] => f = Target /\ time'[f] = due.time
           /\ attr'[f] # attr[f] => f = Target /\ attr'[f] = due.attr]_fileVars

\* What the host is told succeeded and did not: a new size the server refused, a
\* SetInfo without an open file, and at close the attributes and times, which
\* cli_setpathinfo_basic may refuse unseen and cannot clear.  A close that left
\* the handle open on the server is not among them.
HiddenFailuresNamed ==
    [][\/ hidden' \in {"none", "newsize"}
       \/ hidden' = "setinfo" /\ fd = Closed
       \/ hidden' \in {"close", "free"} /\ broken' \subseteq broken]_fileVars
===============================================================================
