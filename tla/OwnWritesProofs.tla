---------------------------- MODULE OwnWritesProofs ----------------------------
(***************************************************************************)
(* When a user sees his own changes, for every set of threads, directories *)
(* and files, and every capacity of the cache.                             *)
(***************************************************************************)
EXTENDS OwnWrites, FiniteSetTheorems, TLAPS

-------------------------------------------------------------------------------
(* The inductive invariant.                                                *)

OnPath == {"create", "delete", "setpath", "setattr", "open", "truncate"}

\* A handler has the arguments it works on.
CallFits(t) ==
    LET r == call[t]
    IN  /\ pc[t] = "changing" =>
             /\ r.op \in OnPath \cup OnFile \cup {"move"}
                   => r.dir \in Dirs /\ r.name \in Names
             /\ r.op \in OnFile => file[t] # Closed
             /\ r.op = "move" => r.to \in Dirs
             /\ r.op \in CreatesDir \cup {"movedir"} => r.dir \in Dirs \ {Root}
             /\ r.op = "movedir" => r.to \in Dirs \ {Root}
        /\ pc[t] = "listing" => r.dir \in Dirs /\ seen[t] \in AllListings

FileFits(t) == file[t] = Closed \/ (file[t].dir \in Dirs /\ file[t].name \in Names)

OneHandler == \A t, u \in Threads : pc[t] # "idle" /\ pc[u] # "idle" => t = u

Coherent == \A d \in Cached \ uncovered : UpToDate(d)

\* What the handler under way may change is not cached.
Dropped == \A t \in Threads : pc[t] = "changing" => Parents(call[t]) \cap Cached = {}

\* What the listing under way has read is what the server has, and there is room.
Reading == \A t \in Threads : pc[t] = "listing" =>
              /\ folder[call[t].dir] \in exists /\ seen[t] = Listing(call[t].dir)
              /\ cached[call[t].dir] = None
              /\ Cardinality(Cached) < Capacity

HandlersInv == /\ OwnWritesTypeOK
               /\ \A t \in Threads : CallFits(t) /\ FileFits(t)
               /\ IsFiniteSet(Cached)
               /\ Serialized => OneHandler /\ Coherent /\ Dropped /\ Reading

-------------------------------------------------------------------------------
(* The server's part of a handler.                                         *)

LEMMA FileBecomesTypes ==
    ASSUME OwnWritesTypeOK, NEW d \in Dirs, NEW n \in Names, NEW a \in Attrs \cup {Absent},
           FileBecomes(d, n, a)
    PROVE  /\ files' \in [Folders -> Contents]
           /\ \A f \in Folders \ {folder[d]} : files'[f] = files[f]
<1>1. files \in [Folders -> Contents] /\ folder[d] \in Folders
  BY RootAssumption DEF OwnWritesTypeOK
<1>2. [files[folder[d]] EXCEPT ![n] = a] \in Contents
  BY <1>1 DEF Contents
<1>3. files' = [files EXCEPT ![folder[d]] = [files[folder[d]] EXCEPT ![n] = a]]
  BY DEF FileBecomes
<1>4. QED BY <1>1, <1>2, <1>3

LEMMA SameListing ==
    ASSUME NEW c, files'[folder[c]] = files[folder[c]], exists' = exists \/ c # Root
    PROVE  Listing(c)' = Listing(c)
BY DEF Listing

FileType == [dir : Dirs \cup {NULL}, name : Names \cup {NULL}, dirty : BOOLEAN]

\* The change touches directories that are not cached, because the handler
\* invalidated them, or that become uncovered.
LEMMA ServeKeeps ==
    ASSUME HandlersInv, NEW t \in Threads, pc[t] = "changing", Leave(t),
           cached' = cached, seen' = seen,
           NEW D, uncovered' = uncovered \cup (D \cap Cached),
           file' \in [Threads -> FileType], FileFits(t)',
           \A u \in Threads \ {t} : file'[u] = file[u],
           files' \in [Folders -> Contents],
           exists' \in SUBSET Folders, folder[Root] \in exists',
           \A d \in Dirs : d \notin D /\ d \notin Parents(call[t])
              => Listing(d)' = Listing(d) /\ (folder[d] \in exists => folder[d] \in exists')
    PROVE  HandlersInv'
<1>1. OwnWritesTypeOK /\ IsFiniteSet(Cached)
  BY DEF HandlersInv
<1>2. /\ pc' = [pc EXCEPT ![t] = "idle"] /\ call' = [call EXCEPT ![t] = NoCall]
      /\ Cached' = Cached
  BY DEF Leave, Cached
<1>3. pc'[t] = "idle" /\ \A u \in Threads \ {t} : pc'[u] = pc[u] /\ call'[u] = call[u]
  BY <1>1, <1>2 DEF OwnWritesTypeOK
<1>4. OwnWritesTypeOK'
  <2>1. NoCall \in Calls
    BY DEF NoCall, Calls
  <2>2. uncovered' \in SUBSET Cached'
    BY <1>1, <1>2 DEF OwnWritesTypeOK
  <2>3. QED
    BY <1>1, <1>2, <2>1, <2>2 DEF OwnWritesTypeOK, FileType
<1>5. \A u \in Threads : CallFits(u)' /\ FileFits(u)'
  <2>1. CallFits(t)'
    BY <1>3 DEF CallFits
  <2>2. ASSUME NEW u \in Threads \ {t} PROVE CallFits(u)' /\ FileFits(u)'
    BY <1>3, <2>2 DEF HandlersInv, CallFits, FileFits
  <2>3. QED BY <2>1, <2>2
<1>6. ASSUME Serialized PROVE OneHandler' /\ Coherent' /\ Dropped' /\ Reading'
  <2>1. OneHandler /\ Coherent /\ Dropped
    BY <1>6 DEF HandlersInv
  <2>2. \A u \in Threads : pc'[u] = "idle"
    BY <1>3, <2>1 DEF OneHandler
  <2>3. Parents(call[t]) \cap Cached = {}
    BY <2>1 DEF Dropped
  <2>4. ASSUME NEW d \in Cached, d \notin uncovered' PROVE UpToDate(d)'
    <3>1. d \in Dirs /\ d \notin D /\ d \notin Parents(call[t]) /\ d \notin uncovered
      BY <2>3, <2>4 DEF Cached
    <3>2. UpToDate(d)
      BY <2>1, <2>4, <3>1 DEF Coherent
    <3>3. QED
      BY <3>1, <3>2 DEF UpToDate
  <2>5. QED
    BY <1>2, <2>2, <2>4 DEF OneHandler, Coherent, Dropped, Reading
<1>7. QED
  BY <1>1, <1>2, <1>4, <1>5, <1>6 DEF HandlersInv

\* Handlers on a path or on the open file: one file changes, or none.
LEMMA ServeFileKeeps ==
    ASSUME HandlersInv, NEW t \in Threads, pc[t] = "changing", Leave(t),
           call[t].op \in OnPath \cup OnFile,
           UNCHANGED <<cached, exists, seen>>,
           files' = files \/ \E a \in Attrs \cup {Absent} :
                                FileBecomes(call[t].dir, call[t].name, a),
           \/ uncovered' = uncovered /\ files' = files
           \/ call[t].dir \in Parents(call[t]) /\ Uncovers(Respelled(call[t].dir))
           \/ Uncovers(Spelled(call[t].dir)),
           file' = file \/ \E f \in FileType :
              /\ file' = [file EXCEPT ![t] = f]
              /\ f = Closed \/ (f.dir \in Dirs /\ f.name \in Names)
    PROVE  HandlersInv'
<1>1. OwnWritesTypeOK /\ CallFits(t) /\ FileFits(t)
  BY DEF HandlersInv
<1>2. call[t].dir \in Dirs /\ call[t].name \in Names
  BY <1>1 DEF CallFits
<1>3. /\ files' \in [Folders -> Contents]
      /\ files' = files \/ \A f \in Folders \ {folder[call[t].dir]} : files'[f] = files[f]
  BY <1>1, <1>2, FileBecomesTypes DEF OwnWritesTypeOK
<1>4. /\ file' \in [Threads -> FileType] /\ FileFits(t)'
      /\ \A u \in Threads \ {t} : file'[u] = file[u]
  <2>1. file \in [Threads -> FileType]
    BY <1>1 DEF OwnWritesTypeOK, FileType
  <2>2. CASE file' = file
    BY <1>1, <2>1, <2>2 DEF FileFits
  <2>3. CASE file' # file
    <3>1. PICK f \in FileType : /\ file' = [file EXCEPT ![t] = f]
                                /\ f = Closed \/ (f.dir \in Dirs /\ f.name \in Names)
      BY <2>3
    <3>2. file'[t] = f /\ file' \in [Threads -> FileType]
          /\ \A u \in Threads \ {t} : file'[u] = file[u]
      BY <2>1, <3>1
    <3>3. FileFits(t)'
      BY <3>1, <3>2 DEF FileFits, Closed
    <3>4. QED BY <3>2, <3>3
  <2>4. QED BY <2>2, <2>3
<1>5. PICK D \in SUBSET Dirs :
         /\ uncovered' = uncovered \cup (D \cap Cached)
         /\ \/ files' = files
            \/ \A d \in Dirs : SameFolder(d, call[t].dir) => d \in D \cup Parents(call[t])
  <2>1. CASE uncovered' = uncovered /\ files' = files
    <3>1. uncovered' = uncovered \cup ({} \cap Cached) /\ {} \in SUBSET Dirs
      BY <2>1
    <3>2. QED
      BY <2>1, <3>1, Zenon
  <2>2. CASE call[t].dir \in Parents(call[t]) /\ Uncovers(Respelled(call[t].dir))
    <3>1. uncovered' = uncovered \cup (Respelled(call[t].dir) \cap Cached)
      BY <2>2 DEF Uncovers
    <3>2. /\ Respelled(call[t].dir) \in SUBSET Dirs
          /\ \A d \in Dirs : SameFolder(d, call[t].dir)
                => d \in Respelled(call[t].dir) \cup Parents(call[t])
      BY <2>2 DEF Respelled
    <3>3. QED
      BY <3>1, <3>2, Zenon
  <2>3. CASE Uncovers(Spelled(call[t].dir))
    <3>1. uncovered' = uncovered \cup (Spelled(call[t].dir) \cap Cached)
      BY <2>3 DEF Uncovers
    <3>2. /\ Spelled(call[t].dir) \in SUBSET Dirs
          /\ \A d \in Dirs : SameFolder(d, call[t].dir)
                => d \in Spelled(call[t].dir) \cup Parents(call[t])
      BY DEF Spelled
    <3>3. QED
      BY <3>1, <3>2, Zenon
  <2>4. QED BY <2>1, <2>2, <2>3
<1>6. ASSUME NEW d \in Dirs, d \notin D, d \notin Parents(call[t])
      PROVE  Listing(d)' = Listing(d) /\ (folder[d] \in exists => folder[d] \in exists')
  <2>1. files'[folder[d]] = files[folder[d]]
    BY <1>3, <1>5, <1>6, RootAssumption DEF SameFolder
  <2>2. QED
    BY <2>1, SameListing
<1>7. exists' \in SUBSET Folders /\ folder[Root] \in exists'
  BY <1>1 DEF OwnWritesTypeOK
<1>8. QED
  BY <1>3, <1>4, <1>5, <1>6, <1>7, ServeKeeps

LEMMA ServeNext ==
    ASSUME HandlersInv, NEW t \in Threads, Serve(t)
    PROVE  HandlersInv'
<1>1. OwnWritesTypeOK /\ CallFits(t) /\ FileFits(t) /\ file[t] \in FileType
  BY DEF HandlersInv, OwnWritesTypeOK, FileType
<1>2. Closed \in FileType /\ file = [file EXCEPT ![t] = file[t]]
  BY <1>1 DEF Closed, FileType, OwnWritesTypeOK
<1>3. CASE Refuse(t)
  <2>1. uncovered' = uncovered \cup ({} \cap Cached)
    BY <1>3 DEF Refuse
  <2>2. file' \in [Threads -> FileType] /\ FileFits(t)' /\ \A u \in Threads : file'[u] = file[u]
    BY <1>1, <1>3 DEF Refuse, OwnWritesTypeOK, FileType, FileFits
  <2>3. \A d \in Dirs : Listing(d)' = Listing(d)
    BY <1>3 DEF Refuse, Listing
  <2>4. QED
    BY <1>1, <1>3, <2>1, <2>2, <2>3, ServeKeeps DEF Refuse, OwnWritesTypeOK
<1>4. ASSUME NEW b \in BOOLEAN, OpenFile(t, b), pc[t] = "changing", call[t].op \in OnPath
      PROVE  \E f \in FileType : /\ file' = [file EXCEPT ![t] = f]
                                 /\ f = Closed \/ (f.dir \in Dirs /\ f.name \in Names)
  <2>1. call[t].dir \in Dirs /\ call[t].name \in Names
    BY <1>1, <1>4 DEF CallFits
  <2>2. PICK f \in FileType :
           f = [dir |-> call[t].dir, name |-> call[t].name, dirty |-> b]
    BY <2>1 DEF FileType
  <2>3. file' = [file EXCEPT ![t] = f] /\ f.dir \in Dirs /\ f.name \in Names
    BY <1>4, <2>1, <2>2 DEF OpenFile
  <2>4. QED BY <2>3
<1>5. CASE Create(t)
  <2>1. /\ pc[t] = "changing" /\ call[t].op \in OnPath /\ Leave(t)
        /\ UNCHANGED <<cached, exists, seen>> /\ Uncovers(Respelled(call[t].dir))
        /\ \E a \in Attrs \cup {Absent} : FileBecomes(call[t].dir, call[t].name, a)
        /\ call[t].dir \in Parents(call[t])
    BY <1>5 DEF Create, Doing, OnPath, Parents, Invalidating, CreatesDir
  <2>2. PICK b \in BOOLEAN : OpenFile(t, b)
    BY <1>5 DEF Create
  <2>3. QED
    BY <1>4, <2>1, <2>2, ServeFileKeeps
<1>6. CASE Open(t)
  <2>1. /\ pc[t] = "changing" /\ call[t].op \in OnPath /\ Leave(t)
        /\ UNCHANGED <<cached, exists, seen, uncovered, files>> /\ OpenFile(t, FALSE)
    BY <1>6 DEF Open, Doing, OnPath
  <2>2. QED
    BY <1>4, <2>1, ServeFileKeeps
<1>7. CASE Truncate(t)
  <2>1. /\ pc[t] = "changing" /\ call[t].op \in OnPath /\ Leave(t)
        /\ UNCHANGED <<cached, exists, seen>> /\ Uncovers(Spelled(call[t].dir))
        /\ \E a \in Attrs \cup {Absent} : FileBecomes(call[t].dir, call[t].name, a)
    BY <1>7 DEF Truncate, Doing, OnPath
  <2>2. PICK b \in BOOLEAN : OpenFile(t, b)
    BY <1>7 DEF Truncate
  <2>3. QED
    BY <1>4, <2>1, <2>2, ServeFileKeeps
<1>8. CASE SetAttr(t)
  <2>1. /\ pc[t] = "changing" /\ call[t].op \in OnPath /\ Leave(t)
        /\ UNCHANGED <<cached, exists, seen, file>>
        /\ \E a \in Attrs \cup {Absent} : FileBecomes(call[t].dir, call[t].name, a)
    BY <1>8 DEF SetAttr, Doing, OnPath
  <2>2. CASE call[t].op = "setattr"
    BY <1>8, <2>1, <2>2, ServeFileKeeps DEF SetAttr
  <2>3. CASE call[t].op = "setpath"
    <3>1. Uncovers(Respelled(call[t].dir))
      BY <1>8, <2>3 DEF SetAttr
    <3>2. call[t].dir \in Parents(call[t])
      BY <2>3 DEF Parents, Invalidating, CreatesDir
    <3>3. QED
      BY <2>1, <3>1, <3>2, ServeFileKeeps
  <2>4. QED BY <1>8, <2>2, <2>3 DEF SetAttr, Doing
<1>9. CASE Delete(t)
  <2>1. /\ pc[t] = "changing" /\ call[t].op \in OnPath /\ Leave(t)
        /\ UNCHANGED <<cached, exists, seen, file>> /\ Uncovers(Respelled(call[t].dir))
        /\ \E a \in Attrs \cup {Absent} : FileBecomes(call[t].dir, call[t].name, a)
        /\ call[t].dir \in Parents(call[t])
    BY <1>9 DEF Delete, Doing, OnPath, Parents, Invalidating, CreatesDir
  <2>2. QED
    BY <2>1, ServeFileKeeps
<1>10. CASE Write(t) \/ SetInfo(t)
  <2>1. /\ pc[t] = "changing" /\ call[t].op \in OnFile /\ Leave(t)
        /\ UNCHANGED <<cached, exists, seen>>
        /\ \/ uncovered' = uncovered /\ files' = files
           \/ /\ \E a \in Attrs \cup {Absent} : FileBecomes(call[t].dir, call[t].name, a)
              /\ call[t].dir \in Parents(call[t]) /\ Uncovers(Respelled(call[t].dir))
        /\ file' = [file EXCEPT ![t].dirty = TRUE]
    BY <1>10 DEF Write, SetInfo, Doing, OnFile, Parents, Invalidating, CreatesDir
  <2>2. file[t] # Closed
    BY <1>1, <2>1 DEF CallFits
  <2>3. PICK f \in FileType : f = [file[t] EXCEPT !.dirty = TRUE]
    BY <1>1 DEF FileType
  <2>4. f.dir \in Dirs /\ f.name \in Names /\ file' = [file EXCEPT ![t] = f]
    BY <1>1, <2>1, <2>2, <2>3 DEF FileFits, FileType
  <2>5. QED
    BY <2>1, <2>4, ServeFileKeeps
<1>11. CASE NewSize(t)
  <2>1. /\ pc[t] = "changing" /\ call[t].op \in OnFile /\ Leave(t)
        /\ UNCHANGED <<cached, exists, seen, file>> /\ Uncovers(Spelled(call[t].dir))
        /\ \E a \in Attrs \cup {Absent} : FileBecomes(call[t].dir, call[t].name, a)
    BY <1>11 DEF NewSize, Doing, OnFile
  <2>2. QED
    BY <2>1, ServeFileKeeps
<1>12. CASE Close(t)
  <2>1. /\ pc[t] = "changing" /\ call[t].op \in OnFile /\ Leave(t)
        /\ UNCHANGED <<cached, exists, seen>>
        /\ \/ UNCHANGED <<files, uncovered>>
           \/ /\ \E a \in Attrs \cup {Absent} : FileBecomes(call[t].dir, call[t].name, a)
              /\ Uncovers(Spelled(call[t].dir))
        /\ file' = [file EXCEPT ![t] = Closed]
    BY <1>12 DEF Close, Doing, OnFile
  <2>2. QED
    BY <1>2, <2>1, ServeFileKeeps
<1>13. CASE Move(t)
  <2>1. /\ pc[t] = "changing" /\ call[t].op = "move" /\ Leave(t)
        /\ UNCHANGED <<cached, exists, seen, file>>
        /\ Uncovers(Respelled(call[t].dir) \cup Respelled(call[t].to))
        /\ files' = [files EXCEPT
                       ![folder[call[t].to]][call[t].name]
                           = files[folder[call[t].dir]][call[t].name],
                       ![folder[call[t].dir]][call[t].name] = Absent]
    BY <1>13 DEF Move, Doing
  <2>2. /\ call[t].dir \in Dirs /\ call[t].name \in Names /\ call[t].to \in Dirs
        /\ folder[call[t].dir] \in Folders /\ folder[call[t].to] \in Folders
    BY <1>1, <2>1, RootAssumption DEF CallFits
  <2>3. /\ files' \in [Folders -> Contents]
        /\ \A c \in Folders : c # folder[call[t].dir] /\ c # folder[call[t].to]
                               => files'[c] = files[c]
    <3>1. ASSUME NEW d \in Folders, NEW e \in Folders, NEW n \in Names,
                 files' = [files EXCEPT ![e][n] = files[d][n], ![d][n] = Absent]
          PROVE  /\ files' \in [Folders -> Contents]
                 /\ \A c \in Folders : c # d /\ c # e => files'[c] = files[c]
      <4>1. files \in [Folders -> Contents] /\ files[d][n] \in Attrs \cup {Absent}
        BY <1>1 DEF OwnWritesTypeOK, Contents
      <4>2. PICK g \in [Folders -> Contents] :
               g = [files EXCEPT ![e] = [files[e] EXCEPT ![n] = files[d][n]]]
        <5>1. [files[e] EXCEPT ![n] = files[d][n]] \in Contents
          BY <4>1 DEF Contents
        <5>2. QED BY <4>1, <5>1
      <4>3. [g[d] EXCEPT ![n] = Absent] \in Contents
        BY <4>2 DEF Contents
      <4>4. files' = [g EXCEPT ![d] = [g[d] EXCEPT ![n] = Absent]]
        BY <3>1, <4>2
      <4>5. QED
        BY <4>1, <4>2, <4>3, <4>4
    <3>2. QED BY <2>1, <2>2, <3>1
  <2>4. Parents(call[t]) = {call[t].dir, call[t].to}
    BY <2>1 DEF Parents, Invalidating, CreatesDir
  <2>5. PICK D \in SUBSET Dirs : D = Respelled(call[t].dir) \cup Respelled(call[t].to)
    BY DEF Respelled
  <2>6. /\ uncovered' = uncovered \cup (D \cap Cached)
        /\ \A d \in Dirs : d \notin D /\ d \notin Parents(call[t]) => Listing(d)' = Listing(d)
    <3>1. ASSUME NEW d \in Dirs, d \notin D, d \notin Parents(call[t])
          PROVE  Listing(d)' = Listing(d)
      <4>1. folder[d] # folder[call[t].dir] /\ folder[d] # folder[call[t].to]
        BY <2>4, <2>5, <3>1 DEF Respelled, SameFolder
      <4>2. files'[folder[d]] = files[folder[d]]
        BY <2>3, <4>1, RootAssumption
      <4>3. QED
        BY <2>1, <4>2, SameListing
    <3>2. QED BY <2>1, <2>5, <3>1 DEF Uncovers
  <2>7. file' \in [Threads -> FileType] /\ FileFits(t)' /\ \A u \in Threads : file'[u] = file[u]
    BY <1>1, <2>1 DEF OwnWritesTypeOK, FileType, FileFits
  <2>8. QED
    <3>1. exists' = exists /\ exists' \in SUBSET Folders /\ folder[Root] \in exists'
      BY <1>1, <2>1 DEF OwnWritesTypeOK
    <3>2. \A d \in Dirs : d \notin D /\ d \notin Parents(call[t])
             => Listing(d)' = Listing(d) /\ (folder[d] \in exists => folder[d] \in exists')
      BY <2>6, <3>1
    <3>3. QED
      BY <2>1, <2>3, <2>6, <2>7, <3>1, <3>2, ServeKeeps
<1>14. CASE MakeDir(t) \/ RemoveDir(t) \/ MoveDir(t)
  <2>1. /\ pc[t] = "changing" /\ Leave(t) /\ UNCHANGED <<cached, seen, file>>
        /\ call[t].op \in CreatesDir \cup {"movedir"}
    BY <1>14 DEF MakeDir, RemoveDir, MoveDir, Doing, CreatesDir
  <2>2. /\ call[t].dir \in Dirs \ {Root} /\ folder[call[t].dir] \in Folders
        /\ folder[call[t].dir] # folder[Root]
    BY <1>1, <2>1, RootAssumption DEF CallFits
  <2>3. Parents(call[t]) = {Root}
    BY <2>1 DEF Parents, Invalidating, CreatesDir
  <2>4. file' \in [Threads -> FileType] /\ FileFits(t)' /\ \A u \in Threads : file'[u] = file[u]
    BY <1>1, <2>1 DEF OwnWritesTypeOK, FileType, FileFits
  <2>5. CASE MakeDir(t) \/ RemoveDir(t)
    <3>1. PICK D \in SUBSET Dirs :
             /\ uncovered' = uncovered \cup (D \cap Cached)
             /\ \A d \in Dirs : d \notin D /\ folder[d] \in exists => folder[d] \in exists'
      <4>1. CASE MakeDir(t)
        <5>1. uncovered' = uncovered \cup ({} \cap Cached) /\ {} \in SUBSET Dirs
          BY <4>1 DEF MakeDir
        <5>2. \A d \in Dirs : d \notin {} /\ folder[d] \in exists => folder[d] \in exists'
          BY <4>1 DEF MakeDir
        <5>3. QED BY <5>1, <5>2, Zenon
      <4>2. CASE RemoveDir(t)
        <5>1. /\ uncovered' = uncovered \cup (Spelled(call[t].dir) \cap Cached)
              /\ Spelled(call[t].dir) \in SUBSET Dirs
          BY <4>2 DEF RemoveDir, Uncovers, Spelled
        <5>2. \A d \in Dirs : d \notin Spelled(call[t].dir) /\ folder[d] \in exists
                 => folder[d] \in exists'
          BY <4>2 DEF RemoveDir, Spelled, SameFolder
        <5>3. QED BY <5>1, <5>2, Zenon
      <4>3. QED BY <2>5, <4>1, <4>2
    <3>2. files' = files /\ exists' \in SUBSET Folders /\ folder[Root] \in exists'
      BY <1>1, <2>2, <2>5 DEF MakeDir, RemoveDir, OwnWritesTypeOK
    <3>3. \A d \in Dirs : d # Root => Listing(d)' = Listing(d)
      BY <3>2, SameListing
    <3>4. files' \in [Folders -> Contents]
      BY <1>1, <3>2 DEF OwnWritesTypeOK
    <3>5. QED
      BY <2>1, <2>3, <2>4, <3>1, <3>2, <3>3, <3>4, ServeKeeps
  <2>6. CASE MoveDir(t)
    <3>1. /\ Uncovers(Spelled(call[t].dir) \cup Spelled(call[t].to))
          /\ exists' = (exists \ {folder[call[t].dir]}) \cup {folder[call[t].to]}
          /\ files' = [files EXCEPT ![folder[call[t].to]] = files[folder[call[t].dir]],
                                    ![folder[call[t].dir]] = Empty]
          /\ call[t].op = "movedir"
      BY <2>6 DEF MoveDir, Doing
    <3>2. /\ call[t].to \in Dirs \ {Root} /\ folder[call[t].to] \in Folders
          /\ folder[call[t].to] # folder[Root]
      BY <1>1, <2>1, <3>1, RootAssumption DEF CallFits
    <3>3. Empty \in Contents
      BY DEF Empty, Contents
    <3>4. /\ files' \in [Folders -> Contents]
          /\ \A c \in Folders : c # folder[call[t].dir] /\ c # folder[call[t].to]
                                 => files'[c] = files[c]
      BY <1>1, <2>2, <3>1, <3>2, <3>3 DEF OwnWritesTypeOK
    <3>5. exists' \in SUBSET Folders /\ folder[Root] \in exists'
      BY <1>1, <2>2, <3>1, <3>2 DEF OwnWritesTypeOK
    <3>6. PICK D \in SUBSET Dirs : D = Spelled(call[t].dir) \cup Spelled(call[t].to)
      BY DEF Spelled
    <3>7. ASSUME NEW d \in Dirs, d \notin D, d \notin {Root}
          PROVE  Listing(d)' = Listing(d) /\ (folder[d] \in exists => folder[d] \in exists')
      <4>1. folder[d] # folder[call[t].dir] /\ folder[d] # folder[call[t].to]
        BY <3>6, <3>7 DEF Spelled, SameFolder
      <4>2. files'[folder[d]] = files[folder[d]]
        BY <3>4, <4>1, RootAssumption
      <4>3. QED
        BY <3>1, <3>7, <4>1, <4>2, SameListing
    <3>8. uncovered' = uncovered \cup (D \cap Cached)
      BY <3>1, <3>6 DEF Uncovers
    <3>9. QED
      BY <2>1, <2>3, <2>4, <3>4, <3>5, <3>7, <3>8, ServeKeeps
  <2>7. QED BY <1>14, <2>5, <2>6
<1>15. QED
  BY <1>3, <1>5, <1>6, <1>7, <1>8, <1>9, <1>10, <1>11, <1>12, <1>13, <1>14 DEF Serve

-------------------------------------------------------------------------------
(* Listings leave the cache and enter it.                                  *)

LEMMA DropsKeeps ==
    ASSUME HandlersInv, NEW D, Drops(D)
    PROVE  /\ cached' \in [Dirs -> AllListings \cup {None}]
           /\ Cached' = Cached \ D
           /\ \A d \in Cached' : cached'[d] = cached[d]
           /\ uncovered' \in SUBSET Cached' /\ uncovered' = uncovered \ D
           /\ IsFiniteSet(Cached') /\ Cardinality(Cached') \in Nat
           /\ Cardinality(Cached') <= Cardinality(Cached) /\ Cardinality(Cached) \in Nat
<1>1. OwnWritesTypeOK /\ IsFiniteSet(Cached)
  BY DEF HandlersInv
<1>2. cached' = [d \in Dirs |-> IF d \in D THEN None ELSE cached[d]]
  BY DEF Drops, Forget
<1>3. /\ cached' \in [Dirs -> AllListings \cup {None}]
      /\ Cached' = Cached \ D
      /\ \A d \in Cached' : cached'[d] = cached[d]
  BY <1>1, <1>2 DEF OwnWritesTypeOK, Cached
<1>4. uncovered' = uncovered \ D /\ uncovered' \in SUBSET Cached'
  BY <1>1, <1>3 DEF OwnWritesTypeOK, Drops
<1>5. IsFiniteSet(Cached') /\ Cardinality(Cached') <= Cardinality(Cached)
  BY <1>1, <1>3, FS_Subset
<1>6. Cardinality(Cached') \in Nat /\ Cardinality(Cached) \in Nat
  BY <1>1, <1>5, FS_CardinalityType
<1>7. QED BY <1>3, <1>4, <1>5, <1>6

LEMMA ExpireKeeps ==
    ASSUME HandlersInv, Expire
    PROVE  HandlersInv'
<1>1. PICK d \in Cached : Drops({d})
  BY DEF Expire
<1>2. /\ OwnWritesTypeOK /\ UNCHANGED <<files, exists, pc, call, seen, file>>
  BY DEF HandlersInv, Expire
<1>3. OwnWritesTypeOK'
  BY <1>1, <1>2, DropsKeeps DEF OwnWritesTypeOK
<1>4. \A t \in Threads : CallFits(t)' /\ FileFits(t)'
  BY <1>2 DEF HandlersInv, CallFits, FileFits
<1>5. IsFiniteSet(Cached')
  BY <1>1, DropsKeeps
<1>6. ASSUME Serialized PROVE OneHandler' /\ Coherent' /\ Dropped' /\ Reading'
  <2>1. OneHandler /\ Coherent /\ Dropped /\ Reading
    BY <1>6 DEF HandlersInv
  <2>2. /\ Cached' \subseteq Cached /\ \A c \in Cached' : cached'[c] = cached[c]
        /\ uncovered' = uncovered \ {d} /\ d \notin Cached'
        /\ Cardinality(Cached') \in Nat /\ Cardinality(Cached) \in Nat
        /\ Cardinality(Cached') <= Cardinality(Cached)
    BY <1>1, DropsKeeps
  <2>3. OneHandler' /\ Dropped'
    BY <1>2, <2>1, <2>2 DEF OneHandler, Dropped
  <2>4. Coherent'
    BY <1>2, <2>1, <2>2 DEF Coherent, UpToDate, Listing
  <2>5. \A c \in Dirs : cached[c] = None => cached'[c] = None
    BY <1>1 DEF Drops, Forget
  <2>6. Reading'
    BY <1>2, <2>1, <2>2, <2>5, OwnWritesCapacity DEF Reading, Listing, HandlersInv, CallFits
  <2>7. QED BY <2>3, <2>4, <2>6
<1>7. QED BY <1>3, <1>4, <1>5, <1>6 DEF HandlersInv

\* ENTER and dircache_invalidate.
LEMMA EnterKeeps ==
    ASSUME HandlersInv, NEW t \in Threads, NEW r \in Calls, Enter(t, r),
           r.op \in OnPath \cup OnFile \cup {"move"} => r.dir \in Dirs /\ r.name \in Names,
           r.op \in OnFile => file[t] # Closed,
           r.op = "move" => r.to \in Dirs,
           r.op \in CreatesDir \cup {"movedir"} => r.dir \in Dirs \ {Root},
           r.op = "movedir" => r.to \in Dirs \ {Root}
    PROVE  HandlersInv'
<1>1. /\ OwnWritesTypeOK /\ Drops(Parents(r)) /\ MayEnter(t)
      /\ UNCHANGED <<files, exists, seen, file>>
      /\ pc' = [pc EXCEPT ![t] = "changing"] /\ call' = [call EXCEPT ![t] = r]
  BY DEF HandlersInv, Enter
<1>2. /\ pc'[t] = "changing" /\ call'[t] = r
      /\ \A u \in Threads \ {t} : pc'[u] = pc[u] /\ call'[u] = call[u]
  BY <1>1 DEF OwnWritesTypeOK
<1>3. OwnWritesTypeOK'
  BY <1>1, DropsKeeps DEF OwnWritesTypeOK
<1>4. \A u \in Threads : CallFits(u)' /\ FileFits(u)'
  <2>1. CallFits(t)' /\ FileFits(t)'
    BY <1>1, <1>2 DEF CallFits, HandlersInv, FileFits
  <2>2. ASSUME NEW u \in Threads \ {t} PROVE CallFits(u)' /\ FileFits(u)'
    BY <1>1, <1>2, <2>2 DEF HandlersInv, CallFits, FileFits
  <2>3. QED BY <2>1, <2>2
<1>5. IsFiniteSet(Cached')
  BY <1>1, DropsKeeps
<1>6. ASSUME Serialized PROVE OneHandler' /\ Coherent' /\ Dropped' /\ Reading'
  <2>1. \A u \in Threads : pc[u] = "idle"
    BY <1>1, <1>6 DEF MayEnter
  <2>2. \A u \in Threads : pc'[u] # "idle" => u = t
    BY <1>2, <2>1
  <2>3. /\ Cached' = Cached \ Parents(r) /\ \A c \in Cached' : cached'[c] = cached[c]
        /\ uncovered' = uncovered \ Parents(r)
    BY <1>1, DropsKeeps
  <2>4. Coherent'
    BY <1>1, <1>6, <2>3 DEF HandlersInv, Coherent, UpToDate, Listing
  <2>5. Parents(r)' = Parents(r)
    BY DEF Parents
  <2>6. OneHandler' /\ Dropped' /\ Reading'
    BY <1>2, <2>2, <2>3 DEF OneHandler, Dropped, Reading
  <2>7. QED BY <2>4, <2>6
<1>7. QED BY <1>3, <1>4, <1>5, <1>6 DEF HandlersInv

LEMMA RequestNext ==
    ASSUME HandlersInv, NEW t \in Threads, Request(t)
    PROVE  HandlersInv'
<1> USE DEF OnPath, OnFile, CreatesDir
<1>1. CASE RequestPath(t)
  <2>1. PICK o \in OnPath, d \in Dirs, n \in Names :
           Enter(t, [op |-> o, dir |-> d, name |-> n, to |-> NULL])
    BY <1>1 DEF RequestPath
  <2>2. [op |-> o, dir |-> d, name |-> n, to |-> NULL] \in Calls
    BY DEF Calls, AllOps, Invalidating
  <2>3. QED
    BY <2>1, <2>2, EnterKeeps
<1>2. CASE RequestMove(t)
  <2>1. PICK d \in Dirs, e \in Dirs, n \in Names :
           Enter(t, [op |-> "move", dir |-> d, name |-> n, to |-> e])
    BY <1>2 DEF RequestMove
  <2>2. [op |-> "move", dir |-> d, name |-> n, to |-> e] \in Calls
    BY DEF Calls, AllOps, Invalidating
  <2>3. QED
    BY <2>1, <2>2, EnterKeeps
<1>3. CASE RequestDir(t)
  <2>1. CASE \E o \in CreatesDir, d \in Dirs \ {Root} :
                Enter(t, [op |-> o, dir |-> d, name |-> NULL, to |-> NULL])
    <3>1. PICK o \in CreatesDir, d \in Dirs \ {Root} :
             Enter(t, [op |-> o, dir |-> d, name |-> NULL, to |-> NULL])
      BY <2>1
    <3>2. [op |-> o, dir |-> d, name |-> NULL, to |-> NULL] \in Calls
      BY DEF Calls, AllOps, Invalidating
    <3>3. QED
      BY <3>1, <3>2, EnterKeeps
  <2>2. CASE \E d, e \in Dirs \ {Root} :
                ~SameFolder(d, e)
                /\ Enter(t, [op |-> "movedir", dir |-> d, name |-> NULL, to |-> e])
    <3>1. PICK d \in Dirs \ {Root}, e \in Dirs \ {Root} :
             Enter(t, [op |-> "movedir", dir |-> d, name |-> NULL, to |-> e])
      BY <2>2
    <3>2. [op |-> "movedir", dir |-> d, name |-> NULL, to |-> e] \in Calls
      BY DEF Calls, AllOps, Invalidating
    <3>3. QED
      BY <3>1, <3>2, EnterKeeps
  <2>3. QED BY <1>3, <2>1, <2>2 DEF RequestDir
<1>4. CASE RequestFile(t)
  <2>1. PICK o \in OnFile :
           Enter(t, [op |-> o, dir |-> file[t].dir, name |-> file[t].name, to |-> NULL])
    BY <1>4 DEF RequestFile
  <2>2. file[t] # Closed /\ file[t].dir \in Dirs /\ file[t].name \in Names
    BY <1>4 DEF RequestFile, HandlersInv, FileFits
  <2>3. [op |-> o, dir |-> file[t].dir, name |-> file[t].name, to |-> NULL] \in Calls
    BY <2>2 DEF Calls, AllOps, Invalidating
  <2>4. QED
    BY <2>1, <2>2, <2>3, EnterKeeps
<1>5. QED BY <1>1, <1>2, <1>3, <1>4 DEF Request

LEMMA ListReadKeeps ==
    ASSUME HandlersInv, NEW t \in Threads, ListRead(t)
    PROVE  HandlersInv'
<1>1. PICK d \in Dirs, D \in SUBSET Dirs :
         /\ MayEnter(t) /\ folder[d] \in exists /\ cached[d] = None /\ Cardinality(Cached \ D) < Capacity
         /\ Drops(D)
         /\ pc' = [pc EXCEPT ![t] = "listing"]
         /\ call' = [call EXCEPT ![t] = [NoCall EXCEPT !.op = "list", !.dir = d]]
         /\ seen' = [seen EXCEPT ![t] = Listing(d)]
         /\ UNCHANGED <<files, exists, file>>
  BY DEF ListRead
<1>2. OwnWritesTypeOK /\ d \in Dirs
  BY DEF HandlersInv, OwnWritesTypeOK
<1>3. Listing(d) \in AllListings
  BY <1>2, RootAssumption DEF Listing, AllListings, OwnWritesTypeOK
<1>4. PICK r \in Calls : r = [NoCall EXCEPT !.op = "list", !.dir = d] /\ r.dir = d
  <2> DEFINE blank == [NoCall EXCEPT !.op = "list"]
             asked == [blank EXCEPT !.dir = d]
  <2>1. blank \in Calls
    BY DEF NoCall, Calls, AllOps
  <2>2. asked \in Calls /\ asked.dir = d
    <3> HIDE DEF blank
    <3>1. QED BY <1>2, <2>1 DEF Calls
  <2>3. asked = [NoCall EXCEPT !.op = "list", !.dir = d]
    OBVIOUS
  <2> HIDE DEF asked, blank
  <2>4. QED BY <2>2, <2>3
<1>5. /\ pc'[t] = "listing" /\ call'[t] = r /\ seen'[t] = Listing(d)
      /\ \A u \in Threads \ {t} : /\ pc'[u] = pc[u] /\ call'[u] = call[u]
                                  /\ seen'[u] = seen[u]
  BY <1>1, <1>2, <1>4 DEF OwnWritesTypeOK
<1>6. OwnWritesTypeOK'
  BY <1>1, <1>2, <1>3, <1>4, DropsKeeps DEF OwnWritesTypeOK
<1>7. \A u \in Threads : CallFits(u)' /\ FileFits(u)'
  <2>1. CallFits(t)' /\ FileFits(t)'
    BY <1>1, <1>2, <1>3, <1>4, <1>5 DEF CallFits, HandlersInv, FileFits
  <2>2. ASSUME NEW u \in Threads \ {t} PROVE CallFits(u)' /\ FileFits(u)'
    BY <1>1, <1>5, <2>2 DEF HandlersInv, CallFits, FileFits
  <2>3. QED BY <2>1, <2>2
<1>8. IsFiniteSet(Cached')
  BY <1>1, DropsKeeps
<1>9. ASSUME Serialized PROVE OneHandler' /\ Coherent' /\ Dropped' /\ Reading'
  <2>1. \A u \in Threads : pc[u] = "idle"
    BY <1>1, <1>9 DEF MayEnter
  <2>2. \A u \in Threads : pc'[u] # "idle" => u = t
    BY <1>5, <2>1
  <2>3. /\ Cached' = Cached \ D /\ \A c \in Cached' : cached'[c] = cached[c]
        /\ uncovered' = uncovered \ D
    BY <1>1, DropsKeeps
  <2>4. Coherent'
    BY <1>1, <1>9, <2>3 DEF HandlersInv, Coherent, UpToDate, Listing
  <2>5. cached'[d] = None
    BY <1>1, <1>2 DEF Drops, Forget
  <2>6. Listing(d)' = Listing(d) /\ folder[d] \in exists' /\ Cardinality(Cached') < Capacity
    BY <1>1, <2>3 DEF Listing
  <2>7. Reading'
    <3>1. SUFFICES ASSUME NEW u \in Threads, pc'[u] = "listing"
                   PROVE  /\ folder[call'[u].dir] \in exists' /\ seen'[u] = Listing(call[u].dir)'
                          /\ cached'[call'[u].dir] = None
                          /\ Cardinality(Cached') < Capacity
      BY DEF Reading
    <3>2. u = t
      BY <2>2, <3>1
    <3>3. call'[u].dir = d /\ seen'[u] = Listing(d)
      BY <1>4, <1>5, <3>2
    <3>4. QED BY <2>5, <2>6, <3>3
  <2>8. OneHandler' /\ Dropped'
    BY <1>5, <2>2 DEF OneHandler, Dropped
  <2>9. QED BY <2>4, <2>7, <2>8
<1>10. QED BY <1>6, <1>7, <1>8, <1>9 DEF HandlersInv

LEMMA ListInsertKeeps ==
    ASSUME HandlersInv, NEW t \in Threads, ListInsert(t)
    PROVE  HandlersInv'
<1> DEFINE d == call[t].dir
<1>1. /\ pc[t] = "listing"
      /\ cached' = [cached EXCEPT ![d] = seen[t]]
      /\ uncovered' = uncovered \ {d}
      /\ seen' = [seen EXCEPT ![t] = NULL]
      /\ pc' = [pc EXCEPT ![t] = "idle"] /\ call' = [call EXCEPT ![t] = NoCall]
      /\ UNCHANGED <<files, exists, file>>
  BY DEF ListInsert, Leave
<1>2. OwnWritesTypeOK /\ d \in Dirs /\ seen[t] \in AllListings /\ seen[t] # None
  BY <1>1, NoneAssumption, OwnWritesListings DEF HandlersInv, CallFits
<1>3. /\ Cached' = Cached \cup {d} /\ cached'[d] = seen[t]
      /\ \A c \in Cached' : c # d => c \in Cached /\ cached'[c] = cached[c]
  BY <1>1, <1>2 DEF Cached, OwnWritesTypeOK
<1> HIDE DEF d
<1>4. /\ pc'[t] = "idle"
      /\ \A u \in Threads \ {t} : /\ pc'[u] = pc[u] /\ call'[u] = call[u]
                                  /\ seen'[u] = seen[u]
  BY <1>1, <1>2 DEF OwnWritesTypeOK
<1>5. OwnWritesTypeOK'
  <2>1. NoCall \in Calls
    BY DEF NoCall, Calls
  <2>2. uncovered' \in SUBSET Cached'
    BY <1>1, <1>2, <1>3 DEF OwnWritesTypeOK
  <2>3. QED
    BY <1>1, <1>2, <2>1, <2>2 DEF OwnWritesTypeOK
<1>6. \A u \in Threads : CallFits(u)' /\ FileFits(u)'
  <2>1. CallFits(t)' /\ FileFits(t)'
    BY <1>1, <1>4 DEF CallFits, HandlersInv, FileFits
  <2>2. ASSUME NEW u \in Threads \ {t} PROVE CallFits(u)' /\ FileFits(u)'
    BY <1>1, <1>4, <2>2 DEF HandlersInv, CallFits, FileFits
  <2>3. QED BY <2>1, <2>2
<1>7. IsFiniteSet(Cached')
  BY <1>3, FS_AddElement DEF HandlersInv
<1>8. ASSUME Serialized PROVE OneHandler' /\ Coherent' /\ Dropped' /\ Reading'
  <2>1. OneHandler /\ Coherent /\ Reading
    BY <1>8 DEF HandlersInv
  <2>2. \A u \in Threads : pc'[u] = "idle"
    BY <1>1, <1>4, <2>1 DEF OneHandler
  <2>3. folder[d] \in exists /\ seen[t] = Listing(d)
    BY <1>1, <2>1 DEF Reading, d
  <2>4. \A c \in Dirs : Listing(c)' = Listing(c)
    BY <1>1 DEF Listing
  <2>5. ASSUME NEW c \in Cached' \ uncovered' PROVE UpToDate(c)'
    <3>1. c \in Dirs /\ Listing(c)' = Listing(c) /\ exists' = exists
      BY <1>1, <2>4 DEF Cached
    <3>2. CASE c = d
      BY <1>3, <2>3, <3>1, <3>2 DEF UpToDate
    <3>3. CASE c # d
      BY <1>1, <1>3, <2>1, <2>5, <3>1, <3>3 DEF UpToDate, Coherent
    <3>4. QED BY <3>2, <3>3
  <2>6. Coherent'
    BY <2>5 DEF Coherent
  <2>7. QED
    BY <2>2, <2>6 DEF OneHandler, Dropped, Reading
<1>9. QED BY <1>5, <1>6, <1>7, <1>8 DEF HandlersInv

-------------------------------------------------------------------------------
(* The theorems.                                                           *)

LEMMA HandlersInit == Init => HandlersInv
<1> SUFFICES ASSUME Init PROVE HandlersInv
  OBVIOUS
<1>1. Cached = {}
  BY DEF Init, CacheInit, Cached
<1>2. Empty \in Contents /\ NoCall \in Calls /\ Closed \in FileType
  BY DEF Empty, Contents, NoCall, Calls, Closed, FileType
<1>3. OwnWritesTypeOK
  BY <1>1, <1>2, RootAssumption DEF Init, CacheInit, OwnWritesTypeOK, FileType
<1>4. \A t \in Threads : CallFits(t) /\ FileFits(t)
  BY DEF Init, CallFits, FileFits
<1>5. IsFiniteSet(Cached)
  BY <1>1, FS_EmptySet
<1>6. OneHandler /\ Coherent /\ Dropped /\ Reading
  BY <1>1 DEF Init, OneHandler, Coherent, Dropped, Reading
<1>7. QED BY <1>3, <1>4, <1>5, <1>6 DEF HandlersInv

LEMMA HandlersSame == HandlersInv /\ UNCHANGED vars => HandlersInv'
<1> SUFFICES ASSUME HandlersInv, UNCHANGED vars PROVE HandlersInv'
  OBVIOUS
<1>1. /\ UNCHANGED <<cached, files, exists, pc, call, seen, file, uncovered>>
      /\ Cached' = Cached
  BY DEF vars, Cached
<1>2. OwnWritesTypeOK' /\ IsFiniteSet(Cached')
  BY <1>1 DEF HandlersInv, OwnWritesTypeOK
<1>3. \A t \in Threads : CallFits(t)' /\ FileFits(t)'
  BY <1>1 DEF HandlersInv, CallFits, FileFits
<1>4. Serialized => OneHandler' /\ Coherent' /\ Dropped' /\ Reading'
  BY <1>1 DEF HandlersInv, OneHandler, Coherent, UpToDate, Dropped, Reading, Listing
<1>5. QED BY <1>2, <1>3, <1>4 DEF HandlersInv

LEMMA HandlersNext == HandlersInv /\ [Next]_vars => HandlersInv'
BY ServeNext, RequestNext, ListReadKeeps, ListInsertKeeps, ExpireKeeps, HandlersSame DEF Next

LEMMA HandlersHold == Spec => []HandlersInv
BY HandlersInit, HandlersNext, PTL DEF Spec

\* The handlers of ndpsmb.c and the listing between them: a cached listing that
\* differs from the server is one that some handler left uncovered.
THEOREM CoherenceHolds == Spec => []CoherentButUncovered
<1>1. HandlersInv => CoherentButUncovered
  BY DEF HandlersInv, Coherent, CoherentButUncovered
<1>2. QED BY <1>1, HandlersHold, PTL

\* dircache_invalidate, expiry and the listing: with the mutex around whole
\* handlers they use the cache in the ways that ListingCache allows.
THEOREM UsesCacheAsPromised ==
    ASSUME Serialized = TRUE
    PROVE  Spec => UsesListingCache
<1>1. Init => CacheInit
  BY DEF Init
<1>2. HandlersInv /\ [Next]_vars => [CacheNext]_cached
  <2> SUFFICES ASSUME HandlersInv, [Next]_vars PROVE [CacheNext]_cached
    OBVIOUS
  <2>1. ASSUME NEW D, Forget(D) PROVE CacheNext
    <3>1. Forget(D \cap Dirs)
      BY <2>1 DEF Forget
    <3>2. D \cap Dirs \in SUBSET Dirs
      OBVIOUS
    <3>3. QED BY <3>1, <3>2 DEF CacheNext
  <2>2. ASSUME NEW t \in Threads, NEW r, Enter(t, r) PROVE CacheNext
    BY <2>1, <2>2 DEF Enter, Drops
  <2>3. ASSUME NEW t \in Threads, Request(t) PROVE CacheNext
    BY <2>2, <2>3 DEF Request, RequestPath, RequestMove, RequestDir, RequestFile
  <2>4. ASSUME NEW t \in Threads, Serve(t) PROVE cached' = cached
    BY <2>4 DEF Serve, Refuse, Create, Open, Truncate, SetAttr, Delete, Move, MakeDir,
                RemoveDir, MoveDir, Write, SetInfo, NewSize, Close
  <2>5. ASSUME NEW t \in Threads, ListRead(t) PROVE CacheNext
    BY <2>1, <2>5 DEF ListRead, Drops
  <2>6. ASSUME NEW t \in Threads, ListInsert(t) PROVE CacheNext
    <3>1. /\ pc[t] = "listing" /\ call[t].dir \in Dirs /\ seen[t] \in Listings
          /\ cached' = [cached EXCEPT ![call[t].dir] = seen[t]]
      BY <2>6, OwnWritesListings DEF ListInsert, HandlersInv, CallFits
    <3>2. cached[call[t].dir] = None /\ Cardinality(Cached) < Capacity
      BY <3>1 DEF HandlersInv, Reading
    <3>3. QED
      BY <3>1, <3>2 DEF CacheNext, Insert
  <2>7. CASE Expire
    BY <2>1, <2>7 DEF Expire, Drops
  <2>8. QED
    BY <2>3, <2>4, <2>5, <2>6, <2>7 DEF Next, vars
<1>3. QED
  BY <1>1, <1>2, HandlersHold, PTL DEF Spec, UsesListingCache, CacheSpec

===============================================================================
