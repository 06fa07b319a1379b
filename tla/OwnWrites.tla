------------------------------ MODULE OwnWrites ------------------------------
(***************************************************************************)
(* Does a user of the mounted resource see his own changes?  The handlers  *)
(* of ndpsmb.c that change files and directories, the directory cache they *)
(* are meant to keep coherent (ListingCache, which DirCache implements),   *)
(* and the directories on the server.  A handler is two steps: it takes    *)
(* the mutex and invalidates, then the server does the change or refuses   *)
(* it.  Nobody else changes the server here: what other clients do is      *)
(* bounded by the cache timeout only.                                      *)
(*                                                                         *)
(* A path names the same directory of the server however it is spelled,    *)
(* but the cache finds a listing only by the spelling it was read under:   *)
(* dcFindDirCache asks for an equal hash of the spelling before it compares*)
(* without case.  Dirs are therefore paths as spelled, the keys of the     *)
(* cache, and folder says what each of them names on the server.           *)
(***************************************************************************)
EXTENDS ListingCache

CONSTANTS
    Threads,        \* threads of the NDFS host
    Folders,        \* directories of the server
    folder,         \* the directory that a path names
    Root,           \* the path of the directory that holds the other ones
    Names,          \* file names
    Attrs,          \* attributes, size and times of a file, as one value
    NULL,
    Absent,         \* no such file
    Handlers,       \* the handlers the host calls
    Serialized      \* TRUE: one handler at a time (plugin mutex)

\* The path of a share's root is empty: it has one spelling.
ASSUME RootAssumption == /\ Root \in Dirs
                         /\ folder \in [Dirs -> Folders]
                         /\ \A d \in Dirs \ {Root} : folder[d] # folder[Root]
ASSUME OwnWritesSwitches == Serialized \in BOOLEAN

VARIABLES
    files,      \* the server: the files of every directory
    exists,     \* the server: its directories
    pc,         \* where each thread is in its handler
    call,       \* the handler's name and arguments
    seen,       \* what a thread that lists has read from the server
    file,       \* the open file of a thread's connection
    uncovered   \* ghost: cached listings of directories that a handler changed,
                \* renamed or removed which does not invalidate them, or which
                \* was given another spelling of the directory

vars == <<cached, files, exists, pc, call, seen, file, uncovered>>

-------------------------------------------------------------------------------
(* The server.                                                             *)

Contents == [Names -> Attrs \cup {Absent}]

\* What the server says of a directory: its files, and for Root its
\* subdirectories.
Listing(d) == [files |-> files[folder[d]], dirs |-> IF d = Root THEN exists ELSE {}]

AllListings == [files : Contents, dirs : SUBSET Folders]

ASSUME OwnWritesListings == Listings = AllListings
ASSUME OwnWritesCapacity == Capacity \in Nat

Empty == [n \in Names |-> Absent]

IsFile(d, n) == folder[d] \in exists /\ files[folder[d]][n] # Absent

SameFolder(c, d) == folder[c] = folder[d]

Closed == [dir |-> NULL, name |-> NULL, dirty |-> FALSE]

Opened(d, n) == \E t \in Threads : /\ file[t] # Closed
                                  /\ SameFolder(file[t].dir, d) /\ file[t].name = n

-------------------------------------------------------------------------------
(* Requests.                                                               *)

NoCall == [op |-> "none", dir |-> NULL, name |-> NULL, to |-> NULL]

\* Handlers on a path that invalidate its parent directory first.
CreatesDir == {"mkdir", "rmdir"}
Invalidating == {"create", "delete", "setpath", "move", "movedir", "write", "setinfo"}
                \cup CreatesDir

\* Handlers on the open file.
OnFile == {"write", "newsize", "setinfo", "close"}

\* SetFileAttribute, OpenReplace (O_TRUNC) and FileNewSize change the file and
\* FileClose may do so too; none of them invalidates anything.
AllOps == Invalidating \cup OnFile \cup {"open", "truncate", "setattr", "list"}

Calls == [op : AllOps \cup {"none"}, dir : Dirs \cup {NULL},
          name : Names \cup {NULL}, to : Dirs \cup {NULL}]

\* The directories whose listings the request shows to be stale: the parents
\* of the paths it names.  A directory is named with its own path, so that
\* of its listing is not among them.
Parents(r) ==
    CASE r.op \notin Invalidating -> {}
      [] r.op \in CreatesDir \cup {"movedir"} -> {Root}
      [] r.op = "move" -> {r.dir, r.to}
      [] OTHER -> {r.dir}

Init == /\ CacheInit
        /\ files = [f \in Folders |-> Empty]
        /\ exists = {folder[Root]}
        /\ pc = [t \in Threads |-> "idle"]
        /\ call = [t \in Threads |-> NoCall]
        /\ seen = [t \in Threads |-> NULL]
        /\ file = [t \in Threads |-> Closed]
        /\ uncovered = {}

\* ENTER.
MayEnter(t) == /\ pc[t] = "idle"
               /\ Serialized => \A u \in Threads : pc[u] = "idle"

\* Listings leave the cache: those under the spellings in D, and no others.
Drops(D) == Forget(D) /\ uncovered' = uncovered \ D

\* Mutant: NdpMove forgets the directory it moves to.
EnterMoveHalf(t, r) ==
    /\ MayEnter(t)
    /\ r.op \in Handlers
    /\ Drops(Parents(r) \ {r.to})
    /\ pc' = [pc EXCEPT ![t] = "changing"]
    /\ call' = [call EXCEPT ![t] = r]
    /\ UNCHANGED <<files, exists, seen, file>>

Enter(t, r) ==
    /\ MayEnter(t)
    /\ r.op \in Handlers
    /\ Drops(Parents(r))
    /\ pc' = [pc EXCEPT ![t] = "changing"]
    /\ call' = [call EXCEPT ![t] = r]
    /\ UNCHANGED <<files, exists, seen, file>>

\* Requests that name a file, whether or not one is open on the connection.
RequestPath(t) ==
    \E o \in {"create", "delete", "setpath", "setattr", "open", "truncate"},
       d \in Dirs, n \in Names :
       Enter(t, [op |-> o, dir |-> d, name |-> n, to |-> NULL])

RequestMove(t) ==
    \E d, e \in Dirs, n \in Names :
       /\ ~SameFolder(d, e)
       /\ Enter(t, [op |-> "move", dir |-> d, name |-> n, to |-> e])

RequestDir(t) ==
    \/ \E o \in CreatesDir, d \in Dirs \ {Root} :
          Enter(t, [op |-> o, dir |-> d, name |-> NULL, to |-> NULL])
    \/ \E d, e \in Dirs \ {Root} :
          /\ ~SameFolder(d, e)
          /\ Enter(t, [op |-> "movedir", dir |-> d, name |-> NULL, to |-> e])

RequestFile(t) ==
    /\ file[t] # Closed
    /\ \E o \in OnFile :
          Enter(t, [op |-> o, dir |-> file[t].dir, name |-> file[t].name, to |-> NULL])

-------------------------------------------------------------------------------
(* The server's part.                                                      *)

Doing(t, ops) == pc[t] = "changing" /\ call[t].op \in ops

Leave(t) == /\ pc' = [pc EXCEPT ![t] = "idle"]
            /\ call' = [call EXCEPT ![t] = NoCall]

FileBecomes(d, n, a) == files' = [files EXCEPT ![folder[d]][n] = a]

\* The listings of a directory, under its other spellings or under all.
Respelled(d) == {c \in Dirs \ {d} : SameFolder(c, d)}
Spelled(d) == {c \in Dirs : SameFolder(c, d)}

\* Listings whose directory was changed without a call of dircache_invalidate
\* that finds them.
Uncovers(D) == uncovered' = uncovered \cup (D \cap Cached)

OpenFile(t, b) == file' = [file EXCEPT ![t] = [dir |-> call[t].dir, name |-> call[t].name,
                                               dirty |-> b]]

\* The server refuses: sharing violation, no such file, no access, no network;
\* or the plugin: smbopen over an open file, which is too late for its
\* invalidation.  (Over handle 0 it goes on: the opens below cover that.)
Refuse(t) ==
    /\ pc[t] = "changing"
    /\ call[t].op # "close"
    /\ Leave(t)
    /\ UNCHANGED <<cached, files, exists, seen, file, uncovered>>

\* smbopen with O_CREAT | O_EXCL.  The attributes asked for are set again
\* when the file is closed.
Create(t) ==
    /\ Doing(t, {"create"})
    /\ folder[call[t].dir] \in exists /\ ~IsFile(call[t].dir, call[t].name)
    /\ \E a \in Attrs : FileBecomes(call[t].dir, call[t].name, a)
    /\ \E b \in BOOLEAN : OpenFile(t, b)
    /\ Uncovers(Respelled(call[t].dir))
    /\ Leave(t)
    /\ UNCHANGED <<cached, exists, seen>>

Open(t) ==
    /\ Doing(t, {"open"})
    /\ IsFile(call[t].dir, call[t].name)
    /\ OpenFile(t, FALSE)
    /\ Leave(t)
    /\ UNCHANGED <<cached, files, exists, seen, uncovered>>

\* smbopen with O_TRUNC.
Truncate(t) ==
    /\ Doing(t, {"truncate"})
    /\ IsFile(call[t].dir, call[t].name)
    /\ \E a \in Attrs : FileBecomes(call[t].dir, call[t].name, a)
    /\ \E b \in BOOLEAN : OpenFile(t, b)
    /\ Uncovers(Spelled(call[t].dir))
    /\ Leave(t)
    /\ UNCHANGED <<cached, exists, seen>>

\* SetPathInfo and SetFileAttribute.
SetAttr(t) ==
    /\ Doing(t, {"setpath", "setattr"})
    /\ IsFile(call[t].dir, call[t].name)
    /\ \E a \in Attrs : FileBecomes(call[t].dir, call[t].name, a)
    /\ Uncovers(IF call[t].op = "setattr" THEN Spelled(call[t].dir)
                ELSE Respelled(call[t].dir))
    /\ Leave(t)
    /\ UNCHANGED <<cached, exists, seen, file>>

Delete(t) ==
    /\ Doing(t, {"delete"})
    /\ IsFile(call[t].dir, call[t].name)
    /\ ~Opened(call[t].dir, call[t].name)
    /\ FileBecomes(call[t].dir, call[t].name, Absent)
    /\ Uncovers(Respelled(call[t].dir))
    /\ Leave(t)
    /\ UNCHANGED <<cached, exists, seen, file>>

Move(t) ==
    LET d == call[t].dir  n == call[t].name  e == call[t].to
    IN  /\ Doing(t, {"move"})
        /\ IsFile(d, n) /\ ~Opened(d, n)
        /\ folder[e] \in exists /\ ~IsFile(e, n)
        /\ files' = [files EXCEPT ![folder[e]][n] = files[folder[d]][n],
                                  ![folder[d]][n] = Absent]
        /\ Uncovers(Respelled(d) \cup Respelled(e))
        /\ Leave(t)
        /\ UNCHANGED <<cached, exists, seen, file>>

MakeDir(t) ==
    /\ Doing(t, {"mkdir"})
    /\ folder[call[t].dir] \notin exists
    /\ exists' = exists \cup {folder[call[t].dir]}
    /\ Leave(t)
    /\ UNCHANGED <<cached, files, seen, file, uncovered>>

RemoveDir(t) ==
    /\ Doing(t, {"rmdir"})
    /\ folder[call[t].dir] \in exists
    /\ files[folder[call[t].dir]] = Empty
    /\ exists' = exists \ {folder[call[t].dir]}
    /\ Uncovers(Spelled(call[t].dir))
    /\ Leave(t)
    /\ UNCHANGED <<cached, files, seen, file>>

MoveDir(t) ==
    LET d == call[t].dir  e == call[t].to
    IN  /\ Doing(t, {"movedir"})
        /\ folder[d] \in exists /\ folder[e] \notin exists
        /\ \A n \in Names : ~Opened(d, n)
        /\ exists' = (exists \ {folder[d]}) \cup {folder[e]}
        /\ files' = [files EXCEPT ![folder[e]] = files[folder[d]], ![folder[d]] = Empty]
        /\ Uncovers(Spelled(d) \cup Spelled(e))
        /\ Leave(t)
        /\ UNCHANGED <<cached, seen, file>>

\* FileWrite: the time stamp follows when the file is closed.
Write(t) ==
    /\ Doing(t, {"write"})
    /\ \E a \in Attrs : FileBecomes(call[t].dir, call[t].name, a)
    /\ file' = [file EXCEPT ![t].dirty = TRUE]
    /\ Uncovers(Respelled(call[t].dir))
    /\ Leave(t)
    /\ UNCHANGED <<cached, exists, seen>>

\* FileSetInfo only remembers what FileClose has to set.
SetInfo(t) ==
    /\ Doing(t, {"setinfo"})
    /\ file' = [file EXCEPT ![t].dirty = TRUE]
    /\ Leave(t)
    /\ UNCHANGED <<cached, files, exists, seen, uncovered>>

NewSize(t) ==
    /\ Doing(t, {"newsize"})
    /\ \E a \in Attrs : FileBecomes(call[t].dir, call[t].name, a)
    /\ Uncovers(Spelled(call[t].dir))
    /\ Leave(t)
    /\ UNCHANGED <<cached, exists, seen, file>>

\* smbwrp_close sets attributes and times that were remembered.
Close(t) ==
    /\ Doing(t, {"close"})
    /\ \/ UNCHANGED <<files, uncovered>>
       \/ /\ file[t].dirty
          /\ \E a \in Attrs : FileBecomes(call[t].dir, call[t].name, a)
          /\ Uncovers(Spelled(call[t].dir))
    /\ file' = [file EXCEPT ![t] = Closed]
    /\ Leave(t)
    /\ UNCHANGED <<cached, exists, seen>>
-------------------------------------------------------------------------------
(* NdpFindStart: a listing that is not cached is read and then inserted.   *)

\* Mutant: dircache_write_begin does not make room.
ListReadFull(t) ==
    \E d \in Dirs :
        /\ MayEnter(t)
        /\ folder[d] \in exists
        /\ cached[d] = None
        /\ pc' = [pc EXCEPT ![t] = "listing"]
        /\ call' = [call EXCEPT ![t] = [NoCall EXCEPT !.op = "list", !.dir = d]]
        /\ seen' = [seen EXCEPT ![t] = Listing(d)]
        /\ UNCHANGED <<cached, files, exists, file, uncovered>>

ListRead(t) ==
    \E d \in Dirs, D \in SUBSET Dirs :
        /\ MayEnter(t)
        /\ folder[d] \in exists
        /\ cached[d] = None
        /\ Cardinality(Cached \ D) < Capacity
        /\ Drops(D)
        /\ pc' = [pc EXCEPT ![t] = "listing"]
        /\ call' = [call EXCEPT ![t] = [NoCall EXCEPT !.op = "list", !.dir = d]]
        /\ seen' = [seen EXCEPT ![t] = Listing(d)]
        /\ UNCHANGED <<files, exists, file>>

\* Takes the place of a listing that another thread inserted meanwhile.
ListInsert(t) ==
    /\ pc[t] = "listing"
    /\ cached' = [cached EXCEPT ![call[t].dir] = seen[t]]
    /\ uncovered' = uncovered \ {call[t].dir}
    /\ seen' = [seen EXCEPT ![t] = NULL]
    /\ Leave(t)
    /\ UNCHANGED <<files, exists, file>>

\* A listing goes out of date.
Expire ==
    /\ \E d \in Cached : Drops({d})
    /\ UNCHANGED <<files, exists, pc, call, seen, file>>

Request(t) == RequestPath(t) \/ RequestMove(t) \/ RequestDir(t) \/ RequestFile(t)

Serve(t) == \/ Refuse(t) \/ Create(t) \/ Open(t) \/ Truncate(t) \/ SetAttr(t)
            \/ Delete(t) \/ Move(t) \/ MakeDir(t) \/ RemoveDir(t) \/ MoveDir(t)
            \/ Write(t) \/ SetInfo(t) \/ NewSize(t) \/ Close(t)

Next == \/ \E t \in Threads : Request(t) \/ Serve(t) \/ ListRead(t) \/ ListInsert(t)
        \/ Expire

Spec == Init /\ [][Next]_vars

-------------------------------------------------------------------------------
(* Properties.                                                             *)

\* The state is well formed; only cached listings are marked as uncovered.
OwnWritesTypeOK ==
    /\ cached \in [Dirs -> AllListings \cup {None}]
    /\ files \in [Folders -> Contents]
    /\ exists \in SUBSET Folders /\ folder[Root] \in exists
    /\ pc \in [Threads -> {"idle", "changing", "listing"}]
    /\ call \in [Threads -> Calls]
    /\ seen \in [Threads -> AllListings \cup {NULL}]
    /\ file \in [Threads -> [dir : Dirs \cup {NULL}, name : Names \cup {NULL},
                             dirty : BOOLEAN]]
    /\ uncovered \in SUBSET Cached

AllIdle == \A t \in Threads : pc[t] = "idle"

UpToDate(d) == folder[d] \in exists /\ cached[d] = Listing(d)

\* With the mutex around whole handlers, a cached listing differs from the
\* server only after SetFileAttribute, OpenReplace, FileNewSize, the close of
\* a file with remembered changes, for a directory that was itself renamed or
\* removed, or when the directory was changed under another spelling of its
\* path; no order of the other handlers, and no crossing of a listing with
\* them, leaves a stale one.
CoherentButUncovered ==
    /\ OwnWritesTypeOK
    /\ Serialized /\ AllIdle => \A d \in Cached \ uncovered : UpToDate(d)

\* The handlers use the cache as ListingCache promises.
UsesListingCache == CacheSpec

===============================================================================
