------------------------------- MODULE Session -------------------------------
(***************************************************************************)
(* Requests of the NDFS host (the Ndp... handlers of ndpsmb.c) and the     *)
(* libsmb sessions they use.  A handler takes the plugin mutex, runs one   *)
(* or more libsmb calls on the session of its connection, reconnects when  *)
(* the session is dead, and releases the mutex.  Every libsmb call is one  *)
(* step; other threads may act between two of them.                        *)
(*                                                                         *)
(* A session belongs to one connection, so its state is kept per           *)
(* connection: "up", "down" (the server is gone), "freed" (the pointer in  *)
(* the Connection dangles), "none" (no Connection).                        *)
(*                                                                         *)
(* About the host: it runs one request at a time on a connection.          *)
(***************************************************************************)
EXTENDS Integers

CONSTANTS
    Threads,        \* threads of the NDFS host
    Conns,          \* Connection structures
    Shares,         \* shares a path may name, the empty name among them
    NoName,         \* the empty name: a path without that component
    NULL,
    PathNamesShare, \* TRUE: rootlevel < 3, the share is part of every path
    EaSupport,      \* property EASUPPORT
    MayRefuse,      \* smbwrp_connect may fail
    MayDrop,        \* a session may break
    MaxDepth        \* bound on the nesting of the plugin mutex

ASSUME NullAssumption == NULL \notin Threads \cup Conns
ASSUME SharesAssumption == NoName \in Shares
ASSUME BoundAssumption == MaxDepth \in Nat /\ MaxDepth >= 2
ASSUME SwitchAssumption == /\ PathNamesShare \in BOOLEAN
                           /\ EaSupport \in BOOLEAN
                           /\ MayRefuse \in BOOLEAN
                           /\ MayDrop \in BOOLEAN

VARIABLES
    owner, depth,   \* the plugin mutex, which its owner may request again
    pc,             \* where each thread is in its handler
    op,             \* the handler
    conn,           \* the connection of the request
    want,           \* the share its path names
    res,            \* the share in the Resource, common to all connections
    sess,           \* the session pConn->cli points to
    share,          \* ghost: the share that session is connected to
    fd              \* pConn->file.fd: "closed", "open" on this session, or
                    \* "stale": not a file of this session

mutex == <<owner, depth>>
request == <<op, conn, want>>
session == <<res, sess, share, fd>>
vars == <<owner, depth, pc, op, conn, want, res, sess, share, fd>>

-------------------------------------------------------------------------------
(* Handlers and their steps.                                               *)

\* "change": SetPathInfo, ForceDelete, DeleteDir, Move, SetCurrentDir and
\* SetFileAttribute, which all parse the path and make one call.
PathOps == {"query", "find", "change", "mkdir", "open"}

\* "file": FileQueryInfo, FileEAQuery, FileEASet, FileEASize, FileSetFilePtr,
\* FileSetInfo, FileNewSize and FileWrite, which all test the handle and make
\* at most one call.
FileOps == {"file", "read", "close"}

\* "eaget": EAQuery and EASize.  "easet": the helper of EASet and CreateDir.
EaOps == {"eaget", "easet"}

\* "alloc": QueryFSAllocate and MountResource, with a session of their own.
Ops == PathOps \cup FileOps \cup EaOps \cup {"connect", "free", "alloc"}

\* Steps inside libsmb.
LibsmbSteps == {"parse", "echo", "reopen", "call", "drop", "redial", "retry",
                "upper", "ea_call", "shut", "temp", "temp_shut"}

Steps == LibsmbSteps \cup {"idle", "enter", "ea_enter", "ea_leave", "leave", "return"}

InLibsmb(t) == pc[t] \in LibsmbSteps

\* Steps that hand the session of the thread's connection to libsmb.
UsesSession(t) == \/ pc[t] \in {"echo", "drop", "retry", "upper", "ea_call", "shut"}
                  \/ pc[t] = "call" /\ op[t] \notin {"connect", "alloc"}

\* Steps that also hand it the file's handle.
UsesFd(t) == \/ pc[t] = "ea_call"
             \/ pc[t] = "call" /\ op[t] \in FileOps \cup {"free"}

At(t, p) == pc[t] = p
Goto(t, p) == pc' = [pc EXCEPT ![t] = p]

\* The handler's activation is gone.
Finish(t) == /\ Goto(t, "idle")
             /\ op' = [op EXCEPT ![t] = "none"]
             /\ conn' = [conn EXCEPT ![t] = NULL]
             /\ want' = [want EXCEPT ![t] = NoName]

Init == /\ owner = NULL /\ depth = 0
        /\ pc = [t \in Threads |-> "idle"]
        /\ op = [t \in Threads |-> "none"]
        /\ conn = [t \in Threads |-> NULL]
        /\ want = [t \in Threads |-> NoName]
        /\ res \in Shares
        /\ PathNamesShare => res = NoName
        /\ sess = [c \in Conns |-> "none"]
        /\ share = [c \in Conns |-> NoName]
        /\ fd = [c \in Conns |-> "closed"]

-------------------------------------------------------------------------------
(* The host calls a handler.                                               *)

Busy(c) == \E u \in Threads : conn[u] = c

Request(t, o, c, s) ==
    /\ At(t, "idle")
    /\ owner = t => depth < MaxDepth - 1
    /\ Goto(t, "enter")
    /\ op' = [op EXCEPT ![t] = o]
    /\ conn' = [conn EXCEPT ![t] = c]
    /\ want' = [want EXCEPT ![t] = s]
    /\ UNCHANGED <<mutex, session>>

RequestPath(t) ==
    \E o \in PathOps, c \in Conns, s \in Shares :
        /\ sess[c] # "none" /\ ~Busy(c)
        /\ ~PathNamesShare => s = res
        /\ Request(t, o, c, s)

RequestFile(t) ==
    \E o \in FileOps \cup EaOps, c \in Conns :
        /\ sess[c] # "none" /\ ~Busy(c)
        /\ o \in EaOps => EaSupport
        /\ Request(t, o, c, NoName)

RequestConnect(t) ==
    \E c \in Conns : sess[c] = "none" /\ ~Busy(c) /\ Request(t, "connect", c, NoName)

RequestFree(t) ==
    \E c \in Conns : sess[c] # "none" /\ ~Busy(c) /\ Request(t, "free", c, NoName)

RequestAlloc(t) == Request(t, "alloc", NULL, NoName)

Start(t) == \/ RequestPath(t) \/ RequestFile(t) \/ RequestConnect(t)
            \/ RequestFree(t) \/ RequestAlloc(t)
-------------------------------------------------------------------------------
(* ENTER and LEAVE.                                                        *)

\* Where a handler goes once it has the mutex.  A query for a wildcard or a
\* cached name needs no session; a handler for a closed file makes no call
\* (NdpFileRead does not look).
FirstSteps(t) ==
    CASE op[t] = "query" -> {"parse", "leave"}
      [] op[t] = "open" -> {IF fd[conn[t]] = "closed" THEN "parse" ELSE "leave"}
      [] op[t] = "file" -> {"leave"} \cup IF fd[conn[t]] = "closed" THEN {} ELSE {"call"}
      [] op[t] = "close" -> {IF fd[conn[t]] = "closed" THEN "leave" ELSE "call"}
      [] op[t] = "free" -> {IF fd[conn[t]] = "closed" THEN "shut" ELSE "call"}
      [] op[t] \in {"find", "change", "mkdir"} -> {"parse"}
      [] OTHER -> {"call"}

\* Mutant: helperEASet does not take the mutex.
EnterUnlessHelper(t) ==
    /\ At(t, "enter")
    /\ op[t] # "easet" => owner \in {NULL, t}
    /\ IF op[t] = "easet" THEN UNCHANGED mutex ELSE owner' = t /\ depth' = depth + 1
    /\ \E p \in FirstSteps(t) : Goto(t, p)
    /\ UNCHANGED <<request, session>>

Enter(t) ==
    /\ At(t, "enter")
    /\ owner \in {NULL, t}
    /\ owner' = t /\ depth' = depth + 1
    /\ \E p \in FirstSteps(t) : Goto(t, p)
    /\ UNCHANGED <<request, session>>

\* smbopen calls NdpFileEASet with the mutex held.
EnterNested(t) ==
    /\ At(t, "ea_enter")
    /\ owner \in {NULL, t}
    /\ owner' = t /\ depth' = depth + 1
    /\ Goto(t, "ea_call")
    /\ UNCHANGED <<request, session>>

\* Mutant: a release frees the mutex however often it was requested.
ReleaseAll == owner' = NULL /\ depth' = depth - 1

Release == /\ depth' = depth - 1
           /\ owner' = IF depth = 1 THEN NULL ELSE owner

\* Mutant: NdpFileEASet returns without LEAVE.
LeaveNestedForgotten(t) ==
    /\ At(t, "ea_leave")
    /\ Goto(t, "leave")
    /\ UNCHANGED <<mutex, request, session>>

LeaveNested(t) ==
    /\ At(t, "ea_leave")
    /\ Release
    /\ Goto(t, "leave")
    /\ UNCHANGED <<request, session>>

Leave(t) ==
    /\ At(t, "leave")
    /\ Release
    /\ Finish(t)
    /\ UNCHANGED session

\* NdpCreateDir sets the EAs after it has left, whatever mkdir returned.
LeaveToSetEa(t) ==
    /\ At(t, "leave")
    /\ op[t] = "mkdir" /\ EaSupport
    /\ Release
    /\ Goto(t, "enter")
    /\ op' = [op EXCEPT ![t] = "easet"]
    /\ UNCHANGED <<conn, want, session>>

\* The returns in NdpQueryPathInfo and NdpFindStart that have no LEAVE.
Return(t) ==
    /\ At(t, "return")
    /\ Finish(t)
    /\ UNCHANGED <<mutex, session>>

-------------------------------------------------------------------------------
(* smbwrp_connect into the connection of t.                                *)

StaleFd(c) == fd' = [fd EXCEPT ![c] = IF @ = "open" THEN "stale" ELSE @]

Connected(c, s) == /\ sess' = [sess EXCEPT ![c] = "up"]
                   /\ share' = [share EXCEPT ![c] = s]
                   /\ StaleFd(c)

\* pathparser: the path names another share than the Resource does.  An empty
\* component always counts as another.
Switches(t) == PathNamesShare /\ (want[t] # res \/ want[t] = NoName)

AfterParse(t) == IF op[t] \in {"query", "find"} THEN "echo" ELSE "call"

ParseSame(t) ==
    /\ At(t, "parse")
    /\ ~Switches(t)
    /\ Goto(t, AfterParse(t))
    /\ UNCHANGED <<mutex, request, session>>

\* Mutant: the new session is closed and the old one stays.
SwitchKeepsSession(t) ==
    /\ At(t, "parse")
    /\ Switches(t)
    /\ res' = want[t]
    /\ Goto(t, AfterParse(t))
    /\ UNCHANGED <<mutex, request, sess, share, fd>>

\* The new session is tried first; it then replaces the old one, which is
\* disconnected, and the Resource takes the new name.
ParseSwitch(t) ==
    /\ At(t, "parse")
    /\ Switches(t)
    /\ Connected(conn[t], want[t])
    /\ res' = want[t]
    /\ Goto(t, AfterParse(t))
    /\ UNCHANGED <<mutex, request>>

\* The old session and the Resource stay.  NdpFindStart returns at once.
ParseRefused(t) ==
    /\ MayRefuse
    /\ At(t, "parse")
    /\ Switches(t)
    /\ Goto(t, IF op[t] = "find" THEN "return" ELSE "leave")
    /\ UNCHANGED <<mutex, request, session>>

\* The echo before a query or a listing.
EchoAnswered(t) ==
    /\ At(t, "echo")
    /\ sess[conn[t]] # "down"
    /\ Goto(t, "call")
    /\ UNCHANGED <<mutex, request, session>>

EchoFailed(t) ==
    /\ At(t, "echo")
    /\ sess[conn[t]] # "up"
    /\ Goto(t, "reopen")
    /\ UNCHANGED <<mutex, request, session>>

\* The pointer is overwritten: the old session is never disconnected.
Reopen(t) ==
    /\ At(t, "reopen")
    /\ Connected(conn[t], res)
    /\ Goto(t, "call")
    /\ UNCHANGED <<mutex, request, res>>

ReopenRefused(t) ==
    /\ MayRefuse
    /\ At(t, "reopen")
    /\ Goto(t, "return")
    /\ UNCHANGED <<mutex, request, session>>

\* "free current cli resources" after ERROR_REM_NOT_LIST.
Drop(t) ==
    /\ At(t, "drop")
    /\ sess' = [sess EXCEPT ![conn[t]] = "freed"]
    /\ StaleFd(conn[t])
    /\ Goto(t, "redial")
    /\ UNCHANGED <<mutex, request, res, share>>

\* Mutant: the new session is not stored in the Connection.
RedialForgets(t) ==
    /\ At(t, "redial")
    /\ Goto(t, "retry")
    /\ UNCHANGED <<mutex, request, session>>

Redial(t) ==
    /\ At(t, "redial")
    /\ Connected(conn[t], res)
    /\ Goto(t, "retry")
    /\ UNCHANGED <<mutex, request, res>>

\* NdpFindStart does not look at the result and lists again.
RedialRefused(t) ==
    /\ MayRefuse
    /\ At(t, "redial")
    /\ Goto(t, IF op[t] = "find" THEN "retry" ELSE "leave")
    /\ UNCHANGED <<mutex, request, session>>
-------------------------------------------------------------------------------
(* Libsmb calls on the session of t.                                       *)

\* What a call may return: a live server answers as it likes, a dead session
\* gives ERROR_REM_NOT_LIST (ENOTCONN) or another error (ETIMEDOUT, ...).
Outcomes(t) ==
    CASE sess[conn[t]] = "up" -> {"ok", "file_not_found", "error"}
      [] sess[conn[t]] = "down" -> {"rem_not_list", "error"}
      [] OTHER -> {"ok", "file_not_found", "rem_not_list", "error"}

\* A query for a name that is not found asks for its parent directory.
AfterCall(t, r) ==
    IF op[t] = "query" /\ r = "file_not_found" THEN "upper" ELSE "leave"

\* getattr or filelist, first try.
CallQuery(t) ==
    /\ At(t, "call")
    /\ op[t] \in {"query", "find"}
    /\ \E r \in Outcomes(t) :
          Goto(t, IF r = "rem_not_list" THEN "drop" ELSE AfterCall(t, r))
    /\ UNCHANGED <<mutex, request, session>>

Retry(t) ==
    /\ At(t, "retry")
    /\ \E r \in Outcomes(t) : Goto(t, AfterCall(t, r))
    /\ UNCHANGED <<mutex, request, session>>

Upper(t) ==
    /\ At(t, "upper")
    /\ Goto(t, "leave")
    /\ UNCHANGED <<mutex, request, session>>

\* Handlers with a single call that changes no session.
CallOnce(t) ==
    /\ At(t, "call")
    /\ op[t] \in {"change", "mkdir", "file", "read"} \cup EaOps
    /\ Goto(t, "leave")
    /\ UNCHANGED <<mutex, request, session>>

CallOpen(t) ==
    /\ At(t, "call")
    /\ op[t] = "open"
    /\ "ok" \in Outcomes(t)
    /\ fd' = [fd EXCEPT ![conn[t]] = "open"]
    /\ \E p \in {"leave"} \cup IF EaSupport THEN {"ea_enter"} ELSE {} : Goto(t, p)
    /\ UNCHANGED <<mutex, request, res, sess, share>>

CallOpenFailed(t) ==
    /\ At(t, "call")
    /\ op[t] = "open"
    /\ Goto(t, "leave")
    /\ UNCHANGED <<mutex, request, session>>

\* The result of setting the EAs is not the result of the open.
CallNested(t) ==
    /\ At(t, "ea_call")
    /\ Goto(t, "ea_leave")
    /\ UNCHANGED <<mutex, request, session>>

\* smbwrp_close: the handle is gone whatever the server says.
CallClose(t) ==
    /\ At(t, "call")
    /\ op[t] \in {"close", "free"}
    /\ fd' = [fd EXCEPT ![conn[t]] = "closed"]
    /\ Goto(t, IF op[t] = "free" THEN "shut" ELSE "leave")
    /\ UNCHANGED <<mutex, request, res, sess, share>>

\* NdpFreeConnection ends with the session and the Connection.
Shut(t) ==
    /\ At(t, "shut")
    /\ sess' = [sess EXCEPT ![conn[t]] = "none"]
    /\ Goto(t, "leave")
    /\ UNCHANGED <<mutex, request, res, share, fd>>

Connect(t) ==
    /\ At(t, "call")
    /\ op[t] = "connect"
    /\ sess' = [sess EXCEPT ![conn[t]] = "up"]
    /\ share' = [share EXCEPT ![conn[t]] = res]
    /\ fd' = [fd EXCEPT ![conn[t]] = "closed"]
    /\ Goto(t, "leave")
    /\ UNCHANGED <<mutex, request, res>>

\* The Connection is freed and the host gets none.
ConnectRefused(t) ==
    /\ MayRefuse
    /\ At(t, "call")
    /\ op[t] = "connect"
    /\ Goto(t, "leave")
    /\ UNCHANGED <<mutex, request, session>>

\* A session of the handler's own: connect, use, disconnect.
TempConnect(t) ==
    /\ At(t, "call")
    /\ op[t] = "alloc"
    /\ Goto(t, "temp")
    /\ UNCHANGED <<mutex, request, session>>

TempRefused(t) ==
    /\ MayRefuse
    /\ At(t, "call")
    /\ op[t] = "alloc"
    /\ Goto(t, "leave")
    /\ UNCHANGED <<mutex, request, session>>

TempUse(t) ==
    /\ At(t, "temp")
    /\ Goto(t, "temp_shut")
    /\ UNCHANGED <<mutex, request, session>>

TempShut(t) ==
    /\ At(t, "temp_shut")
    /\ Goto(t, "leave")
    /\ UNCHANGED <<mutex, request, session>>

-------------------------------------------------------------------------------

\* The server or the network ends a session.
SessionDrops(c) ==
    /\ MayDrop
    /\ sess[c] = "up"
    /\ sess' = [sess EXCEPT ![c] = "down"]
    /\ UNCHANGED <<mutex, pc, request, res, share, fd>>

\* A handler goes on; only ENTER can make it wait.
Work(t) == \/ LeaveNested(t) \/ Leave(t) \/ LeaveToSetEa(t) \/ Return(t)
           \/ ParseSame(t) \/ ParseSwitch(t) \/ ParseRefused(t)
           \/ EchoAnswered(t) \/ EchoFailed(t) \/ Reopen(t) \/ ReopenRefused(t)
           \/ Drop(t) \/ Redial(t) \/ RedialRefused(t)
           \/ CallQuery(t) \/ Retry(t) \/ Upper(t)
           \/ CallOnce(t) \/ CallOpen(t) \/ CallOpenFailed(t) \/ CallNested(t)
           \/ CallClose(t) \/ Shut(t) \/ Connect(t) \/ ConnectRefused(t)
           \/ TempConnect(t) \/ TempRefused(t) \/ TempUse(t) \/ TempShut(t)

Next == \/ \E t \in Threads : Start(t) \/ Enter(t) \/ EnterNested(t) \/ Work(t)
        \/ \E c \in Conns : SessionDrops(c)

\* Libsmb calls return (they have time-outs), and the mutex is given to its
\* waiters in turn.
Fairness == \A t \in Threads : /\ WF_vars(Work(t))
                               /\ SF_vars(Enter(t))
                               /\ SF_vars(EnterNested(t))

Spec == Init /\ [][Next]_vars
FairSpec == Spec /\ Fairness

-------------------------------------------------------------------------------
(* Properties.                                                             *)

\* The state is well formed, and the mutex has an owner exactly while it is
\* requested.
TypeOK ==
    /\ owner \in Threads \cup {NULL}
    /\ depth \in 0 .. MaxDepth
    /\ owner = NULL <=> depth = 0
    /\ pc \in [Threads -> Steps]
    /\ op \in [Threads -> Ops \cup {"none"}]
    /\ conn \in [Threads -> Conns \cup {NULL}]
    /\ want \in [Threads -> Shares]
    /\ res \in Shares
    /\ sess \in [Conns -> {"none", "up", "down", "freed"}]
    /\ share \in [Conns -> Shares]
    /\ fd \in [Conns -> {"closed", "open", "stale"}]

\* No two threads are inside libsmb at once, on any of the paths through the
\* handlers: EA calls after LEAVE, nested requests, errors, reconnections.
LibsmbSerialized ==
    \A t, u \in Threads : InLibsmb(t) /\ InLibsmb(u) => t = u

\* Between an ENTER and its LEAVE.
Inside(t) == InLibsmb(t) \/ pc[t] \in {"leave", "ea_enter", "ea_leave", "return"}

\* A thread holds the plugin mutex exactly while it is between an ENTER and
\* its LEAVE, and as often as it has entered: none is forgotten, none is
\* released twice.
MutexMatchesHandlers ==
    /\ TypeOK
    /\ \A t \in Threads : owner = t <=> Inside(t)
    /\ depth = 2 <=> \E t \in Threads : pc[t] \in {"ea_call", "ea_leave"}
    /\ depth <= 2

\* A session that was given to cli_shutdown is not handed to libsmb again.
NoUseAfterDisconnect ==
    \A t \in Threads : UsesSession(t) => sess[conn[t]] # "freed"

\* A lost connection is "properly handled" (help/changelog.txt, 608): a file
\* handle is used only on the session it was opened on, also when a path request
\* over the same connection has replaced that session.
HandleOnItsSession ==
    \A t \in Threads : UsesFd(t) => fd[conn[t]] # "stale"

\* A request for a path reaches the share the path names.
RightShare ==
    \A t \in Threads :
        /\ PathNamesShare
        /\ op[t] \in PathOps
        /\ pc[t] \in {"call", "retry", "upper"}
        => share[conn[t]] = want[t]

\* Every request of the host returns.
CallReturns == \A t \in Threads : pc[t] # "idle" ~> pc[t] = "idle"

===============================================================================
