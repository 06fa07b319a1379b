---------------------------- MODULE SessionProofs ----------------------------
(***************************************************************************)
(* Proofs about the plugin mutex, the sessions and the current share of    *)
(* Session.tla, for any number of threads, connections and shares.         *)
(***************************************************************************)
EXTENDS Session, TLAPS

-------------------------------------------------------------------------------
(* The inductive invariant: who is between an ENTER and its LEAVE owns the *)
(* mutex, and has requested it as often as it is going to release it.      *)

Nested(t) == pc[t] \in {"ea_call", "ea_leave"}

Holding == \A t \in Threads : Inside(t) => owner = t /\ depth >= 1
HoldingTwice == \A t \in Threads : Nested(t) => depth >= 2

MutexInv == /\ depth \in Nat
            /\ pc \in [Threads -> Steps]
            /\ Holding
            /\ HoldingTwice

\* ENTER leads into libsmb or straight to LEAVE, never into a nested call.
LEMMA FirstStepsKnown ==
    ASSUME NEW t \in Threads
    PROVE  FirstSteps(t) \subseteq {"parse", "leave", "call", "shut"}
  BY DEF FirstSteps

LEMMA MutexInit == Init => MutexInv
  BY DEF Init, MutexInv, Holding, HoldingTwice, Inside, Nested, InLibsmb,
         Steps, LibsmbSteps

\* A step of t that leaves the mutex alone and stays between ENTER and LEAVE
\* (or outside, or goes out without LEAVE) keeps the invariant.
LEMMA SameMutex ==
    ASSUME MutexInv, NEW t \in Threads, NEW p \in Steps,
           UNCHANGED mutex, Goto(t, p),
           p \in {"idle", "enter"} \/ Inside(t),
           p = "ea_call" => FALSE,
           p = "ea_leave" => pc[t] = "ea_call"
    PROVE  MutexInv'
  <1>1. depth' \in Nat /\ pc' \in [Threads -> Steps]
    BY DEF MutexInv, mutex, Goto
  <1>2. Holding'
    <2> SUFFICES ASSUME NEW u \in Threads, Inside(u)'
                 PROVE  owner' = u /\ depth' >= 1
      BY DEF Holding
    <2>1. CASE u = t
      BY <2>1 DEF MutexInv, Holding, mutex, Goto, Inside, InLibsmb, LibsmbSteps
    <2>2. CASE u # t
      BY <2>2 DEF MutexInv, Holding, mutex, Goto, Inside, InLibsmb
    <2>3. QED BY <2>1, <2>2
  <1>3. HoldingTwice'
    BY DEF MutexInv, HoldingTwice, Nested, mutex, Goto
  <1>4. QED BY <1>1, <1>2, <1>3 DEF MutexInv

\* A request of t takes the mutex: nobody else was inside.
LEMMA TakesMutex ==
    ASSUME MutexInv, NEW t \in Threads, NEW p \in Steps,
           owner \in {NULL, t}, owner' = t, depth' = depth + 1, Goto(t, p),
           p \notin {"ea_leave"}, p = "ea_call" => Inside(t)
    PROVE  MutexInv'
  <1>1. depth' \in Nat /\ pc' \in [Threads -> Steps]
    BY DEF MutexInv, Goto
  <1>2. \A u \in Threads : u # t => ~Inside(u)
    BY NullAssumption DEF MutexInv, Holding
  <1>3. \A u \in Threads : u # t => pc'[u] = pc[u]
    BY DEF MutexInv, Goto
  <1>4. Holding'
    <2> SUFFICES ASSUME NEW u \in Threads, Inside(u)'
                 PROVE  owner' = u /\ depth' >= 1
      BY DEF Holding
    <2>1. u = t
      BY <1>2, <1>3 DEF Inside, InLibsmb
    <2>2. QED BY <2>1 DEF MutexInv
  <1>5. HoldingTwice'
    <2> SUFFICES ASSUME NEW u \in Threads, Nested(u)' PROVE depth' >= 2
      BY DEF HoldingTwice
    <2>1. u = t
      <3>1. Inside(u)'
        BY DEF Nested, Inside, InLibsmb, LibsmbSteps
      <3>2. QED BY <3>1, <1>2, <1>3 DEF Inside, InLibsmb
    <2>2. pc'[t] = p
      BY DEF MutexInv, Goto
    <2>3. p = "ea_call"
      BY <2>1, <2>2 DEF Nested
    <2>4. QED BY <2>3 DEF MutexInv, Holding
  <1>6. QED BY <1>1, <1>4, <1>5 DEF MutexInv

\* A release by its owner, on the way out.
LEMMA GivesMutex ==
    ASSUME MutexInv, NEW t \in Threads, NEW p \in {"idle", "enter"},
           pc[t] = "leave", Release, Goto(t, p)
    PROVE  MutexInv'
  <1>1. owner = t /\ depth >= 1 /\ depth \in Nat
    BY DEF MutexInv, Holding, Inside
  <1>2. depth' \in Nat
    BY <1>1 DEF Release
  <1>3. pc' \in [Threads -> Steps] /\ \A u \in Threads : pc'[u] = IF u = t THEN p ELSE pc[u]
    BY DEF MutexInv, Goto, Steps
  <1>4. \A u \in Threads : ~Inside(u)'
    BY <1>1, <1>3 DEF MutexInv, Holding, Inside, InLibsmb, LibsmbSteps
  <1>5. \A u \in Threads : ~Nested(u)'
    BY <1>4 DEF Nested, Inside, InLibsmb, LibsmbSteps
  <1>6. QED BY <1>2, <1>3, <1>4, <1>5 DEF MutexInv, Holding, HoldingTwice

\* The release of the nested request leaves the handler's own.
LEMMA GivesNested ==
    ASSUME MutexInv, NEW t \in Threads, LeaveNested(t)
    PROVE  MutexInv'
  <1>1. owner = t /\ depth >= 2 /\ depth \in Nat
    BY DEF MutexInv, Holding, HoldingTwice, Inside, Nested, LeaveNested, At
  <1>2. owner' = t /\ depth' \in Nat /\ depth' >= 1
    BY <1>1 DEF Release, LeaveNested
  <1>3. /\ pc' \in [Threads -> Steps]
        /\ \A u \in Threads : pc'[u] = IF u = t THEN "leave" ELSE pc[u]
    BY DEF MutexInv, LeaveNested, Goto, Steps
  <1>4. \A u \in Threads : u # t => ~Inside(u)
    BY <1>1 DEF MutexInv, Holding
  <1>5. \A u \in Threads : Inside(u)' => u = t
    BY <1>3, <1>4 DEF Inside, InLibsmb
  <1>6. \A u \in Threads : ~Nested(u)'
    BY <1>3, <1>4 DEF Nested, Inside, InLibsmb, LibsmbSteps
  <1>7. QED BY <1>2, <1>3, <1>5, <1>6 DEF MutexInv, Holding, HoldingTwice
-------------------------------------------------------------------------------

\* Between ENTER and LEAVE the mutex is left alone, and a nested request is
\* followed by its release.
LEMMA InnerSteps ==
    ASSUME NEW t \in Threads, Work(t),
           ~LeaveNested(t), ~Leave(t), ~LeaveToSetEa(t), ~Return(t)
    PROVE  /\ UNCHANGED mutex /\ pc[t] \in LibsmbSteps
           /\ \E p \in LibsmbSteps \cup {"leave", "ea_enter", "ea_leave", "return"} :
                 /\ p \in Steps /\ Goto(t, p)
                 /\ p # "ea_call"
                 /\ p = "ea_leave" <=> pc[t] = "ea_call"
  <1> USE DEF At, LibsmbSteps, Steps
  <1>1. CASE ParseSame(t) \/ ParseSwitch(t) \/ ParseRefused(t)
    BY <1>1 DEF ParseSame, ParseSwitch, ParseRefused, AfterParse
  <1>2. CASE EchoAnswered(t) \/ EchoFailed(t) \/ Reopen(t) \/ ReopenRefused(t)
             \/ Drop(t) \/ Redial(t) \/ RedialRefused(t)
    BY <1>2 DEF EchoAnswered, EchoFailed, Reopen, ReopenRefused, Drop, Redial, RedialRefused
  <1>3. CASE CallQuery(t) \/ Retry(t) \/ Upper(t)
    BY <1>3 DEF CallQuery, Retry, Upper, AfterCall
  <1>4. CASE CallOnce(t) \/ CallOpen(t) \/ CallOpenFailed(t) \/ CallNested(t)
             \/ CallClose(t) \/ Shut(t) \/ Connect(t) \/ ConnectRefused(t)
    BY <1>4 DEF CallOnce, CallOpen, CallOpenFailed, CallNested, CallClose, Shut, Connect,
                ConnectRefused
  <1>5. CASE TempConnect(t) \/ TempRefused(t) \/ TempUse(t) \/ TempShut(t)
    BY <1>5 DEF TempConnect, TempRefused, TempUse, TempShut
  <1>6. QED
    BY <1>1, <1>2, <1>3, <1>4, <1>5 DEF Work

LEMMA MutexNext == MutexInv /\ [Next]_vars => MutexInv'
  <1> SUFFICES ASSUME MutexInv, [Next]_vars PROVE MutexInv'
    OBVIOUS
  <1> USE DEF At
  <1>1. ASSUME NEW t \in Threads, Start(t) PROVE MutexInv'
    BY <1>1, SameMutex, "enter" \in Steps
    DEF Start, RequestPath, RequestFile, RequestConnect, RequestFree,
        RequestAlloc, Request, Steps
  <1>2. ASSUME NEW t \in Threads, Enter(t) PROVE MutexInv'
    BY <1>2, TakesMutex, FirstStepsKnown DEF Enter, Steps, LibsmbSteps
  <1>3. ASSUME NEW t \in Threads, EnterNested(t) PROVE MutexInv'
    BY <1>3, TakesMutex DEF EnterNested, Steps, LibsmbSteps, Inside
  <1>4. ASSUME NEW t \in Threads, LeaveNested(t) PROVE MutexInv'
    BY <1>4, GivesNested
  <1>5. ASSUME NEW t \in Threads, Leave(t) \/ LeaveToSetEa(t) PROVE MutexInv'
    BY <1>5, GivesMutex DEF Leave, LeaveToSetEa, Finish
  <1>6. ASSUME NEW t \in Threads, Return(t) PROVE MutexInv'
    BY <1>6, SameMutex DEF Return, Finish, Steps
  <1>7. ASSUME NEW t \in Threads, Work(t),
               ~LeaveNested(t), ~Leave(t), ~LeaveToSetEa(t), ~Return(t)
        PROVE  MutexInv'
    BY <1>7, InnerSteps, SameMutex DEF Inside, InLibsmb
  <1>8. ASSUME NEW c \in Conns, SessionDrops(c) PROVE MutexInv'
    BY <1>8 DEF SessionDrops, mutex, MutexInv, Holding, HoldingTwice, Inside,
                Nested, InLibsmb
  <1>9. CASE UNCHANGED vars
    BY <1>9 DEF vars, MutexInv, Holding, HoldingTwice, Inside, Nested, InLibsmb
  <1>10. QED
    BY <1>1, <1>2, <1>3, <1>4, <1>5, <1>6, <1>7, <1>8, <1>9 DEF Next

LEMMA MutexSerializes == MutexInv => LibsmbSerialized
  BY DEF MutexInv, Holding, LibsmbSerialized, Inside

\* The plugin mutex keeps every two threads from being in libsmb at once, for
\* any number of threads and connections and whatever the server refuses or
\* drops: also on the paths that return without LEAVE.
THEOREM Serialized == Spec => []LibsmbSerialized
  <1>1. Spec => []MutexInv
    BY MutexInit, MutexNext, PTL DEF Spec
  <1>2. QED BY <1>1, MutexSerializes, PTL

-------------------------------------------------------------------------------
(* Requests: which steps a handler has, and whose connection it uses.      *)

\* The steps of a handler for o.
Fits(p, o) ==
    /\ p \in Steps \ {"idle"} /\ o \in Ops
    /\ p \in {"echo", "reopen", "drop", "redial", "retry", "upper"} => o \in {"query", "find"}
    /\ p = "parse" => o \in PathOps
    /\ p \in {"ea_enter", "ea_call", "ea_leave"} => o = "open"
    /\ p = "shut" => o = "free"
    /\ p \in {"temp", "temp_shut"} => o = "alloc"
    /\ p = "return" => MayRefuse

\* A request has the connection that its handler needs.
HasConn(o, c) == IF o = "alloc" THEN c = NULL ELSE c \in Conns

RequestTypes == /\ pc \in [Threads -> Steps]
                /\ op \in [Threads -> Ops \cup {"none"}]
                /\ conn \in [Threads -> Conns \cup {NULL}]
                /\ want \in [Threads -> Shares]

StepsKnown ==
    \A t \in Threads :
        IF pc[t] = "idle" THEN op[t] = "none" /\ conn[t] = NULL
        ELSE Fits(pc[t], op[t]) /\ HasConn(op[t], conn[t])

\* The host runs one request at a time on a connection.
OneRequestEach ==
    \A t, u \in Threads : conn[t] = conn[u] /\ conn[t] # NULL => t = u

RequestInv == RequestTypes /\ StepsKnown /\ OneRequestEach

LEMMA RequestInit == Init => RequestInv
  BY SharesAssumption
     DEF Init, RequestInv, RequestTypes, StepsKnown, OneRequestEach, Steps

\* A request for a free connection.
LEMMA RequestArrives ==
    ASSUME RequestInv, NEW t \in Threads, NEW o \in Ops, NEW c \in Conns \cup {NULL},
           NEW s \in Shares, HasConn(o, c), c = NULL \/ ~Busy(c), Request(t, o, c, s)
    PROVE  RequestInv'
<1>1. /\ pc' = [pc EXCEPT ![t] = "enter"] /\ op' = [op EXCEPT ![t] = o]
      /\ conn' = [conn EXCEPT ![t] = c] /\ want' = [want EXCEPT ![t] = s]
  BY DEF Request, Goto
<1>2. RequestTypes'
  BY <1>1 DEF RequestInv, RequestTypes, Steps
<1>3. StepsKnown'
  BY <1>1 DEF RequestInv, RequestTypes, StepsKnown, Fits, Steps
<1>4. OneRequestEach'
  BY <1>1 DEF RequestInv, RequestTypes, OneRequestEach, Busy
<1>5. QED BY <1>2, <1>3, <1>4 DEF RequestInv

LEMMA StartArrives == ASSUME RequestInv, NEW t \in Threads, Start(t) PROVE RequestInv'
<1> USE DEF Ops, PathOps, FileOps, EaOps, HasConn
<1>1. CASE RequestPath(t)
  BY <1>1, RequestArrives DEF RequestPath
<1>2. CASE RequestFile(t)
  BY <1>2, RequestArrives, SharesAssumption DEF RequestFile
<1>3. CASE RequestConnect(t)
  BY <1>3, RequestArrives, SharesAssumption DEF RequestConnect
<1>4. CASE RequestFree(t)
  BY <1>4, RequestArrives, SharesAssumption DEF RequestFree
<1>5. CASE RequestAlloc(t)
  BY <1>5, RequestArrives, SharesAssumption DEF RequestAlloc
<1>6. QED BY <1>1, <1>2, <1>3, <1>4, <1>5 DEF Start

\* The handler goes on with the same request.
LEMMA RequestGoesOn ==
    ASSUME RequestInv, NEW t \in Threads, NEW p, Goto(t, p), Fits(p, op[t]),
           pc[t] # "idle", UNCHANGED request
    PROVE  RequestInv'
<1>1. pc' = [pc EXCEPT ![t] = p] /\ UNCHANGED <<op, conn, want>> /\ p \in Steps \ {"idle"}
  BY DEF Goto, request, Fits
<1>2. RequestTypes' /\ OneRequestEach'
  BY <1>1 DEF RequestInv, RequestTypes, OneRequestEach
<1>3. StepsKnown'
  BY <1>1 DEF RequestInv, RequestTypes, StepsKnown
<1>4. QED BY <1>2, <1>3 DEF RequestInv

LEMMA RequestEnds == ASSUME RequestInv, NEW t \in Threads, Finish(t) PROVE RequestInv'
<1>1. /\ pc' = [pc EXCEPT ![t] = "idle"] /\ op' = [op EXCEPT ![t] = "none"]
      /\ conn' = [conn EXCEPT ![t] = NULL] /\ want' = [want EXCEPT ![t] = NoName]
  BY DEF Finish, Goto
<1>2. RequestTypes'
  BY <1>1, SharesAssumption DEF RequestInv, RequestTypes, Steps
<1>3. StepsKnown' /\ OneRequestEach'
  BY <1>1 DEF RequestInv, RequestTypes, StepsKnown, OneRequestEach
<1>4. QED BY <1>2, <1>3 DEF RequestInv

\* Handlers that go on: ENTER, and the work between ENTER and LEAVE.
GoesOn(t) == \/ Enter(t) \/ EnterNested(t)
             \/ Work(t) /\ ~Leave(t) /\ ~LeaveToSetEa(t) /\ ~Return(t)

LEMMA FirstStepsFit ==
    ASSUME RequestInv, NEW t \in Threads, pc[t] = "enter", NEW p \in FirstSteps(t)
    PROVE  Fits(p, op[t])
<1>1. op[t] \in Ops
  BY DEF RequestInv, StepsKnown, Fits
<1>2. QED
  BY <1>1 DEF FirstSteps, Fits, Steps, LibsmbSteps, Ops, PathOps, FileOps, EaOps

LEMMA GoesOnFits ==
    ASSUME RequestInv, NEW t \in Threads, GoesOn(t)
    PROVE  /\ pc[t] # "idle" /\ UNCHANGED request
           /\ \E p \in Steps : Goto(t, p) /\ Fits(p, op[t])
<1>1. pc[t] # "idle" => Fits(pc[t], op[t])
  BY DEF RequestInv, StepsKnown
<1> USE DEF At
<1>2. CASE Enter(t)
  BY <1>2, FirstStepsFit DEF Enter, Fits
<1>3. CASE EnterNested(t)
  BY <1>1, <1>3 DEF EnterNested, Fits, Steps, LibsmbSteps
<1>4. CASE LeaveNested(t) \/ ParseSame(t) \/ ParseSwitch(t) \/ ParseRefused(t)
  BY <1>1, <1>4 DEF LeaveNested, ParseSame, ParseSwitch, ParseRefused, AfterParse,
                    Fits, Steps, LibsmbSteps, Ops, PathOps
<1>5. CASE EchoAnswered(t) \/ EchoFailed(t) \/ Reopen(t) \/ ReopenRefused(t)
           \/ Drop(t) \/ Redial(t) \/ RedialRefused(t)
  BY <1>1, <1>5 DEF EchoAnswered, EchoFailed, Reopen, ReopenRefused, Drop, Redial,
                    RedialRefused, Fits, Steps, LibsmbSteps
<1>6. CASE CallQuery(t) \/ Retry(t) \/ Upper(t)
  BY <1>1, <1>6 DEF CallQuery, Retry, Upper, AfterCall, Fits, Steps, LibsmbSteps
<1>7. CASE CallOnce(t) \/ CallOpen(t) \/ CallOpenFailed(t) \/ CallNested(t)
           \/ CallClose(t) \/ Shut(t) \/ Connect(t) \/ ConnectRefused(t)
  BY <1>1, <1>7 DEF CallOnce, CallOpen, CallOpenFailed, CallNested, CallClose, Shut,
                    Connect, ConnectRefused, Fits, Steps, LibsmbSteps
<1>8. CASE TempConnect(t) \/ TempRefused(t) \/ TempUse(t) \/ TempShut(t)
  BY <1>1, <1>8 DEF TempConnect, TempRefused, TempUse, TempShut, Fits, Steps, LibsmbSteps
<1>9. QED
  BY <1>2, <1>3, <1>4, <1>5, <1>6, <1>7, <1>8 DEF GoesOn, Work

\* After mkdir the same request sets the EAs.
LEMMA RequestSetsEa == ASSUME RequestInv, NEW t \in Threads, LeaveToSetEa(t) PROVE RequestInv'
<1>1. /\ pc' = [pc EXCEPT ![t] = "enter"] /\ op' = [op EXCEPT ![t] = "easet"]
      /\ UNCHANGED <<conn, want>> /\ op[t] = "mkdir"
  BY DEF LeaveToSetEa, Goto
<1>2. RequestTypes' /\ OneRequestEach'
  BY <1>1 DEF RequestInv, RequestTypes, OneRequestEach, Steps, Ops, EaOps
<1>3. conn[t] \in Conns
  BY <1>1 DEF RequestInv, StepsKnown, HasConn
<1>4. StepsKnown'
  BY <1>1, <1>3 DEF RequestInv, RequestTypes, StepsKnown, Fits, HasConn, Steps, Ops, EaOps
<1>5. QED BY <1>2, <1>4 DEF RequestInv

LEMMA RequestNext == RequestInv /\ [Next]_vars => RequestInv'
<1> SUFFICES ASSUME RequestInv, [Next]_vars PROVE RequestInv'
  OBVIOUS
<1>1. ASSUME NEW t \in Threads, Start(t) PROVE RequestInv'
  BY <1>1, StartArrives
<1>2. ASSUME NEW t \in Threads, GoesOn(t) PROVE RequestInv'
  BY <1>2, GoesOnFits, RequestGoesOn
<1>3. ASSUME NEW t \in Threads, Leave(t) \/ Return(t) PROVE RequestInv'
  BY <1>3, RequestEnds DEF Leave, Return
<1>4. ASSUME NEW t \in Threads, LeaveToSetEa(t) PROVE RequestInv'
  BY <1>4, RequestSetsEa
<1>5. CASE UNCHANGED <<pc, op, conn, want>>
  BY <1>5 DEF RequestInv, RequestTypes, StepsKnown, OneRequestEach
<1>6. QED
  BY <1>1, <1>2, <1>3, <1>4, <1>5 DEF Next, GoesOn, SessionDrops, vars, request

LEMMA RequestsHold == Spec => []RequestInv
  BY RequestInit, RequestNext, PTL DEF Spec

-------------------------------------------------------------------------------
(* What the steps do to the sessions.                                      *)

SessionTypes == /\ res \in Shares
                /\ sess \in [Conns -> {"none", "up", "down", "freed"}]
                /\ share \in [Conns -> Shares]
                /\ fd \in [Conns -> {"closed", "open", "stale"}]

\* Every step leaves the sessions alone or is one of these.
SessionStep ==
    \/ \E t \in Threads : \/ ParseSwitch(t) \/ Reopen(t) \/ Drop(t) \/ Redial(t)
                          \/ CallOpen(t) \/ CallClose(t) \/ Shut(t) \/ Connect(t)
    \/ \E c \in Conns : SessionDrops(c)

LEMMA SessionSteps == [Next]_vars => UNCHANGED session \/ SessionStep
<1> SUFFICES ASSUME [Next]_vars, ~SessionStep PROVE UNCHANGED session
  OBVIOUS
<1>1. ASSUME NEW t \in Threads, Start(t) \/ Enter(t) \/ EnterNested(t)
      PROVE  UNCHANGED session
  BY <1>1 DEF Start, RequestPath, RequestFile, RequestConnect, RequestFree, RequestAlloc,
              Request, Enter, EnterNested
<1>2. ASSUME NEW t \in Threads, Work(t) PROVE UNCHANGED session
  BY <1>2 DEF SessionStep, Work, LeaveNested, Leave, LeaveToSetEa, Return, ParseSame,
              ParseRefused, EchoAnswered, EchoFailed, ReopenRefused, RedialRefused,
              CallQuery, Retry, Upper, CallOnce, CallOpenFailed, CallNested, ConnectRefused,
              TempConnect, TempRefused, TempUse, TempShut
<1>3. CASE UNCHANGED vars
  BY <1>3 DEF vars, session
<1>4. QED
  BY <1>1, <1>2, <1>3 DEF Next, SessionStep

LEMMA SessionInit == Init => SessionTypes
  BY SharesAssumption DEF Init, SessionTypes

LEMMA SessionNext == RequestInv /\ SessionTypes /\ [Next]_vars => SessionTypes'
<1> SUFFICES ASSUME RequestInv, SessionTypes, [Next]_vars PROVE SessionTypes'
  OBVIOUS
<1> USE DEF SessionTypes, RequestInv, RequestTypes
<1>1. CASE UNCHANGED session
  BY <1>1 DEF session
<1>2. ASSUME NEW t \in Threads, ParseSwitch(t) \/ Reopen(t) \/ Redial(t) PROVE SessionTypes'
  BY <1>2 DEF ParseSwitch, Reopen, Redial, Connected, StaleFd
<1>3. ASSUME NEW t \in Threads, Drop(t) \/ Shut(t) PROVE SessionTypes'
  BY <1>3 DEF Drop, Shut, StaleFd
<1>4. ASSUME NEW t \in Threads, CallOpen(t) \/ CallClose(t) \/ Connect(t)
      PROVE  SessionTypes'
  BY <1>4 DEF CallOpen, CallClose, Connect
<1>5. ASSUME NEW c \in Conns, SessionDrops(c) PROVE SessionTypes'
  BY <1>5 DEF SessionDrops
<1>6. QED
  BY <1>1, <1>2, <1>3, <1>4, <1>5, SessionSteps DEF SessionStep

LEMMA SessionsTyped == Spec => []SessionTypes
<1>1. Spec => [](RequestInv /\ SessionTypes)
  <2>1. Init => RequestInv /\ SessionTypes
    BY RequestInit, SessionInit
  <2>2. RequestInv /\ SessionTypes /\ [Next]_vars => RequestInv' /\ SessionTypes'
    BY RequestNext, SessionNext
  <2>3. QED BY <2>1, <2>2, PTL DEF Spec
<1>2. QED BY <1>1, PTL

-------------------------------------------------------------------------------
(* The mutex is released as often as it was requested, but for two         *)
(* refusals.                                                               *)

\* A refused connection after which the handler returns without LEAVE: the
\* reconnection after a failed echo, and the switch of NdpFindStart.
RefusedWithoutLeave(t) == \/ ReopenRefused(t)
                          \/ ParseRefused(t) /\ op[t] = "find"

NothingReturns == \A t \in Threads : pc[t] # "return"

LEMMA NothingReturnsInit == Init => NothingReturns
  BY DEF Init, NothingReturns

\* Every other step keeps away from the returns without LEAVE.
LEMMA NothingReturnsNext ==
    ASSUME RequestInv, NothingReturns, [Next]_vars,
           \A t \in Threads : ~RefusedWithoutLeave(t)
    PROVE  NothingReturns'
<1> USE DEF At, NothingReturns, RequestInv, RequestTypes
<1>1. ASSUME NEW t \in Threads, NEW q, Goto(t, q), q # "return" PROVE NothingReturns'
  BY <1>1 DEF Goto
<1>2. ASSUME NEW t \in Threads, Start(t) PROVE NothingReturns'
  BY <1>2 DEF Start, RequestPath, RequestFile, RequestConnect, RequestFree, RequestAlloc,
              Request, Goto
<1>3. ASSUME NEW t \in Threads, Enter(t) PROVE NothingReturns'
  BY <1>1, <1>3, FirstStepsKnown DEF Enter
<1>4. ASSUME NEW t \in Threads,
             \/ EnterNested(t) \/ LeaveNested(t) \/ Leave(t) \/ LeaveToSetEa(t) \/ Return(t)
             \/ ParseSame(t) \/ ParseSwitch(t) \/ ParseRefused(t)
      PROVE  NothingReturns'
  BY <1>1, <1>4 DEF EnterNested, LeaveNested, Leave, LeaveToSetEa, Return, Finish, ParseSame,
    ParseSwitch, ParseRefused, AfterParse, RefusedWithoutLeave
<1>5. ASSUME NEW t \in Threads,
             \/ EchoAnswered(t) \/ EchoFailed(t) \/ Reopen(t) \/ Drop(t) \/ Redial(t)
             \/ RedialRefused(t) \/ CallQuery(t) \/ Retry(t) \/ Upper(t)
      PROVE  NothingReturns'
  BY <1>1, <1>5 DEF EchoAnswered, EchoFailed, Reopen, Drop, Redial, RedialRefused, CallQuery,
    Retry, Upper, AfterCall
<1>6. ASSUME NEW t \in Threads,
             \/ CallOnce(t) \/ CallOpen(t) \/ CallOpenFailed(t) \/ CallNested(t) \/ CallClose(t)
             \/ Shut(t) \/ Connect(t) \/ ConnectRefused(t) \/ TempConnect(t) \/ TempRefused(t)
             \/ TempUse(t) \/ TempShut(t)
      PROVE  NothingReturns'
  BY <1>1, <1>6 DEF CallOnce, CallOpen, CallOpenFailed, CallNested, CallClose, Shut, Connect,
    ConnectRefused, TempConnect, TempRefused, TempUse, TempShut
<1>7. CASE UNCHANGED pc
  BY <1>7
<1>8. ASSUME NEW t \in Threads, Work(t) PROVE NothingReturns'
  <2>1. ~ReopenRefused(t)
    BY DEF RefusedWithoutLeave
  <2>2. QED
    BY <1>8, <2>1, <1>4, <1>5, <1>6 DEF Work
<1>9. (UNCHANGED vars \/ \E c \in Conns : SessionDrops(c)) => UNCHANGED pc
  BY DEF SessionDrops, vars
<1> HIDE DEF NothingReturns
<1>10. QED
  BY <1>2, <1>3, <1>4, <1>7, <1>8, <1>9 DEF Next

\* The owner is the one thread inside, and has requested the mutex twice
\* exactly between the nested ENTER and its LEAVE.
MutexExact ==
    /\ owner \in Threads \cup {NULL} /\ depth \in 0 .. 2
    /\ \A t \in Threads : owner = t <=> Inside(t)
    /\ owner = NULL <=> depth = 0
    /\ depth = 2 <=> \E t \in Threads : Nested(t)

LEMMA ExactInit == Init => MutexExact
  BY NullAssumption DEF Init, MutexExact, Inside, Nested, InLibsmb, LibsmbSteps

\* Nobody but the owner is nested.
LEMMA NestedOwns == ASSUME MutexExact, NEW t \in Threads, Nested(t) PROVE owner = t
  BY DEF MutexExact, Nested, Inside, InLibsmb, LibsmbSteps

\* A step of t from p to q that moves the mutex from d to e requests.
LEMMA ExactStep ==
    ASSUME RequestInv, MutexExact, NEW t \in Threads, NEW q \in Steps, Goto(t, q),
           owner \in {NULL, t},
           owner' = IF Inside(t)' THEN t ELSE NULL,
           depth' = IF ~Inside(t)' THEN 0 ELSE IF q \in {"ea_call", "ea_leave"} THEN 2 ELSE 1
    PROVE  MutexExact'
<1>1. pc' = [pc EXCEPT ![t] = q] /\ pc \in [Threads -> Steps]
  BY DEF Goto, RequestInv, RequestTypes
<1>2. \A u \in Threads : u # t => ~Inside(u) /\ ~Nested(u)
  BY NestedOwns, NullAssumption DEF MutexExact
<1>3. \A u \in Threads : u # t => ~Inside(u)' /\ ~Nested(u)'
  BY <1>1, <1>2 DEF Inside, Nested, InLibsmb
<1>4. Nested(t)' <=> q \in {"ea_call", "ea_leave"}
  BY <1>1 DEF Nested
<1>5. Nested(t)' => Inside(t)'
  BY DEF Nested, Inside, InLibsmb, LibsmbSteps
<1>6. owner' \in Threads \cup {NULL} /\ depth' \in 0 .. 2
  OBVIOUS
<1>7. \A u \in Threads : owner' = u <=> Inside(u)'
  BY <1>3, NullAssumption
<1>8. owner' = NULL <=> depth' = 0
  BY NullAssumption
<1>9. depth' = 2 <=> \E u \in Threads : Nested(u)'
  BY <1>3, <1>4, <1>5
<1>10. QED BY <1>6, <1>7, <1>8, <1>9 DEF MutexExact

\* What the position of t says of the mutex.
LEMMA ExactAt ==
    ASSUME MutexExact, NEW t \in Threads
    PROVE  /\ Inside(t) => owner = t /\ depth = IF Nested(t) THEN 2 ELSE 1
           /\ ~Inside(t) => owner # t
           /\ owner = NULL => depth = 0
<1>1. ASSUME Inside(t) PROVE owner = t /\ depth = IF Nested(t) THEN 2 ELSE 1
  <2>1. owner = t /\ depth \in {1, 2}
    BY <1>1, NullAssumption DEF MutexExact
  <2>2. depth = 2 <=> Nested(t)
    BY <2>1, NestedOwns DEF MutexExact
  <2>3. QED BY <2>1, <2>2
<1>2. QED BY <1>1 DEF MutexExact

LEMMA ExactNext ==
    ASSUME RequestInv, NothingReturns, MutexExact, [Next]_vars
    PROVE  MutexExact'
<1> USE DEF At
<1>1. ASSUME NEW t \in Threads, Start(t) PROVE MutexExact'
  <2>1. UNCHANGED mutex /\ pc[t] = "idle" /\ pc' = [pc EXCEPT ![t] = "enter"]
    BY <1>1 DEF Start, RequestPath, RequestFile, RequestConnect, RequestFree,
                RequestAlloc, Request, Goto
  <2>2. QED
    BY <2>1 DEF RequestInv, RequestTypes, MutexExact, mutex, Inside, Nested, InLibsmb,
                LibsmbSteps, Steps
<1>2. ASSUME NEW t \in Threads, Enter(t) PROVE MutexExact'
  <2>1. PICK q \in {"parse", "leave", "call", "shut"} : Goto(t, q)
    BY <1>2, FirstStepsKnown DEF Enter
  <2>2. ~Inside(t) /\ q \in Steps /\ Inside(t)'
    BY <1>2, <2>1 DEF Enter, Inside, InLibsmb, LibsmbSteps, Steps, Goto, RequestInv,
                      RequestTypes
  <2>3. owner = NULL /\ depth = 0 /\ owner' = t /\ depth' = 1
    BY <1>2, <2>2, ExactAt DEF Enter
  <2>4. QED BY <2>1, <2>2, <2>3, ExactStep
<1>3. ASSUME NEW t \in Threads, EnterNested(t) PROVE MutexExact'
  <2>1. Inside(t) /\ ~Nested(t) /\ Goto(t, "ea_call") /\ Inside(t)'
    BY <1>3 DEF EnterNested, Inside, Nested, InLibsmb, LibsmbSteps, Goto, RequestInv,
                RequestTypes
  <2>2. owner = t /\ depth = 1 /\ owner' = t /\ depth' = 2
    BY <1>3, <2>1, ExactAt DEF EnterNested
  <2>3. QED BY <2>1, <2>2, ExactStep DEF Steps, LibsmbSteps
<1>4. ASSUME NEW t \in Threads, LeaveNested(t) PROVE MutexExact'
  <2>1. Inside(t) /\ Nested(t) /\ Goto(t, "leave") /\ Inside(t)'
    BY <1>4 DEF LeaveNested, Inside, Nested, InLibsmb, LibsmbSteps, Goto, RequestInv,
                RequestTypes
  <2>2. owner = t /\ depth = 2 /\ owner' = t /\ depth' = 1
    BY <1>4, <2>1, ExactAt DEF LeaveNested, Release
  <2>3. QED BY <2>1, <2>2, ExactStep DEF Steps
<1>5. ASSUME NEW t \in Threads, Leave(t) \/ LeaveToSetEa(t) PROVE MutexExact'
  <2>1. PICK q \in {"idle", "enter"} : Goto(t, q)
    BY <1>5 DEF Leave, LeaveToSetEa, Finish
  <2>2. Inside(t) /\ ~Nested(t) /\ ~Inside(t)'
    BY <1>5, <2>1 DEF Leave, LeaveToSetEa, Inside, Nested, InLibsmb, LibsmbSteps, Goto,
                      RequestInv, RequestTypes
  <2>3. owner = t /\ depth = 1 /\ owner' = NULL /\ depth' = 0
    BY <1>5, <2>2, ExactAt DEF Leave, LeaveToSetEa, Release
  <2>4. QED BY <2>1, <2>2, <2>3, ExactStep DEF Steps
<1>6. ASSUME NEW t \in Threads, Return(t) PROVE MutexExact'
  BY <1>6 DEF Return, NothingReturns
<1>7. ASSUME NEW t \in Threads, Work(t),
             ~LeaveNested(t), ~Leave(t), ~LeaveToSetEa(t), ~Return(t)
      PROVE  MutexExact'
  <2>1. PICK q \in LibsmbSteps \cup {"leave", "ea_enter", "ea_leave", "return"} :
             /\ q \in Steps /\ Goto(t, q)
             /\ q # "ea_call"
             /\ q = "ea_leave" <=> pc[t] = "ea_call"
    BY <1>7, InnerSteps
  <2>2. UNCHANGED mutex /\ pc[t] \in LibsmbSteps
    BY <1>7, InnerSteps
  <2>3. Inside(t) /\ Inside(t)'
    BY <2>1, <2>2 DEF Inside, InLibsmb, Goto, RequestInv, RequestTypes
  <2>4. Nested(t) <=> q \in {"ea_call", "ea_leave"}
    BY <2>1, <2>2 DEF Nested, LibsmbSteps
  <2>5. owner' = t /\ depth' = (IF q \in {"ea_call", "ea_leave"} THEN 2 ELSE 1) /\ owner = t
    BY <2>2, <2>3, <2>4, ExactAt DEF mutex
  <2>6. QED BY <2>1, <2>3, <2>5, ExactStep
<1>8. CASE UNCHANGED <<mutex, pc>>
  BY <1>8 DEF MutexExact, mutex, Inside, Nested, InLibsmb
<1>9. QED
  BY <1>1, <1>2, <1>3, <1>4, <1>5, <1>6, <1>7, <1>8 DEF Next, SessionDrops, vars, mutex

\* Until a reconnection after a failed echo is refused, or a switch of
\* NdpFindStart, a thread holds the plugin mutex exactly between an ENTER and
\* its LEAVE, and as often as it has entered: on the early returns, in the EA
\* helper that is called with the mutex held, after every other refusal, and
\* through lost and replaced sessions.
THEOREM MutexMatchedUntilRefused ==
    Init /\ [][Next /\ \A t \in Threads : ~RefusedWithoutLeave(t)]_vars
      => []MutexMatchesHandlers
<1> DEFINE IInv == RequestInv /\ SessionTypes /\ NothingReturns /\ MutexExact
           Step == Next /\ \A t \in Threads : ~RefusedWithoutLeave(t)
<1>1. Init => IInv
  BY RequestInit, SessionInit, NothingReturnsInit, ExactInit
<1>2. IInv /\ [Step]_vars => IInv'
  <2> SUFFICES ASSUME IInv, [Step]_vars PROVE IInv'
    OBVIOUS
  <2>1. [Next]_vars
    OBVIOUS
  <2>2. RequestInv' /\ SessionTypes' /\ MutexExact'
    BY <2>1, RequestNext, SessionNext, ExactNext
  <2>3. NothingReturns'
    <3>1. CASE UNCHANGED vars
      BY <3>1 DEF vars, NothingReturns
    <3>2. CASE Step
      BY <2>1, <3>2, NothingReturnsNext
    <3>3. QED BY <3>1, <3>2
  <2>4. QED BY <2>2, <2>3
<1>3. IInv => MutexMatchesHandlers
  BY BoundAssumption
     DEF RequestInv, RequestTypes, SessionTypes, MutexExact, MutexMatchesHandlers, TypeOK,
         Nested
<1>4. QED
  BY <1>1, <1>2, <1>3, PTL

\* So as long as no connection is refused the mutex matches the handlers.
THEOREM MutexMatched ==
    ASSUME MayRefuse = FALSE
    PROVE  Spec => []MutexMatchesHandlers
<1>1. [Next]_vars => [Next /\ \A t \in Threads : ~RefusedWithoutLeave(t)]_vars
  BY DEF RefusedWithoutLeave, ReopenRefused, ParseRefused
<1>2. QED BY <1>1, MutexMatchedUntilRefused, PTL DEF Spec

-------------------------------------------------------------------------------
(* A session that was disconnected is not used.                            *)

LocalState(t) == <<pc[t], op[t], conn[t], want[t]>>

\* A step of one thread leaves the others where they are.
LEMMA OthersStand ==
    ASSUME RequestInv, [Next]_vars, NEW t \in Threads
    PROVE  LocalState(t)' = LocalState(t)
             \/ Start(t) \/ Enter(t) \/ EnterNested(t) \/ Work(t)
<1> USE DEF RequestInv, RequestTypes, LocalState
<1>1. ASSUME NEW u \in Threads, u # t, Start(u) PROVE LocalState(t)' = LocalState(t)
  BY <1>1 DEF Start, RequestPath, RequestFile, RequestConnect, RequestFree, RequestAlloc,
              Request, Goto
<1>2. ASSUME NEW u \in Threads, u # t, GoesOn(u) PROVE LocalState(t)' = LocalState(t)
  <2>1. UNCHANGED <<op, conn, want>> /\ \E p \in Steps : pc' = [pc EXCEPT ![u] = p]
    BY <1>2, GoesOnFits DEF request, Goto
  <2>2. QED BY <2>1, <1>2
<1>3. ASSUME NEW u \in Threads, u # t, Leave(u) \/ LeaveToSetEa(u) \/ Return(u)
      PROVE  LocalState(t)' = LocalState(t)
  BY <1>3 DEF Leave, LeaveToSetEa, Return, Finish, Goto
<1>4. CASE UNCHANGED <<pc, op, conn, want>>
  BY <1>4
<1>5. QED
  BY <1>1, <1>2, <1>3, <1>4 DEF Next, GoesOn, SessionDrops, vars, request

\* The pointer dangles only between cli_shutdown and the new session.
FreedWhileRedialing ==
    \A c \in Conns : sess[c] = "freed" =>
        \E t \in Threads : conn[t] = c /\ pc[t] = "redial"

LEMMA FreedInit == Init => FreedWhileRedialing
  BY DEF Init, FreedWhileRedialing

\* The steps that leave a session freed.
LEMMA FreedSteps ==
    ASSUME RequestInv, SessionTypes, [Next]_vars, NEW c \in Conns, sess'[c] = "freed"
    PROVE  \/ sess[c] = "freed" /\ \A t \in Threads : Redial(t) => conn[t] # c
           \/ \E t \in Threads : Drop(t) /\ conn[t] = c
<1> USE DEF SessionTypes, RequestInv, RequestTypes
<1>1. \A t \in Threads : Redial(t) => conn[t] # c
  BY DEF Redial, Connected
<1>2. CASE UNCHANGED session
  BY <1>1, <1>2 DEF session
<1>3. ASSUME NEW t \in Threads, ParseSwitch(t) \/ Reopen(t) \/ Redial(t)
      PROVE  sess[c] = "freed"
  BY <1>3 DEF ParseSwitch, Reopen, Redial, Connected
<1>4. ASSUME NEW t \in Threads, Drop(t), conn[t] # c PROVE sess[c] = "freed"
  BY <1>4 DEF Drop
<1>5. ASSUME NEW t \in Threads, Shut(t) \/ CallOpen(t) \/ CallClose(t) \/ Connect(t)
      PROVE  sess[c] = "freed"
  BY <1>5 DEF Shut, CallOpen, CallClose, Connect
<1>6. ASSUME NEW d \in Conns, SessionDrops(d) PROVE sess[c] = "freed"
  BY <1>6 DEF SessionDrops
<1>7. QED
  BY <1>1, <1>2, <1>3, <1>4, <1>5, <1>6, SessionSteps DEF SessionStep

LEMMA FreedNext ==
    ASSUME RequestInv, SessionTypes, FreedWhileRedialing, [Next]_vars,
           \A t \in Threads : ~RedialRefused(t)
    PROVE  FreedWhileRedialing'
<1> SUFFICES ASSUME NEW c \in Conns, sess'[c] = "freed"
             PROVE  \E t \in Threads : conn'[t] = c /\ pc'[t] = "redial"
  BY DEF FreedWhileRedialing
<1>1. ASSUME NEW t \in Threads, Drop(t), conn[t] = c
      PROVE  conn'[t] = c /\ pc'[t] = "redial"
  BY <1>1 DEF Drop, request, Goto, RequestInv, RequestTypes
<1>2. ASSUME sess[c] = "freed", \A t \in Threads : Redial(t) => conn[t] # c
      PROVE  \E t \in Threads : conn'[t] = c /\ pc'[t] = "redial"
  <2>1. PICK t \in Threads : conn[t] = c /\ pc[t] = "redial"
    BY <1>2 DEF FreedWhileRedialing
  <2>2. ~Start(t) /\ ~Enter(t) /\ ~EnterNested(t)
    BY <2>1 DEF Start, RequestPath, RequestFile, RequestConnect, RequestFree, RequestAlloc,
                Request, Enter, EnterNested, At
  <2>3. ~Work(t)
    BY <1>2, <2>1 DEF Work, LeaveNested, Leave, LeaveToSetEa, Return, ParseSame, ParseSwitch,
      ParseRefused, EchoAnswered, EchoFailed, Reopen, ReopenRefused, Drop, RedialRefused,
      CallQuery, Retry, Upper, CallOnce, CallOpen, CallOpenFailed, CallNested, CallClose,
      Shut, Connect, ConnectRefused, TempConnect, TempRefused, TempUse, TempShut, At
  <2>4. LocalState(t)' = LocalState(t)
    BY <2>2, <2>3, OthersStand
  <2>5. QED BY <2>1, <2>4 DEF LocalState
<1>3. QED BY <1>1, <1>2, FreedSteps

\* Until the new connection after ERROR_REM_NOT_LIST is refused, no handler
\* hands a session to libsmb after cli_shutdown: the reconnection always comes
\* in between, whatever else is refused or drops.
THEOREM NotUsedUntilRedialRefused ==
    Init /\ [][Next /\ \A t \in Threads : ~RedialRefused(t)]_vars
      => []NoUseAfterDisconnect
<1> DEFINE IInv == RequestInv /\ SessionTypes /\ FreedWhileRedialing
           Step == Next /\ \A t \in Threads : ~RedialRefused(t)
<1>1. IInv /\ [Step]_vars => IInv'
  <2> SUFFICES ASSUME IInv, [Step]_vars PROVE IInv'
    OBVIOUS
  <2>1. [Next]_vars
    OBVIOUS
  <2>2. RequestInv' /\ SessionTypes'
    BY <2>1, RequestNext, SessionNext
  <2>3. FreedWhileRedialing'
    <3>1. CASE UNCHANGED vars
      BY <3>1 DEF vars, FreedWhileRedialing
    <3>2. CASE Step
      BY <2>1, <3>2, FreedNext
    <3>3. QED BY <3>1, <3>2
  <2>4. QED BY <2>2, <2>3
<1>2. RequestInv /\ FreedWhileRedialing => NoUseAfterDisconnect
  <2> SUFFICES ASSUME RequestInv, FreedWhileRedialing, NEW t \in Threads, UsesSession(t)
               PROVE  sess[conn[t]] # "freed"
    BY DEF NoUseAfterDisconnect
  <2>1. conn[t] \in Conns
    BY DEF UsesSession, RequestInv, StepsKnown, Fits, HasConn, PathOps
  <2>2. ASSUME sess[conn[t]] = "freed" PROVE FALSE
    <3>1. PICK u \in Threads : conn[u] = conn[t] /\ pc[u] = "redial"
      BY <2>1, <2>2 DEF FreedWhileRedialing
    <3>2. u = t
      BY <2>1, <3>1, NullAssumption DEF RequestInv, OneRequestEach
    <3>3. QED BY <3>1, <3>2 DEF UsesSession
  <2>3. QED BY <2>2
<1>3. Init => IInv
  BY RequestInit, SessionInit, FreedInit
<1>4. QED
  BY <1>1, <1>2, <1>3, PTL

\* So as long as no connection is refused no freed session is used.
THEOREM NotUsedAfterDisconnect ==
    ASSUME MayRefuse = FALSE
    PROVE  Spec => []NoUseAfterDisconnect
<1>1. [Next]_vars => [Next /\ \A t \in Threads : ~RedialRefused(t)]_vars
  BY DEF RedialRefused
<1>2. QED BY <1>1, NotUsedUntilRedialRefused, PTL DEF Spec

-------------------------------------------------------------------------------
(* With one connection, requests reach the share their paths name.         *)

OneConnection == \A c, d \in Conns : c = d

\* Steps of a path request after pathparser.
Parsed(t) == /\ op[t] \in PathOps
             /\ pc[t] \in {"echo", "reopen", "call", "drop", "redial", "retry", "upper"}

\* The Resource names the share of every session, and the share of every
\* request that has been parsed; the connection of a path request has a session.
ShareInv ==
    /\ \A c \in Conns : sess[c] # "none" => share[c] = res
    /\ \A t \in Threads : op[t] \in PathOps => sess[conn[t]] # "none"
    /\ PathNamesShare => \A t \in Threads : Parsed(t) => want[t] = res

LEMMA ShareInit == Init => ShareInv
  BY DEF Init, ShareInv, Parsed, PathOps

\* A session that begins to exist is connected to the share in the Resource.
LEMMA SharesFollow ==
    ASSUME OneConnection, RequestInv, SessionTypes, ShareInv, [Next]_vars
    PROVE  \A c \in Conns : sess'[c] # "none" => share'[c] = res'
<1> USE DEF SessionTypes, ShareInv, RequestInv, RequestTypes
<1>1. CASE UNCHANGED session
  BY <1>1 DEF session
<1>2. ASSUME NEW t \in Threads, ParseSwitch(t)
      PROVE  \A c \in Conns : share'[c] = res'
  <2>1. conn[t] \in Conns
    BY <1>2 DEF ParseSwitch, At, StepsKnown, Fits, HasConn, PathOps
  <2>2. QED BY <1>2, <2>1 DEF ParseSwitch, Connected, OneConnection
<1>3. ASSUME NEW t \in Threads, Reopen(t) \/ Redial(t) \/ Connect(t) \/ Drop(t) \/ Shut(t)
      PROVE  \A c \in Conns : sess'[c] # "none" => share'[c] = res'
  <2>1. CASE Reopen(t) \/ Redial(t)
    BY <2>1 DEF Reopen, Redial, Connected
  <2>2. CASE Connect(t)
    BY <2>2 DEF Connect
  <2>3. CASE Drop(t)
    <3>1. op[t] \in PathOps /\ conn[t] \in Conns
      BY <2>3 DEF Drop, At, StepsKnown, Fits, HasConn, PathOps
    <3>2. QED BY <2>3, <3>1 DEF Drop
  <2>4. CASE Shut(t)
    BY <2>4 DEF Shut
  <2>5. QED BY <1>3, <2>1, <2>2, <2>3, <2>4
<1>4. ASSUME NEW t \in Threads, CallOpen(t) \/ CallClose(t)
      PROVE  UNCHANGED <<sess, share, res>>
  BY <1>4 DEF CallOpen, CallClose
<1>5. ASSUME NEW c \in Conns, SessionDrops(c)
      PROVE  UNCHANGED <<share, res>> /\ sess' = [sess EXCEPT ![c] = "down"] /\ sess[c] = "up"
  BY <1>5 DEF SessionDrops
<1>6. QED
  BY <1>1, <1>2, <1>3, <1>4, <1>5, SessionSteps DEF SessionStep

\* Only the free of its own request takes a connection's session away.
LEMMA SessionsStay ==
    ASSUME RequestInv, SessionTypes, [Next]_vars, NEW c \in Conns,
           sess[c] # "none", sess'[c] = "none"
    PROVE  \E t \in Threads : pc[t] = "shut" /\ conn[t] = c /\ UNCHANGED request
<1> USE DEF SessionTypes
<1>1. ASSUME NEW t \in Threads, ParseSwitch(t) \/ Reopen(t) \/ Redial(t) \/ Connect(t) \/ Drop(t)
      PROVE  FALSE
  BY <1>1 DEF ParseSwitch, Reopen, Redial, Connect, Drop, Connected
<1>2. ASSUME NEW t \in Threads, CallOpen(t) \/ CallClose(t) PROVE FALSE
  BY <1>2 DEF CallOpen, CallClose
<1>3. ASSUME NEW d \in Conns, SessionDrops(d) PROVE FALSE
  BY <1>3 DEF SessionDrops
<1>4. ASSUME NEW t \in Threads, Shut(t) PROVE pc[t] = "shut" /\ conn[t] = c /\ UNCHANGED request
  BY <1>4 DEF Shut, At
<1>5. CASE UNCHANGED session
  BY <1>5 DEF session
<1>6. QED
  BY <1>1, <1>2, <1>3, <1>4, <1>5, SessionSteps DEF SessionStep

LEMMA PathsHaveSessions ==
    ASSUME RequestInv, SessionTypes, ShareInv, [Next]_vars, NEW t \in Threads,
           op'[t] \in PathOps
    PROVE  sess'[conn'[t]] # "none"
<1> USE DEF RequestInv, RequestTypes
<1>1. sess[conn'[t]] # "none" /\ conn'[t] \in Conns
  <2>1. CASE LocalState(t)' = LocalState(t)
    BY <2>1 DEF LocalState, ShareInv, StepsKnown, HasConn, PathOps
  <2>2. CASE Start(t)
    BY <2>2 DEF Start, RequestPath, RequestFile, RequestConnect, RequestFree, RequestAlloc,
                Request, Goto, PathOps, FileOps, EaOps
  <2>3. CASE GoesOn(t)
    <3>1. UNCHANGED <<op, conn>> /\ pc[t] # "idle"
      BY <2>3, GoesOnFits DEF request
    <3>2. QED BY <3>1 DEF ShareInv, StepsKnown, HasConn, PathOps
  <2>4. CASE Leave(t) \/ LeaveToSetEa(t) \/ Return(t)
    BY <2>4 DEF Leave, LeaveToSetEa, Return, Finish, Goto, PathOps
  <2>5. QED
    BY <2>1, <2>2, <2>3, <2>4, OthersStand DEF GoesOn
<1>2. ASSUME sess'[conn'[t]] = "none" PROVE FALSE
  <2>1. PICK u \in Threads : pc[u] = "shut" /\ conn[u] = conn'[t] /\ UNCHANGED request
    BY <1>1, <1>2, SessionsStay
  <2>2. u = t /\ op[u] = "free"
    BY <1>1, <2>1, NullAssumption DEF OneRequestEach, request, StepsKnown, Fits
  <2>3. QED BY <2>1, <2>2 DEF request, PathOps
<1>3. QED BY <1>2

\* A request that has been parsed wants the share in the Resource.
LEMMA ParsedWants ==
    ASSUME OneConnection, PathNamesShare, RequestInv, SessionTypes, ShareInv, [Next]_vars,
           NEW t \in Threads, Parsed(t)'
    PROVE  want'[t] = res'
<1> USE DEF RequestInv, RequestTypes
\* With one connection no other thread's request switches the share.
<1>1. ASSUME NEW u \in Threads, ParseSwitch(u) PROVE u = t
  <2>1. UNCHANGED request /\ conn[u] \in Conns
    BY <1>1 DEF ParseSwitch, At, StepsKnown, Fits, HasConn, PathOps
  <2>2. conn[t] \in Conns
    BY <2>1 DEF request, Parsed, StepsKnown, HasConn, PathOps
  <2>3. conn[t] = conn[u]
    BY <2>1, <2>2 DEF OneConnection
  <2>4. QED BY <2>1, <2>2, <2>3, NullAssumption DEF OneRequestEach
<1>2. ~ParseSwitch(t) => res' = res
  <2>1. ASSUME NEW u \in Threads, Reopen(u) \/ Drop(u) \/ Redial(u) \/ CallOpen(u) \/ CallClose(u)
                 \/ Shut(u) \/ Connect(u)
        PROVE  res' = res
    BY <2>1 DEF Reopen, Drop, Redial, CallOpen, CallClose, Shut, Connect
  <2>2. ASSUME NEW c \in Conns, SessionDrops(c) PROVE res' = res
    BY <2>2 DEF SessionDrops
  <2>3. QED
    BY <1>1, <2>1, <2>2, SessionSteps DEF SessionStep, session
<1>3. CASE LocalState(t)' = LocalState(t) /\ ~ParseSwitch(t)
  BY <1>2, <1>3 DEF LocalState, Parsed, ShareInv
<1>4. CASE ParseSwitch(t)
  BY <1>4 DEF ParseSwitch, request
<1>5. CASE ParseSame(t)
  BY <1>2, <1>5 DEF ParseSame, Switches, request, session
<1>6. CASE Start(t) \/ LeaveNested(t) \/ Leave(t) \/ LeaveToSetEa(t) \/ Return(t)
             \/ ParseRefused(t) \/ ReopenRefused(t) \/ Upper(t) \/ CallOnce(t) \/ CallOpen(t)
             \/ CallOpenFailed(t) \/ CallNested(t) \/ CallClose(t) \/ Shut(t) \/ Connect(t)
             \/ ConnectRefused(t) \/ TempConnect(t) \/ TempRefused(t) \/ TempUse(t)
             \/ TempShut(t) \/ EnterNested(t)
  <2>1. op'[t] \in PathOps => pc'[t] \notin {"echo", "reopen", "call", "drop", "redial",
                                              "retry", "upper"}
    BY <1>6 DEF Start, RequestPath, RequestFile, RequestConnect, RequestFree, RequestAlloc,
      Request, LeaveNested, Leave, LeaveToSetEa, Return, Finish, ParseRefused, ReopenRefused,
      Upper, CallOnce, CallOpen, CallOpenFailed, CallNested, CallClose, Shut, Connect,
      ConnectRefused, TempConnect, TempRefused, TempUse, TempShut, EnterNested, Goto, request,
      PathOps
  <2>2. QED BY <2>1 DEF Parsed
<1>7. CASE Enter(t)
  <2>1. op[t] \in PathOps => FirstSteps(t) \subseteq {"parse", "leave"}
    BY DEF FirstSteps, PathOps
  <2>2. QED BY <1>7, <2>1 DEF Enter, Goto, request, Parsed
<1>8. CASE EchoAnswered(t) \/ EchoFailed(t) \/ Reopen(t) \/ Drop(t) \/ Redial(t)
             \/ RedialRefused(t) \/ CallQuery(t) \/ Retry(t)
  <2>1. UNCHANGED request /\ Parsed(t)
    BY <1>8 DEF EchoAnswered, EchoFailed, Reopen, Drop, Redial, RedialRefused, CallQuery,
      Retry, At, Parsed, StepsKnown, Fits, request, PathOps
  <2>2. ~ParseSwitch(t)
    BY <2>1 DEF Parsed, ParseSwitch, At
  <2>3. QED BY <1>2, <2>1, <2>2 DEF ShareInv, request
<1>9. QED
  BY <1>3, <1>4, <1>5, <1>6, <1>7, <1>8, OthersStand DEF Work

\* A query, a listing or another path request reaches the share that its path
\* names, also after a switch was refused and after every reconnection, if the
\* Resource has a single connection.  (With two, the Resource follows the last
\* switch of either: see the finding.)
THEOREM ShareReached ==
    ASSUME OneConnection
    PROVE  Spec => []RightShare
<1>1. RequestInv /\ SessionTypes /\ ShareInv /\ [Next]_vars => ShareInv'
  BY SharesFollow, PathsHaveSessions, ParsedWants DEF ShareInv
<1>2. RequestInv /\ ShareInv => RightShare
  BY DEF RightShare, ShareInv, Parsed, RequestInv, StepsKnown, HasConn, PathOps
<1>3. QED
  BY <1>1, <1>2, ShareInit, RequestsHold, SessionsTyped, PTL DEF Spec

===============================================================================
