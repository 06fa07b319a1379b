------------------------------- MODULE QueryPath -------------------------------
(***************************************************************************)
(* What NdpQueryPathInfo answers: it asks the cache, then the server, with *)
(* one reconnection when the session turns out to be lost, and asks for    *)
(* the parent when the name is not found.  Between two calls the session   *)
(* may break and other clients change the server.                          *)
(*                                                                         *)
(* Result codes are those behind maperror.  (Session has the mutex and the *)
(* pointers of the same steps.)                                            *)
(***************************************************************************)
EXTENDS Naturals

CONSTANTS
    MaxLosses   \* bound: how often the session breaks in a request

ASSUME LossesAssumption == MaxLosses \in Nat

VARIABLES
    at,         \* where the request is
    deep,       \* the name has a parent other than the root
    node, parent, \* server: what the name and its parent are
    link,       \* the session is up
    nt,         \* its server has CAP_NT_SMBS
    rc,         \* the answer so far
    saw,        \* ghost: what the calls of this request met
    losses      \* ghost: how often the session broke in this request

queryVars == <<at, deep, node, parent, link, nt, rc, saw, losses>>
session == <<link, nt>>
server == <<node, parent, losses>>

Kinds == {"none", "file", "dir"}

\* A name is found only in a directory, and the root is one.
Consistent(n, p, d) == (n # "none" \/ ~d) => p = "dir"

QueryInit == /\ at = "idle" /\ deep \in BOOLEAN
             /\ node \in Kinds /\ parent \in Kinds /\ Consistent(node, parent, deep)
             /\ link = TRUE /\ nt \in BOOLEAN
             /\ rc = "NO_ERROR" /\ saw = {} /\ losses = 0

\* The request goes on at step a with result r, having met s.
Goes(a, r, s) == at' = a /\ rc' = r /\ saw' = saw \cup s

-------------------------------------------------------------------------------
(* Around the handler.                                                     *)

\* Other clients change what the name or its parent is.
OthersChange == /\ \E n, p \in Kinds : /\ Consistent(n, p, deep)
                                       /\ node' = n /\ parent' = p
                /\ UNCHANGED <<at, deep, session, rc, saw, losses>>

Break == /\ link /\ losses < MaxLosses
         /\ link' = FALSE
         /\ losses' = losses + 1
         /\ UNCHANGED <<at, deep, node, parent, nt, rc, saw>>

NextRequest == /\ at = "done"
               /\ at' = "idle" /\ rc' = "NO_ERROR" /\ saw' = {} /\ losses' = 0
               /\ UNCHANGED <<deep, node, parent, session>>

-------------------------------------------------------------------------------
(* The handler.                                                            *)

\* A wildcard is not looked up.
Wildcard == /\ at = "idle"
            /\ Goes("done", "FILE_NOT_FOUND", {"wildcard"})
            /\ UNCHANGED <<deep, session, server>>

\* A listing of at most 15 seconds has the name.
FromCache == /\ at = "idle"
             /\ Goes("done", "NO_ERROR", {"cached"})
             /\ UNCHANGED <<deep, session, server>>

\* A session that smbwrp_connect has set up.
NewSession == link' = TRUE /\ nt' \in BOOLEAN

\* pathparser; whatever smbwrp_connect returns becomes ERROR_PATH_NOT_FOUND.
Parse == /\ at = "idle"
         /\ \/ Goes("echo", "NO_ERROR", {}) /\ UNCHANGED session
            \/ Goes("echo", "NO_ERROR", {}) /\ NewSession      \* another share
            \/ Goes("done", "PATH_NOT_FOUND", {"refused"}) /\ UNCHANGED session
         /\ UNCHANGED <<deep, server>>

\* smbwrp_connect at one of its two places.
Connects(next, r, refused) ==
    \/ Goes(next, "NO_ERROR", {}) /\ NewSession
    \/ Goes(refused, r, {"refused"}) /\ link' = FALSE /\ UNCHANGED nt

\* Also a session that is only slow fails the echo, and is replaced.
Echo == /\ at = "echo"
        /\ \/ link /\ Goes("getattr", "NO_ERROR", {}) /\ UNCHANGED session
           \/ Connects("getattr", "PATH_NOT_FOUND", "done")
        /\ UNCHANGED <<deep, server>>

\* What the calls of smbwrp_getattr say of a name of kind k whose parent is of
\* kind p.  A broken session is ENOTCONN or another error.
Replies(k, p) ==
    IF ~link THEN {"REM_NOT_LIST", "NETWORK_ACCESS_DENIED"}
    ELSE {"ACCESS_DENIED", "READ_FAULT", "INVALID_PARAMETER"}
           \cup (IF k # "none" THEN {"NO_ERROR"}
                 ELSE IF p = "dir" THEN {"FILE_NOT_FOUND"}
                 ELSE {"FILE_NOT_FOUND", "PATH_NOT_FOUND"})

\* smbwrp_getattr returns: with CAP_NT_SMBS, EINVAL of the path queries becomes
\* ENOTDIR; without it, what cli_getatr has left in the session is passed on.
Getattr(r) == IF nt /\ r = "INVALID_PARAMETER" THEN "PATH_NOT_FOUND" ELSE r

\* What a reply tells of the server.
Met(r) == IF r = "NO_ERROR" THEN {"found"}
             ELSE IF r = "FILE_NOT_FOUND" THEN {"missing"}
             ELSE IF r = "PATH_NOT_FOUND" THEN {"noparent"}
             ELSE IF r = "REM_NOT_LIST" THEN {"lost"}
             ELSE IF r = "INVALID_PARAMETER"
                  THEN IF nt THEN {"invalid"} ELSE {"invalid_getatr"}
             ELSE {"failed"}

\* A path above the shares is always a directory.
NoShare == /\ at = "getattr"
           /\ Goes("done", "NO_ERROR", {"noshare"})
           /\ UNCHANGED <<deep, session, server>>

\* Codes that the host does not know of become ERROR_PATH_NOT_FOUND.
Reported(r) ==
    IF r \in {"NO_ERROR", "FILE_NOT_FOUND", "PATH_NOT_FOUND", "ACCESS_DENIED",
              "INVALID_PARAMETER", "REM_NOT_LIST"}
    THEN r ELSE "PATH_NOT_FOUND"

AfterGetattr(r) == IF Reported(r) = "FILE_NOT_FOUND" /\ deep THEN "upper" ELSE "done"

FirstLook ==
    /\ at = "getattr"
    /\ \E r \in Replies(node, parent) :
         IF r = "REM_NOT_LIST" THEN Goes("redial", r, {"lost"})
         ELSE Goes(AfterGetattr(Getattr(r)), Reported(Getattr(r)), Met(r))
    /\ UNCHANGED <<deep, session, server>>

Redial == /\ at = "redial"
          /\ Connects("again", "REM_NOT_LIST", "done")
          /\ UNCHANGED <<deep, server>>

SecondLook ==
    /\ at = "again"
    /\ \E r \in Replies(node, parent) :
         Goes(AfterGetattr(Getattr(r)), Reported(Getattr(r)), Met(r))
    /\ UNCHANGED <<deep, session, server>>

\* Mutant: the parent's attributes are not looked at.
UpperAnswerAny(r) ==
    IF r \in {"NO_ERROR"} THEN "FILE_NOT_FOUND"
    ELSE IF r = "REM_NOT_LIST" THEN r ELSE "PATH_NOT_FOUND"

\* The parent must be a directory; only a lost session is told.
UpperAnswer(r) ==
    IF r = "NO_ERROR" /\ parent = "dir" THEN "FILE_NOT_FOUND"
    ELSE IF r = "REM_NOT_LIST" THEN r ELSE "PATH_NOT_FOUND"

Upper ==
    /\ at = "upper"
    /\ \E r \in Replies(parent, "dir") :
         Goes("done", UpperAnswer(Getattr(r)),
              IF r = "NO_ERROR" THEN IF parent = "dir" THEN {"parent"} ELSE {"noparent"}
              ELSE IF r = "FILE_NOT_FOUND" THEN {"noparent"}
              ELSE IF r = "REM_NOT_LIST" THEN {"upperlost"} ELSE {"failed"})
    /\ UNCHANGED <<deep, session, server>>

QueryNext == \/ Wildcard \/ FromCache \/ Parse \/ Echo \/ NoShare \/ FirstLook
             \/ Redial \/ SecondLook \/ Upper
             \/ OthersChange \/ Break \/ NextRequest

QuerySpec == QueryInit /\ [][QueryNext]_queryVars

-------------------------------------------------------------------------------
(* Properties: what the comment above NdpQueryPathInfo says of its results. *)

\* NO_ERROR: the path was there.  ERROR_FILE_NOT_FOUND: it was not, and then
\* its parent was a directory.  ERROR_PATH_NOT_FOUND: its parent was not a
\* directory.  ERROR_REM_NOT_LIST: the server was lost, and a reconnection was
\* refused, or the new session was lost as well, or it was lost while the parent
\* was asked for, which is done once.  The deviations are named: a wildcard is
\* not looked up, and ERROR_PATH_NOT_FOUND also stands for refused connections,
\* for paths an NT server calls invalid and for all errors the host has no code
\* for.  The only other results are ERROR_ACCESS_DENIED, from the server itself,
\* and ERROR_INVALID_PARAMETER, for a path that a server without CAP_NT_SMBS
\* calls invalid when it is asked with cli_getatr: never from an NT server, and
\* never when only the parent was asked for.
AnswerAsDocumented ==
    at = "done" =>
        /\ rc \in {"NO_ERROR", "FILE_NOT_FOUND", "PATH_NOT_FOUND", "REM_NOT_LIST",
                   "ACCESS_DENIED", "INVALID_PARAMETER"}
        /\ rc = "NO_ERROR" => saw \cap {"found", "cached", "noshare"} # {}
        /\ rc = "FILE_NOT_FOUND" => \/ "wildcard" \in saw
                                    \/ "missing" \in saw /\ (deep => "parent" \in saw)
        /\ rc = "PATH_NOT_FOUND" =>
              saw \cap {"noparent", "refused", "invalid", "failed"} # {}
        /\ rc = "REM_NOT_LIST" => \/ "upperlost" \in saw
                                  \/ "lost" \in saw /\ ("refused" \in saw \/ losses >= 2)
        /\ rc = "INVALID_PARAMETER" => "invalid_getatr" \in saw /\ "missing" \notin saw
===============================================================================
