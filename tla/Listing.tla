-------------------------------- MODULE Listing --------------------------------
(***************************************************************************)
(* What NdpFindStart answers: smbwrp_filelist with its three enumerations  *)
(* and the two ways to list a directory (all at once over SMB1, entry by   *)
(* entry over SMB2), the directory cache in between, and the second        *)
(* attempt after a lost connection, which goes on with the host's list     *)
(* where the first one left it.                                            *)
(*                                                                         *)
(* The plugin mutex admits one request at a time, so there is one request  *)
(* here.  The cache is ListingCache, which DirCache implements.  A listing *)
(* is the set of its names; what a name's entry says is left out.          *)
(***************************************************************************)
EXTENDS ListingCache

CONSTANTS
    Names,      \* names of files, shares, servers and workgroups
    Dots,       \* the entries "." and "..", added by smbwrp_special_add
    Stripped,   \* names that smbwrp_share_add strips: IPC$ and print queues
    Protocols   \* of the session: subset of {"smb1", "smb2"}

ASSUME ListingsAssumption == Listings = SUBSET Names
ASSUME NamesAssumption == Dots \notin Names /\ Stripped \subseteq Names
ASSUME CapacityAssumption == Capacity \in Nat \ {0}

VARIABLES
    server,     \* what the server has in every place
    proto,      \* protocol of the session
    pc,         \* where the request is
    place,      \* the place it lists
    want,       \* names that fsphWildMatch and fsphAttrMatch accept
    attempt,    \* 1, or 2 after ERROR_REM_NOT_LIST
    fill,       \* the cache entry between write_begin and write_end
    todo,       \* entries the server has still to send, or the plugin to copy
    plist,      \* the host's list: how often a name was added
    result,     \* what NdpFindStart returned
    failed,     \* ghost: attempts of this request that a failed call ended
    lost        \* ghost: attempts that began a cache entry and never ended it

request == <<pc, place, want, attempt, fill, todo, plist, result, failed, lost>>
vars == <<cached, server, proto, request>>

-------------------------------------------------------------------------------
(* Data.                                                                   *)

\* What an empty workgroup, server or share in smbwrp_server stands for.
Enumerations == {"workgroups", "servers", "shares"}
Places == Dirs \cup Enumerations

\* A path that names a directory is not one of a workgroup, server or share.
ASSUME PlacesAssumption == Dirs \cap Enumerations = {}

AllNames == Names \cup {Dots}
NoFill == None

\* Only ENODEV and ENOTCONN become ERROR_REM_NOT_LIST.  OTHER stands for the
\* codes the host is just told.
Errors == {"REM_NOT_LIST", "OTHER"}
Results == Errors \cup {"none", "NO_ERROR"}

\* os2cli_errno(cli) where smbwrp_filelist found a negative result: what the last
\* call on cli left there.  smb2cli_query_directory takes the connection and
\* leaves nothing, nor does a failure within the plugin, and the last call may
\* be the cli_smb2_close_fnum that comes after the failure: it may be 0.
LeftInCli == Errors \cup {"NO_ERROR"}

Empty == [n \in AllNames |-> 0]

\* smbwrp_dir_add of every name of S: getfindinfoL adds those that match.
Added(S) ==
    [n \in AllNames |-> plist[n] + IF n \in S \cap want THEN 1 ELSE 0]

\* smbwrp_dir_add has no return statement.  In the build (-O0 or -O1, one object
\* file per source) its last act is the call of getfindinfoL, whose result stays
\* in the register: 1 when it added the entry, 0 when it did not.
FnStatus(n) == IF n \in want THEN 1 ELSE 0

\* Mutant: the test without NT_STATUS_WAIT_1.
GoesOnIfOk(status) == status = 0

\* list_files_smb2 goes on after NT_STATUS_OK (0) and NT_STATUS_WAIT_1 (1).
GoesOn(status) == status \in {0, 1}

-------------------------------------------------------------------------------
(* Leaving smbwrp_filelist.                                                *)

Again(r) == r = "REM_NOT_LIST" /\ attempt = 1

\* smbwrp_filelist returns r.  For ERROR_REM_NOT_LIST NdpFindStart disconnects,
\* connects, ignores whether it could, and calls again with the same list.
Finish(r) ==
    /\ IF Again(r)
       THEN /\ pc' = "call"
            /\ attempt' = 2
            /\ UNCHANGED result
       ELSE /\ pc' = "idle"
            /\ result' = r
            /\ UNCHANGED attempt
    /\ fill' = NoFill
    /\ todo' = {}
    /\ UNCHANGED <<place, want, server, proto>>

\* Mutant: a lost connection is tried again until the server answers, with an
\* empty list.
FailLoops(r) ==
    /\ IF r = "REM_NOT_LIST"
       THEN /\ pc' = "call" /\ plist' = Empty
            /\ fill' = NoFill /\ todo' = {}
            /\ UNCHANGED <<place, want, server, proto, attempt, result, failed>>
       ELSE Finish(r) /\ failed' = failed \cup {attempt} /\ UNCHANGED plist

\* A call failed, and smbwrp_filelist returns r.
Fail(r) == Finish(r) /\ failed' = failed \cup {attempt} /\ UNCHANGED plist

-------------------------------------------------------------------------------
(* The request.                                                            *)

Init ==
    /\ CacheInit
    /\ server = [p \in Places |-> IF p \in Dirs THEN {} ELSE Names]
    /\ proto \in Protocols
    /\ pc = "idle" /\ place = "workgroups" /\ want = {}
    /\ attempt = 1 /\ fill = NoFill /\ todo = {}
    /\ plist = Empty /\ result = "none" /\ failed = {} /\ lost = {}

\* NdpFindStart takes the mask from the path and lists the directory above it.
FindStart(p, w) ==
    /\ pc = "idle"
    /\ pc' = "call" /\ place' = p /\ want' = w
    /\ attempt' = 1 /\ plist' = Empty
    /\ result' = "none" /\ failed' = {} /\ lost' = {}
    /\ UNCHANGED <<cached, server, proto, fill, todo>>

\* pathparser fails, or the echo and then the reconnection do: the error is
\* returned at once.
Refused ==
    /\ pc = "call" /\ attempt = 1
    /\ Fail("OTHER")
    /\ UNCHANGED <<cached, lost>>

\* Mutant: the cached listing is delivered, but not told from a miss.
HitAndAsk ==
    /\ pc = "call" /\ place \in Dirs
    /\ cached[place] # None
    /\ plist' = Added(cached[place])
    /\ Forget({place})
    /\ pc' = "ask"
    /\ UNCHANGED <<place, want, server, proto, fill, todo, attempt, result,
                   failed, lost>>

\* dircache_list_files: the cache has a listing that is not expired.
Hit ==
    /\ pc = "call" /\ place \in Dirs
    /\ cached[place] # None
    /\ plist' = Added(cached[place])
    /\ Finish("NO_ERROR")
    /\ UNCHANGED <<cached, failed, lost>>

\* dircache_list_files: no listing, or one that expired and is removed.
Miss ==
    /\ pc = "call" /\ place \in Dirs
    /\ Forget({place})
    /\ pc' = "ask"
    /\ UNCHANGED <<server, proto, place, want, attempt, fill, todo, plist,
                   result, failed, lost>>

\* dircache_write_begin: evict when full, then an empty entry.
WriteBegin ==
    /\ IF Cardinality(Cached) >= Capacity
       THEN \E d \in Cached : Forget({d})
       ELSE UNCHANGED cached
    /\ fill' = {}

-------------------------------------------------------------------------------
(* list_files over SMB1.                                                   *)

\* cli_list_recv has the whole listing.
Receive ==
    /\ pc = "ask" /\ proto = "smb1"
    /\ WriteBegin
    /\ todo' = server[place]
    /\ pc' = "copy"
    /\ UNCHANGED <<server, proto, place, want, attempt, plist, result, failed,
                   lost>>

\* The loop over finfo, with the cache's copy, and dircache_write_end.
Copy ==
    /\ pc = "copy"
    /\ plist' = Added(todo)
    /\ Insert(place, fill \cup todo)
    /\ Finish("NO_ERROR")
    /\ UNCHANGED <<failed, lost>>

\* "fail" returns num_finfo, which is not initialised: read as an int it may
\* be negative, and smbwrp_filelist asks cli for the error, or not.
ReceiveFails ==
    /\ pc = "ask" /\ proto = "smb1"
    /\ \E r \in LeftInCli : Fail(r)
    /\ UNCHANGED <<cached, lost>>

-------------------------------------------------------------------------------
(* list_files_smb2.                                                        *)

Begin ==
    /\ pc = "ask" /\ proto = "smb2"
    /\ WriteBegin
    /\ pc' = "open"
    /\ UNCHANGED <<server, proto, place, want, attempt, todo, plist, result,
                   failed, lost>>

\* cli_smb2_create_fnum and map_fnum_to_smb2_handle.
Open ==
    /\ pc = "open"
    /\ todo' = server[place]
    /\ pc' = "query"
    /\ UNCHANGED <<cached, server, proto, place, want, attempt, fill, plist,
                   result, failed, lost>>

\* An entry of a batch: fn, then dircache_write_entry, then the test of the
\* status that fn has left.
Entry(n) ==
    /\ pc = "query" /\ n \in todo
    /\ plist' = Added({n})
    /\ fill' = fill \cup {n}
    /\ todo' = todo \ {n}
    /\ pc' = IF GoesOn(FnStatus(n)) THEN "query" ELSE "end"
    /\ UNCHANGED <<cached, server, proto, place, want, attempt, result, failed,
                   lost>>

AtEnd == pc = "end" \/ (pc = "query" /\ todo = {})

\* Mutant: a directory without a match is an empty one.
NothingMatched == fill \cap want = {}

\* processed_file is still false.
NothingProcessed == fill = {}

\* STATUS_NO_MORE_FILES, or a status the loops stop at: dircache_write_end.
\* NT_STATUS_NO_SUCH_FILE is negative, and smbwrp_filelist then asks cli.
End ==
    /\ AtEnd
    /\ Insert(place, fill)
    /\ \E r \in IF NothingProcessed THEN LeftInCli ELSE {"NO_ERROR"} : Finish(r)
    /\ UNCHANGED <<plist, failed, lost>>

\* Any other status, of the server or of the plugin: "fail" skips
\* dircache_write_end, the entry is leaked and what was delivered stays
\* delivered.  The status itself is dropped.
Smb2Fails ==
    /\ pc \in {"open", "query"}
    /\ \E r \in LeftInCli : Fail(r)
    /\ lost' = lost \cup {attempt}
    /\ UNCHANGED cached

-------------------------------------------------------------------------------
(* The enumerations: never cached.                                         *)

\* smbwrp_special_add of "." and "..".
Specials ==
    /\ pc = "call" /\ place \in Enumerations
    /\ plist' = Added({Dots})
    /\ pc' = "enum"
    /\ UNCHANGED <<cached, server, proto, place, want, attempt, fill, todo,
                   result, failed, lost>>

\* cli_NetServerEnum or net_share_enum_rpc or cli_RNetShareEnum calls
\* smbwrp_share_add for every name.
Enumerate ==
    /\ pc = "enum"
    /\ plist' = Added(server[place] \ Stripped)
    /\ Finish("NO_ERROR")
    /\ UNCHANGED <<cached, failed, lost>>

\* The result of cli_NetServerEnum is ignored.  That of net_share_enum_rpc is an
\* NTSTATUS: where Samba's headers make it unsigned it is never negative and is
\* ignored too, where not the host is told what cli_RNetShareEnum left in cli.
EnumFailureRead(p) == p = "shares"

EnumerateFails ==
    /\ pc = "enum"
    /\ \E r \in IF EnumFailureRead(place) THEN LeftInCli ELSE {"NO_ERROR"} :
          Fail(r)
    /\ UNCHANGED <<cached, lost>>

-------------------------------------------------------------------------------
(* The user changes a directory, and the handler invalidates its listing.  *)

Change(d, S) ==
    /\ pc = "idle"
    /\ server' = [server EXCEPT ![d] = S]
    /\ Forget({d})
    /\ plist' = Empty /\ result' = "none" /\ failed' = {} /\ lost' = {}
    /\ UNCHANGED <<proto, pc, place, want, attempt, fill, todo>>

-------------------------------------------------------------------------------
Work == \/ Refused \/ Hit \/ Miss
        \/ Receive \/ Copy \/ ReceiveFails
        \/ Begin \/ Open \/ End \/ Smb2Fails
        \/ \E n \in Names : Entry(n)
        \/ Specials \/ Enumerate \/ EnumerateFails

Next == \/ \E p \in Places, w \in SUBSET AllNames : FindStart(p, w)
        \/ \E d \in Dirs, S \in SUBSET Names : Change(d, S)
        \/ Work

\* libsmb calls return, with an error at worst.
Fairness == WF_vars(Work)

Spec == Init /\ [][Next]_vars /\ Fairness

-------------------------------------------------------------------------------
(* Properties.                                                             *)

\* The request, the cache and the server are well formed.
ListingTypeOK ==
    /\ cached \in [Dirs -> Listings \cup {None}]
    /\ server \in [Places -> SUBSET Names]
    /\ proto \in Protocols
    /\ pc \in {"idle", "call", "ask", "copy", "open", "query", "end", "enum"}
    /\ place \in Places /\ want \subseteq AllNames
    /\ attempt \in {1, 2}
    /\ fill \in Listings \cup {NoFill} /\ todo \subseteq Names
    /\ plist \in [AllNames -> 0 .. 2]
    /\ result \in Results
    /\ failed \subseteq {1, 2} /\ lost \subseteq {1, 2}

\* What the place has to offer a request that asks for names in want.
Expected == want \cap IF place \in Dirs THEN server[place]
                      ELSE {Dots} \cup (server[place] \ Stripped)

\* A call of the last attempt failed.
Failed == attempt \in failed

\* NdpFindStart's comment: "the directory cache saves complete directory
\* listings and then uses them to find information about single files".  A
\* listing that is in the cache is complete, although fn filters what it is
\* given and leaves its status to chance, and a listing may end half way.
CachedComplete ==
    /\ ListingTypeOK
    /\ \A d \in Dirs : cached[d] # None => cached[d] = server[d]

\* An answer without an error has every entry the mask asks for, unless a
\* failure was hidden (HiddenFailure says when).  No answer has what the
\* place and the mask do not have, nor a name twice, unless the list was asked
\* for again after ERROR_REM_NOT_LIST: what the first attempt delivered is not
\* taken back.
DeliversExpected ==
    /\ result = "NO_ERROR" /\ ~Failed => \A n \in Expected : plist[n] >= 1
    /\ \A n \in AllNames : plist[n] <= IF n \in Expected THEN attempt ELSE 0

\* A failed call that the host is told as success: an enumeration, or a directory
\* of which nothing is cached.  Over SMB1 the host then got nothing; over SMB2 it
\* may have got a part of the directory and cannot tell it from the whole.
HiddenFailure ==
    \/ place \in Enumerations
    \/ /\ place \in Dirs /\ cached[place] = None
       /\ proto = "smb1" => plist = Empty

\* An error without a failed call: only an empty directory, listed over SMB2,
\* and never from the cache, which answers the same question with success
\* afterwards.  A directory without a match is not an empty one.
EmptyReported ==
    place \in Dirs /\ proto = "smb2" /\ server[place] = {} /\ cached[place] # None

\* What the error smbwrp_filelist returns is worth.  A failed call may be told as
\* success, with the consequences above; an error is told for a failed call, and
\* for nothing else but an empty directory; and a cache entry is leaked only by
\* an attempt that failed: a listing that comes to its end, successful or not,
\* gives it to the cache.
FailuresAccounted ==
    /\ result = "NO_ERROR" /\ Failed => HiddenFailure
    /\ result \in Errors /\ ~Failed => EmptyReported
    /\ lost \subseteq failed

\* NdpFindStart returns: it asks a second time, not a third.
FindReturns == pc # "idle" ~> pc = "idle"
===============================================================================
