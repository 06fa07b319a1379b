----------------------------- MODULE ListingProofs -----------------------------
(***************************************************************************)
(* What NdpFindStart answers, for every set of directories and names,      *)
(* every capacity of the cache and both protocols.                         *)
(***************************************************************************)
EXTENDS Listing, TLAPS

-------------------------------------------------------------------------------
(* The inductive invariant.                                                *)

CachedAsServed == \A d \in Dirs : cached[d] # None => cached[d] = server[d]

\* A failed call ends its attempt, and no result is there before the last one
\* ends.
Attempts == /\ pc # "idle" => result = "none" /\ attempt \notin failed
            /\ failed \subseteq 1 .. attempt
            /\ lost \subseteq failed

\* Where the request is tells what it lists and over which protocol.  An entry is
\* never the last one because of the status that fn leaves.
Stages == /\ pc # "end"
          /\ pc \in {"ask", "copy", "open", "query"} => place \in Dirs
          /\ pc = "enum" => place \in Enumerations
          /\ pc \in {"open", "query"} => proto = "smb2"
          /\ pc = "copy" => proto = "smb1"

\* What the server still has to send and what it has sent is the directory.
Sent == /\ pc = "copy" => fill = {} /\ todo = server[place]
        /\ pc = "open" => fill = {}
        /\ pc = "query" => /\ fill \in SUBSET Names
                           /\ fill \cup todo = server[place]
                           /\ fill \cap todo = {}

\* The host may have got the name in this attempt.
Delivered(n) == \/ pc = "idle"
                \/ pc = "query" /\ n \in fill
                \/ pc = "enum" /\ n = Dots

AtMost == \A n \in AllNames :
             /\ n \notin Expected => plist[n] = 0
             /\ plist[n] <= IF Delivered(n) THEN attempt ELSE attempt - 1

AtLeast == /\ pc = "query" => \A n \in fill \cap want : plist[n] >= 1
           /\ pc = "enum" /\ Dots \in want => plist[Dots] >= 1

\* What is asked for is not in the cache.
NotCached == pc \in {"ask", "copy", "open", "query"} => cached[place] = None

\* A listing over SMB1 is delivered in one step, the last.
NothingYet == /\ NotCached
              /\ pc # "idle" /\ place \in Dirs /\ proto = "smb1" => plist = Empty

Answered == result = "NO_ERROR" /\ ~Failed => \A n \in Expected : plist[n] >= 1

ListingInv == /\ ListingTypeOK
              /\ CachedAsServed
              /\ Attempts
              /\ Stages
              /\ Sent
              /\ AtMost
              /\ AtLeast
              /\ NothingYet
              /\ Answered
              /\ FailuresAccounted

-------------------------------------------------------------------------------
(* Parts of a step.                                                        *)

LEMMA AddedValues ==
    ASSUME ListingTypeOK, NEW S
    PROVE  /\ Added(S) \in [AllNames -> Nat]
           /\ \A n \in AllNames : /\ plist[n] \in 0 .. 2
                                  /\ n \in S \cap want => Added(S)[n] = plist[n] + 1
                                  /\ n \notin S \cap want => Added(S)[n] = plist[n]
<1>1. \A n \in AllNames : plist[n] \in 0 .. 2
  BY DEF ListingTypeOK
<1>2. QED BY <1>1 DEF Added

LEMMA CountsBounded ==
    ASSUME attempt' \in {1, 2}, plist' \in [AllNames -> Nat], AtMost'
    PROVE  plist' \in [AllNames -> 0 .. 2]
<1>1. \A n \in AllNames : plist'[n] \in Nat /\ plist'[n] <= 2
  BY DEF AtMost
<1>2. QED BY <1>1

LEMMA ForgetKeeps ==
    ASSUME ListingTypeOK, CachedAsServed, NEW D, Forget(D),
           \A d \in Dirs \ D : server'[d] = server[d]
    PROVE  cached' \in [Dirs -> Listings \cup {None}] /\ CachedAsServed'
BY DEF ListingTypeOK, CachedAsServed, Forget

LEMMA InsertKeeps ==
    ASSUME ListingTypeOK, CachedAsServed, NEW d \in Dirs, Insert(d, server[d]),
           server' = server
    PROVE  /\ cached' \in [Dirs -> Listings \cup {None}] /\ CachedAsServed'
           /\ cached'[d] # None
<1>1. server[d] \in Listings
  BY ListingsAssumption DEF ListingTypeOK, Places
<1>2. QED
  BY <1>1, NoneAssumption DEF ListingTypeOK, CachedAsServed, Insert

\* Expected does not depend on what a request changes.
LEMMA SameExpected ==
    ASSUME place' = place, want' = want, server' = server
    PROVE  Expected' = Expected
BY DEF Expected

\* smbwrp_filelist returns without an error: the host has what it may have.
LEMMA DoneKeeps ==
    ASSUME ListingInv, pc # "idle", Finish("NO_ERROR"),
           failed' = failed, lost' = lost,
           cached' \in [Dirs -> Listings \cup {None}], CachedAsServed',
           plist' \in [AllNames -> Nat],
           \A n \in AllNames : /\ n \notin Expected => plist'[n] = 0
                               /\ plist'[n] <= attempt,
           \A n \in Expected : plist'[n] >= 1
    PROVE  ListingInv'
<1>1. /\ pc' = "idle" /\ result' = "NO_ERROR" /\ attempt' = attempt /\ fill' = NoFill
      /\ todo' = {} /\ UNCHANGED <<place, want, server, proto>>
  BY DEF Finish, Again
<1>2. Expected' = Expected
  BY <1>1, SameExpected
<1>3. ListingTypeOK /\ Attempts
  BY DEF ListingInv
<1>4. AtMost'
  BY <1>1, <1>2 DEF AtMost, Delivered
<1>5. attempt' \in {1, 2}
  BY <1>1, <1>3 DEF ListingTypeOK
<1>6. plist' \in [AllNames -> 0 .. 2]
  BY <1>4, <1>5, CountsBounded
<1>7. ListingTypeOK'
  BY <1>1, <1>3, <1>6 DEF ListingTypeOK, Results, NoFill
<1>8. Attempts'
  BY <1>1, <1>3 DEF Attempts, ListingTypeOK
<1>9. Stages' /\ Sent' /\ AtLeast' /\ NothingYet'
  BY <1>1 DEF Stages, Sent, AtLeast, NothingYet, NotCached
<1>10. ~Failed'
  BY <1>1, <1>3 DEF Failed, Attempts, ListingTypeOK
<1>11. Answered'
  BY <1>1, <1>2 DEF Answered
<1>12. FailuresAccounted'
  BY <1>1, <1>3, <1>10 DEF FailuresAccounted, Errors, Attempts
<1>13. QED
  BY <1>4, <1>7, <1>8, <1>9, <1>11, <1>12 DEF ListingInv

\* smbwrp_filelist returns what cli holds, after a failed call or for an empty
\* directory: the attempt ends, or the request.
LEMMA ErrorKeeps ==
    ASSUME ListingInv, pc # "idle", NEW r \in LeftInCli, Finish(r), plist' = plist,
           cached' \in [Dirs -> Listings \cup {None}], CachedAsServed',
           \/ /\ failed' = failed \cup {attempt} /\ lost' \in {lost, lost \cup {attempt}}
              /\ cached' = cached
              /\ r = "NO_ERROR" => HiddenFailure
           \/ /\ failed' = failed /\ lost' = lost /\ r # "NO_ERROR"
              /\ place \in Dirs /\ proto = "smb2"
              /\ server[place] = {} /\ cached'[place] # None
    PROVE  ListingInv'
<1>1. /\ plist' = plist /\ fill' = NoFill /\ todo' = {}
      /\ UNCHANGED <<place, want, server, proto>>
  BY DEF Finish
<1>2. \/ Again(r) /\ pc' = "call" /\ attempt' = 2 /\ result' = result /\ attempt = 1
      \/ pc' = "idle" /\ result' = r /\ attempt' = attempt
  BY DEF Finish, Again
<1>3. Expected' = Expected
  BY <1>1, SameExpected
<1>4. /\ ListingTypeOK /\ Attempts /\ CachedAsServed /\ AtMost /\ NothingYet
      /\ attempt \in {1, 2} /\ attempt \notin failed /\ result = "none"
      /\ failed \subseteq 1 .. attempt /\ lost \subseteq failed
  BY DEF ListingInv, Attempts, ListingTypeOK
<1>5. \A n \in AllNames : plist[n] \in 0 .. 2
  BY <1>4 DEF ListingTypeOK
<1>6. AtMost'
  <2>1. \A n \in AllNames : /\ n \notin Expected => plist[n] = 0
                            /\ plist[n] <= attempt
    BY <1>4, <1>5 DEF AtMost
  <2>2. \A n \in AllNames : plist[n] <= attempt' - 1 \/ (pc' = "idle" /\ plist[n] <= attempt')
    BY <1>2, <2>1
  <2>3. \A n \in AllNames : Delivered(n)' \/ plist[n] <= attempt' - 1
    BY <1>2, <2>2 DEF Delivered
  <2>4. attempt' \in {1, 2} /\ \A n \in AllNames : plist[n] <= attempt'
    BY <1>2, <1>4, <1>5, <2>1
  <2>5. QED
    BY <1>1, <1>3, <2>1, <2>3, <2>4 DEF AtMost
<1>7. /\ lost' \subseteq failed' /\ failed' \subseteq 1 .. attempt /\ attempt' \in {1, 2}
      /\ failed' \subseteq 1 .. attempt'
      /\ pc' # "idle" => attempt' \notin failed'
  <2>1. lost' \subseteq failed' /\ failed' \subseteq 1 .. attempt
    <3>1. attempt \in 1 .. attempt
      BY <1>4
    <3>2. QED
      BY <1>4, <3>1
  <2>2. attempt' \in {1, 2} /\ 1 .. attempt \subseteq 1 .. attempt'
    BY <1>2, <1>4
  <2>3. pc' # "idle" => attempt' \notin failed'
    BY <1>2, <2>1
  <2>4. QED
    BY <2>1, <2>2, <2>3
<1>8. ListingTypeOK'
  <2>1. failed' \subseteq {1, 2} /\ lost' \subseteq {1, 2}
    BY <1>4, <1>7
  <2>2. result' \in Results
    BY <1>2, <1>4 DEF Results, LeftInCli
  <2>3. QED
    BY <1>1, <1>2, <1>4, <1>7, <2>1, <2>2 DEF ListingTypeOK, NoFill
<1>9. Attempts'
  BY <1>2, <1>4, <1>7 DEF Attempts
<1>10. Stages' /\ Sent' /\ AtLeast' /\ NothingYet'
  BY <1>1, <1>2, <1>4 DEF Stages, Sent, AtLeast, NothingYet, NotCached, Empty
<1>11. pc' = "idle" => result' = r /\ (Failed' <=> failed' # failed)
  BY <1>2, <1>4 DEF Failed
<1>12. pc' # "idle" => result' = "none"
  BY <1>2, <1>4
<1>13. Answered'
  <2>1. r = "NO_ERROR" => failed' # failed
    BY <1>4
  <2>2. QED
    BY <1>11, <1>12, <2>1 DEF Answered
<1>14. FailuresAccounted'
  <2>1. CASE pc' = "idle" /\ failed' # failed
    <3>1. HiddenFailure /\ cached' = cached => HiddenFailure'
      BY <1>1 DEF HiddenFailure, Empty
    <3>2. QED
      BY <1>7, <1>11, <2>1, <3>1 DEF FailuresAccounted, Errors
  <2>2. CASE pc' = "idle" /\ failed' = failed
    <3>1. EmptyReported'
      BY <1>1, <1>4, <2>2 DEF EmptyReported
    <3>2. QED
      BY <1>7, <1>11, <2>2, <3>1 DEF FailuresAccounted, Errors
  <2>3. CASE pc' # "idle"
    BY <1>7, <1>12, <2>3 DEF FailuresAccounted, Errors
  <2>4. QED
    BY <2>1, <2>2, <2>3
<1>15. QED
  BY <1>6, <1>8, <1>9, <1>10, <1>13, <1>14 DEF ListingInv

\* A failed call, of which what is cached does not change.
LEMMA FailKeeps ==
    ASSUME ListingInv, pc # "idle", NEW r \in LeftInCli, Fail(r),
           cached' = cached, lost' \in {lost, lost \cup {attempt}},
           r = "NO_ERROR" => HiddenFailure
    PROVE  ListingInv'
<1>1. Finish(r) /\ plist' = plist /\ failed' = failed \cup {attempt}
  BY DEF Fail
<1>2. cached' \in [Dirs -> Listings \cup {None}] /\ CachedAsServed'
  BY DEF Fail, Finish, ListingInv, ListingTypeOK, CachedAsServed
<1>3. QED
  BY <1>1, <1>2, ErrorKeeps

\* A step within an attempt: the counters and the answer do not change.
LEMMA GoesOnKeeps ==
    ASSUME ListingInv, pc # "idle", pc' # "idle",
           UNCHANGED <<server, proto, place, want, attempt, result, failed, lost>>,
           cached' \in [Dirs -> Listings \cup {None}], CachedAsServed',
           pc' \in {"ask", "copy", "open", "query", "enum"},
           fill' \in Listings \cup {NoFill}, todo' \subseteq Names,
           plist' \in [AllNames -> Nat],
           Stages', Sent', AtMost', AtLeast', NothingYet'
    PROVE  ListingInv'
<1>1. ListingTypeOK /\ Attempts
  BY DEF ListingInv
<1>2. attempt' \in {1, 2}
  BY <1>1 DEF ListingTypeOK
<1>3. plist' \in [AllNames -> 0 .. 2]
  BY <1>2, CountsBounded
<1>4. ListingTypeOK'
  BY <1>1, <1>3 DEF ListingTypeOK
<1>5. Attempts' /\ result' = "none"
  BY <1>1 DEF Attempts
<1>6. Answered' /\ FailuresAccounted'
  BY <1>5 DEF Answered, FailuresAccounted, Errors, Attempts
<1>7. QED BY <1>4, <1>5, <1>6 DEF ListingInv

\* dircache_write_begin evicts a listing or none.
LEMMA WriteBeginKeeps ==
    ASSUME ListingTypeOK, CachedAsServed, WriteBegin, server' = server
    PROVE  /\ cached' \in [Dirs -> Listings \cup {None}] /\ CachedAsServed'
           /\ fill' = {} /\ fill' \in Listings
           /\ \A d \in Dirs : cached[d] = None => cached'[d] = None
<1>1. CASE cached' = cached
  BY <1>1, ListingsAssumption DEF WriteBegin, ListingTypeOK, CachedAsServed
<1>2. CASE \E d \in Cached : Forget({d})
  <2>1. \A d \in Dirs : cached[d] = None => cached'[d] = None
    BY <1>2 DEF Forget
  <2>2. QED
    BY <1>2, <2>1, ForgetKeeps, ListingsAssumption DEF WriteBegin
<1>3. QED BY <1>1, <1>2 DEF WriteBegin

LEMMA StartKeeps ==
    ASSUME ListingInv, NEW p \in Places, NEW w \in SUBSET AllNames, FindStart(p, w)
    PROVE  ListingInv'
<1>1. plist' = Empty /\ \A n \in AllNames : plist'[n] = 0
  BY DEF FindStart, Empty
<1>2. ListingTypeOK'
  BY <1>1 DEF ListingInv, ListingTypeOK, FindStart, Empty, Results
<1>3. Attempts' /\ Stages' /\ Sent' /\ AtLeast' /\ NothingYet' /\ Answered'
  BY <1>1 DEF FindStart, Attempts, Stages, Sent, AtLeast, NothingYet, NotCached, Empty, Answered
<1>4. AtMost'
  BY <1>1 DEF FindStart, AtMost
<1>5. CachedAsServed' /\ FailuresAccounted'
  BY DEF FindStart, ListingInv, CachedAsServed, FailuresAccounted, Errors
<1>6. QED BY <1>2, <1>3, <1>4, <1>5 DEF ListingInv

LEMMA ChangeKeeps ==
    ASSUME ListingInv, NEW d \in Dirs, NEW S \in SUBSET Names, Change(d, S)
    PROVE  ListingInv'
<1>1. plist' = Empty /\ \A n \in AllNames : plist'[n] = 0
  BY DEF Change, Empty
<1>2. server' \in [Places -> SUBSET Names] /\ \A c \in Dirs \ {d} : server'[c] = server[c]
  BY DEF ListingInv, ListingTypeOK, Change, Places
<1>3. cached' \in [Dirs -> Listings \cup {None}] /\ CachedAsServed'
  BY <1>2, ForgetKeeps DEF Change, ListingInv
<1>4. ListingTypeOK'
  BY <1>1, <1>2, <1>3 DEF ListingInv, ListingTypeOK, Change, Empty, Results
<1>5. Attempts' /\ Stages' /\ Sent' /\ AtLeast' /\ NothingYet' /\ Answered'
  BY <1>1 DEF Change, Attempts, Stages, Sent, AtLeast, NothingYet, NotCached, Empty, Answered,
              ListingInv, ListingTypeOK
<1>6. attempt' \in {1, 2}
  BY <1>4 DEF ListingTypeOK
<1>7. AtMost'
  BY <1>1, <1>6 DEF AtMost
<1>8. FailuresAccounted'
  BY DEF Change, FailuresAccounted, Errors
<1>9. QED BY <1>3, <1>4, <1>5, <1>7, <1>8 DEF ListingInv

\* What every step of a request may use.
LEMMA Facts ==
    ASSUME ListingInv
    PROVE  /\ ListingTypeOK /\ CachedAsServed /\ Attempts /\ Stages /\ Sent
           /\ AtMost /\ AtLeast /\ NothingYet
           /\ attempt \in {1, 2} /\ NoFill \in Listings \cup {NoFill}
           /\ \A n \in AllNames : plist[n] \in 0 .. 2 /\ plist[n] <= attempt
           /\ place \in Dirs => /\ Expected = want \cap server[place]
                                /\ server[place] \in SUBSET Names
           /\ place \in Enumerations
                 => /\ place \notin Dirs
                    /\ Expected = want \cap ({Dots} \cup (server[place] \ Stripped))
                    /\ server[place] \in SUBSET Names
<1>1. ListingTypeOK /\ AtMost /\ attempt \in {1, 2}
  BY DEF ListingInv, ListingTypeOK
<1>2. \A n \in AllNames : plist[n] \in 0 .. 2
  BY <1>1 DEF ListingTypeOK
<1>3. \A n \in AllNames : plist[n] <= attempt
  BY <1>1, <1>2 DEF AtMost
<1>4. place \in Enumerations => place \notin Dirs
  BY PlacesAssumption
<1>5. server[place] \in SUBSET Names
  BY <1>1 DEF ListingTypeOK
<1>6. QED
  BY <1>1, <1>2, <1>3, <1>4, <1>5 DEF ListingInv, Expected

\* dircache_list_files.
LEMMA CacheKeeps ==
    ASSUME ListingInv, Hit \/ Miss
    PROVE  ListingInv'
<1> USE Facts
<1>1. CASE Hit
  <2>1. pc # "idle" /\ Finish("NO_ERROR") /\ place \in Dirs /\ cached' = cached
        /\ plist' = Added(server[place])
    BY <1>1 DEF Hit, CachedAsServed
  <2>2. /\ plist' \in [AllNames -> Nat]
        /\ \A n \in AllNames : /\ n \in Expected => plist'[n] = plist[n] + 1
                               /\ n \notin Expected => plist'[n] = plist[n]
    BY <2>1, AddedValues
  <2>3. \A n \in AllNames : plist[n] <= attempt - 1
    BY <1>1 DEF Hit, AtMost, Delivered
  <2>4. \A n \in AllNames : /\ n \notin Expected => plist'[n] = 0
                            /\ plist'[n] <= attempt
    BY <2>2, <2>3 DEF AtMost
  <2>5. \A n \in Expected : n \in AllNames /\ plist'[n] >= 1
    BY <2>1, <2>2 DEF AllNames
  <2>6. cached' \in [Dirs -> Listings \cup {None}] /\ CachedAsServed'
    BY <1>1, <2>1 DEF Hit, Finish, ListingTypeOK, CachedAsServed
  <2>7. failed' = failed /\ lost' = lost
    BY <1>1 DEF Hit
  <2>8. QED
    BY <2>1, <2>2, <2>4, <2>5, <2>6, <2>7, DoneKeeps
<1>2. CASE Miss
  <2>1. cached' \in [Dirs -> Listings \cup {None}] /\ CachedAsServed'
    BY <1>2, ForgetKeeps DEF Miss
  <2>2. Stages' /\ Sent' /\ AtLeast' /\ NothingYet'
    <3>1. place \in Dirs /\ place' = place /\ cached'[place] = None
      BY <1>2 DEF Miss, Forget
    <3>2. QED
      BY <1>2, <3>1 DEF Miss, Stages, Sent, AtLeast, NothingYet, NotCached, Empty
  <2>3. Expected' = Expected
    BY <1>2, SameExpected DEF Miss
  <2>4. AtMost'
    BY <1>2, <2>3 DEF Miss, AtMost, Delivered
  <2>5. plist' \in [AllNames -> Nat] /\ fill' \in Listings \cup {NoFill} /\ todo' \subseteq Names
    BY <1>2 DEF Miss, ListingTypeOK
  <2>6. QED
    BY <1>2, <2>1, <2>2, <2>4, <2>5, GoesOnKeeps DEF Miss
<1>3. QED BY <1>1, <1>2

\* list_files over SMB1.
LEMMA Smb1Keeps ==
    ASSUME ListingInv, Receive \/ Copy \/ ReceiveFails
    PROVE  ListingInv'
<1> USE Facts
<1>1. CASE Receive
  <2>1. /\ cached' \in [Dirs -> Listings \cup {None}] /\ CachedAsServed'
        /\ fill' = {} /\ fill' \in Listings
        /\ \A d \in Dirs : cached[d] = None => cached'[d] = None
    BY <1>1, WriteBeginKeeps DEF Receive
  <2>2. place \in Dirs
    BY <1>1 DEF Receive, Stages
  <2>3. Stages' /\ Sent' /\ AtLeast' /\ NothingYet'
    <3>1. cached'[place'] = None
      BY <1>1, <2>1, <2>2 DEF Receive, NothingYet, NotCached
    <3>2. QED
      BY <1>1, <2>1, <2>2, <3>1
         DEF Receive, Stages, Sent, AtLeast, NothingYet, NotCached, Empty
  <2>4. Expected' = Expected
    BY <1>1, SameExpected DEF Receive
  <2>5. AtMost'
    BY <1>1, <2>4 DEF Receive, AtMost, Delivered
  <2>6. plist' \in [AllNames -> Nat] /\ todo' \subseteq Names
    BY <1>1, <2>2 DEF Receive, ListingTypeOK
  <2>7. QED
    BY <1>1, <2>1, <2>3, <2>5, <2>6, GoesOnKeeps DEF Receive
<1>2. CASE Copy
  <2>1. /\ pc # "idle" /\ Finish("NO_ERROR") /\ place \in Dirs
        /\ fill \cup todo = server[place]
        /\ plist' = Added(server[place]) /\ server' = server
    BY <1>2 DEF Copy, Stages, Sent, Finish
  <2>2. /\ plist' \in [AllNames -> Nat]
        /\ \A n \in AllNames : /\ n \in Expected => plist'[n] = plist[n] + 1
                               /\ n \notin Expected => plist'[n] = plist[n]
    BY <2>1, AddedValues
  <2>3. \A n \in AllNames : plist[n] <= attempt - 1
    BY <1>2 DEF Copy, AtMost, Delivered
  <2>4. \A n \in AllNames : /\ n \notin Expected => plist'[n] = 0
                            /\ plist'[n] <= attempt
    BY <2>2, <2>3 DEF AtMost
  <2>5. \A n \in Expected : n \in AllNames /\ plist'[n] >= 1
    BY <2>1, <2>2 DEF AllNames
  <2>6. cached' \in [Dirs -> Listings \cup {None}] /\ CachedAsServed'
    BY <1>2, <2>1, InsertKeeps DEF Copy
  <2>7. failed' = failed /\ lost' = lost
    BY <1>2 DEF Copy
  <2>8. QED
    BY <2>1, <2>2, <2>4, <2>5, <2>6, <2>7, DoneKeeps
<1>3. CASE ReceiveFails
  <2>1. PICK r \in LeftInCli : Fail(r)
    BY <1>3 DEF ReceiveFails
  <2>2. HiddenFailure
    BY <1>3 DEF ReceiveFails, Stages, NothingYet, NotCached, HiddenFailure
  <2>3. pc # "idle" /\ cached' = cached /\ lost' = lost
    BY <1>3 DEF ReceiveFails
  <2>4. QED
    BY <2>1, <2>2, <2>3, FailKeeps
<1>4. QED BY <1>1, <1>2, <1>3

\* list_files_smb2.
LEMMA Smb2Keeps ==
    ASSUME ListingInv, Begin \/ Open \/ (\E n \in Names : Entry(n)) \/ End \/ Smb2Fails
    PROVE  ListingInv'
<1> USE Facts
<1>1. CASE Begin
  <2>1. /\ cached' \in [Dirs -> Listings \cup {None}] /\ CachedAsServed'
        /\ fill' = {} /\ fill' \in Listings
        /\ \A d \in Dirs : cached[d] = None => cached'[d] = None
    BY <1>1, WriteBeginKeeps DEF Begin
  <2>2. Stages' /\ Sent' /\ AtLeast' /\ NothingYet'
    <3>1. cached'[place'] = None
      BY <1>1, <2>1 DEF Begin, NothingYet, NotCached, Stages
    <3>2. QED
      BY <1>1, <2>1, <3>1 DEF Begin, Stages, Sent, AtLeast, NothingYet, NotCached, Empty
  <2>3. Expected' = Expected
    BY <1>1, SameExpected DEF Begin
  <2>4. AtMost'
    BY <1>1, <2>3 DEF Begin, AtMost, Delivered
  <2>5. plist' \in [AllNames -> Nat] /\ todo' \subseteq Names
    BY <1>1 DEF Begin, ListingTypeOK
  <2>6. QED
    BY <1>1, <2>1, <2>2, <2>4, <2>5, GoesOnKeeps DEF Begin
<1>2. CASE Open
  <2>1. place \in Dirs /\ proto = "smb2" /\ fill = {}
    BY <1>2 DEF Open, Stages, Sent
  <2>2. Stages' /\ Sent' /\ AtLeast' /\ NothingYet'
    BY <1>2, <2>1 DEF Open, Stages, Sent, AtLeast, NothingYet, NotCached, Empty
  <2>3. Expected' = Expected
    BY <1>2, SameExpected DEF Open
  <2>4. AtMost'
    BY <1>2, <2>1, <2>3 DEF Open, AtMost, Delivered
  <2>5. /\ plist' \in [AllNames -> Nat] /\ todo' \subseteq Names
        /\ fill' \in Listings \cup {NoFill}
        /\ cached' \in [Dirs -> Listings \cup {None}] /\ CachedAsServed'
    BY <1>2, <2>1 DEF Open, ListingTypeOK, CachedAsServed
  <2>6. QED
    BY <1>2, <2>2, <2>4, <2>5, GoesOnKeeps DEF Open
<1>3. ASSUME NEW m \in Names, Entry(m) PROVE ListingInv'
  <2>1. /\ pc' = "query" /\ pc = "query" /\ m \in todo /\ fill' = fill \cup {m}
        /\ todo' = todo \ {m} /\ plist' = Added({m})
        /\ UNCHANGED <<cached, server, proto, place, want, attempt, result, failed,
                       lost>>
    BY <1>3 DEF Entry, GoesOn, FnStatus
  <2>2. /\ place \in Dirs /\ proto = "smb2" /\ fill \in SUBSET Names
        /\ fill \cup todo = server[place] /\ fill \cap todo = {}
    BY <2>1 DEF Stages, Sent
  <2>3. /\ plist' \in [AllNames -> Nat]
        /\ \A n \in AllNames : /\ n \in {m} \cap want => plist'[n] = plist[n] + 1
                               /\ n \notin {m} \cap want => plist'[n] = plist[n]
    BY <2>1, AddedValues
  <2>4. Stages' /\ Sent' /\ NothingYet'
    BY <2>1, <2>2 DEF Stages, Sent, NothingYet, NotCached, Empty
  <2>5. AtLeast'
    <3>1. ASSUME NEW n \in (fill \cup {m}) \cap want PROVE plist'[n] >= 1
      <4>1. n \in AllNames /\ plist[n] \in Nat
        BY <2>1, <2>2, <3>1 DEF AllNames
      <4>2. n # m => plist[n] >= 1
        BY <2>1, <3>1 DEF AtLeast
      <4>3. QED
        BY <2>3, <3>1, <4>1, <4>2
    <3>2. QED
      BY <2>1, <3>1 DEF AtLeast
  <2>6. Expected' = Expected
    BY <2>1, SameExpected
  <2>7. AtMost'
    <3>1. ASSUME NEW n \in AllNames, n \in {m} \cap want
          PROVE  n \in Expected /\ plist'[n] <= attempt /\ Delivered(n)'
      <4>1. n \notin fill /\ n \in Expected
        BY <2>1, <2>2, <3>1
      <4>2. plist[n] <= attempt - 1
        BY <2>1, <4>1 DEF AtMost, Delivered
      <4>3. plist'[n] <= attempt
        <5>1. plist'[n] = plist[n] + 1 /\ plist[n] \in Nat
          BY <2>3, <3>1
        <5>2. QED
          BY <4>2, <5>1
      <4>4. Delivered(n)'
        BY <2>1, <3>1 DEF Delivered
      <4>5. QED
        BY <4>1, <4>3, <4>4
    <3>2. ASSUME NEW n \in AllNames, n \notin {m} \cap want
          PROVE  /\ n \notin Expected => plist'[n] = 0
                 /\ plist'[n] <= IF Delivered(n)' THEN attempt ELSE attempt - 1
      <4>1. plist'[n] = plist[n] /\ (Delivered(n) => Delivered(n)')
        BY <2>1, <2>3, <3>2 DEF Delivered
      <4>2. plist[n] <= attempt /\ (~Delivered(n) => plist[n] <= attempt - 1)
        BY DEF AtMost
      <4>3. QED
        BY <4>1, <4>2 DEF AtMost
    <3>3. QED
      BY <2>1, <2>6, <3>1, <3>2 DEF AtMost, AllNames
  <2>8. /\ fill' \in Listings \cup {NoFill} /\ todo' \subseteq Names
        /\ cached' \in [Dirs -> Listings \cup {None}] /\ CachedAsServed'
    BY <2>1, <2>2, ListingsAssumption DEF ListingTypeOK, CachedAsServed
  <2>9. QED
    BY <2>1, <2>3, <2>4, <2>5, <2>7, <2>8, GoesOnKeeps
<1>4. CASE End
  <2>1. pc = "query" /\ todo = {} /\ failed' = failed /\ lost' = lost
    BY <1>4 DEF End, AtEnd, Stages
  <2>2. place \in Dirs /\ proto = "smb2" /\ fill = server[place]
    BY <2>1 DEF Stages, Sent
  <2>3. PICK r \in LeftInCli : Finish(r) /\ (r = "NO_ERROR" \/ fill = {})
    BY <1>4 DEF End, NothingProcessed, LeftInCli
  <2>4. plist' = plist /\ server' = server
    BY <1>4 DEF End, Finish
  <2>5. /\ cached' \in [Dirs -> Listings \cup {None}] /\ CachedAsServed'
        /\ cached'[place] # None
    BY <1>4, <2>2, <2>4, InsertKeeps DEF End
  <2>6. plist' \in [AllNames -> Nat]
    BY <2>4 DEF ListingTypeOK
  <2>7. \A n \in AllNames : /\ n \notin Expected => plist'[n] = 0
                            /\ plist'[n] <= attempt
    BY <2>4 DEF AtMost
  <2>8. \A n \in Expected : plist'[n] >= 1
    BY <2>1, <2>2, <2>4 DEF AtLeast
  <2>9. CASE r = "NO_ERROR"
    BY <2>1, <2>3, <2>5, <2>6, <2>7, <2>8, <2>9, DoneKeeps
  <2>10. CASE r # "NO_ERROR"
    BY <2>1, <2>2, <2>3, <2>4, <2>5, <2>10, ErrorKeeps
  <2>11. QED
    BY <2>9, <2>10
<1>5. CASE Smb2Fails
  <2>1. PICK r \in LeftInCli : Fail(r)
    BY <1>5 DEF Smb2Fails
  <2>2. pc # "idle" /\ cached' = cached /\ lost' \in {lost, lost \cup {attempt}}
    BY <1>5 DEF Smb2Fails
  <2>3. HiddenFailure
    BY <1>5 DEF Smb2Fails, Stages, NothingYet, NotCached, HiddenFailure
  <2>4. QED
    BY <2>1, <2>2, <2>3, FailKeeps
<1>6. QED BY <1>1, <1>2, <1>3, <1>4, <1>5

\* The enumerations.
LEMMA EnumerationKeeps ==
    ASSUME ListingInv, Refused \/ Specials \/ Enumerate \/ EnumerateFails
    PROVE  ListingInv'
<1> USE Facts
<1>1. CASE Refused
  <2>1. /\ pc # "idle" /\ Fail("OTHER") /\ cached' = cached /\ lost' = lost
        /\ "OTHER" \in LeftInCli /\ "OTHER" # "NO_ERROR"
    BY <1>1 DEF Refused, LeftInCli, Errors
  <2>2. QED
    BY <2>1, FailKeeps
<1>2. CASE Specials
  <2>1. /\ pc = "call" /\ pc' = "enum" /\ place \in Enumerations /\ plist' = Added({Dots})
        /\ UNCHANGED <<cached, server, proto, place, want, attempt, fill, todo, result,
                       failed, lost>>
    BY <1>2 DEF Specials
  <2>2. /\ plist' \in [AllNames -> Nat]
        /\ \A n \in AllNames : /\ n \in {Dots} \cap want => plist'[n] = plist[n] + 1
                               /\ n \notin {Dots} \cap want => plist'[n] = plist[n]
    BY <2>1, AddedValues
  <2>3. place \notin Dirs /\ Expected = want \cap ({Dots} \cup (server[place] \ Stripped))
    BY <2>1
  <2>4. Stages' /\ Sent' /\ NothingYet'
    BY <2>1, <2>3 DEF Stages, Sent, NothingYet, NotCached, Empty
  <2>5. AtLeast'
    <3>1. Dots \in want => plist'[Dots] = plist[Dots] + 1 /\ plist[Dots] \in Nat
      BY <2>2 DEF AllNames
    <3>2. Dots \in want => plist'[Dots] >= 1
      BY <3>1
    <3>3. QED
      BY <2>1, <3>2 DEF AtLeast
  <2>6. Expected' = Expected
    BY <2>1, SameExpected
  <2>7. AtMost'
    <3>1. \A n \in AllNames : plist[n] \in Nat /\ plist[n] <= attempt - 1
      BY <2>1 DEF AtMost, Delivered
    <3>2. \A n \in AllNames : Delivered(n)' <=> n = Dots
      BY <2>1 DEF Delivered
    <3>3. ASSUME NEW n \in AllNames
          PROVE  /\ n \notin Expected => plist'[n] = 0
                 /\ plist'[n] <= IF Delivered(n)' THEN attempt ELSE attempt - 1
      <4>1. CASE n \in {Dots} \cap want
        BY <2>2, <2>3, <3>1, <3>2, <4>1
      <4>2. CASE n \notin {Dots} \cap want
        BY <2>2, <3>1, <4>2 DEF AtMost
      <4>3. QED BY <4>1, <4>2
    <3>4. QED
      BY <2>1, <2>6, <3>3 DEF AtMost
  <2>8. /\ fill' \in Listings \cup {NoFill} /\ todo' \subseteq Names
        /\ cached' \in [Dirs -> Listings \cup {None}] /\ CachedAsServed'
    BY <2>1 DEF ListingTypeOK, CachedAsServed
  <2>9. QED
    BY <2>1, <2>2, <2>4, <2>5, <2>7, <2>8, GoesOnKeeps
<1>3. CASE Enumerate
  <2>1. /\ pc = "enum" /\ Finish("NO_ERROR") /\ cached' = cached /\ server' = server
        /\ plist' = Added(server[place] \ Stripped) /\ failed' = failed /\ lost' = lost
    BY <1>3 DEF Enumerate, Finish
  <2>2. /\ place \in Enumerations /\ server[place] \in SUBSET Names
        /\ Expected = want \cap ({Dots} \cup (server[place] \ Stripped))
    BY <2>1 DEF Stages
  <2>3. /\ plist' \in [AllNames -> Nat]
        /\ \A n \in AllNames :
              /\ n \in (server[place] \ Stripped) \cap want => plist'[n] = plist[n] + 1
              /\ n \notin (server[place] \ Stripped) \cap want => plist'[n] = plist[n]
    BY <2>1, AddedValues
  <2>4. ASSUME NEW n \in AllNames
        PROVE  /\ n \notin Expected => plist'[n] = 0
               /\ plist'[n] <= attempt
               /\ n \in Expected => plist'[n] >= 1
    <3>1. plist[n] \in Nat /\ plist[n] <= attempt
      OBVIOUS
    <3>2. CASE n \in (server[place] \ Stripped) \cap want
      <4>1. n # Dots /\ n \in Expected
        BY <2>2, <3>2, NamesAssumption
      <4>2. plist[n] <= attempt - 1
        BY <2>1, <4>1 DEF AtMost, Delivered
      <4>3. QED
        BY <2>3, <3>1, <3>2, <4>1, <4>2
    <3>3. CASE n \notin (server[place] \ Stripped) \cap want
      <4>1. plist'[n] = plist[n] /\ (n \notin Expected => plist[n] = 0)
        BY <2>3, <3>3 DEF AtMost
      <4>2. n \in Expected => plist[n] >= 1
        BY <2>1, <2>2, <3>3 DEF AtLeast
      <4>3. QED
        BY <3>1, <4>1, <4>2
    <3>4. QED BY <3>2, <3>3
  <2>5. cached' \in [Dirs -> Listings \cup {None}] /\ CachedAsServed'
    BY <2>1 DEF ListingTypeOK, CachedAsServed
  <2>6. \A n \in Expected : n \in AllNames
    BY <2>2 DEF AllNames
  <2>7. QED
    BY <2>1, <2>3, <2>4, <2>5, <2>6, DoneKeeps
<1>4. CASE EnumerateFails
  <2>1. PICK r \in LeftInCli : Fail(r)
    BY <1>4 DEF EnumerateFails, LeftInCli
  <2>2. pc = "enum" /\ cached' = cached /\ lost' = lost
    BY <1>4 DEF EnumerateFails
  <2>3. HiddenFailure
    BY <2>2 DEF HiddenFailure, Stages
  <2>4. QED
    BY <2>1, <2>2, <2>3, FailKeeps
<1>5. QED BY <1>1, <1>2, <1>3, <1>4

-------------------------------------------------------------------------------
(* The theorems.                                                           *)

LEMMA ListingInit == Init => ListingInv
<1> SUFFICES ASSUME Init PROVE ListingInv
  OBVIOUS
<1>1. \A n \in AllNames : plist[n] = 0
  BY DEF Init, Empty
<1>2. ListingTypeOK
  BY DEF Init, CacheInit, ListingTypeOK, Places, Enumerations, Empty, Results, NoFill
<1>3. QED
  BY <1>1, <1>2
     DEF Init, CacheInit, ListingInv, CachedAsServed, Attempts, Stages, Sent, AtMost,
         AtLeast, NothingYet, NotCached, Answered, FailuresAccounted, Errors

LEMMA ListingNext == ListingInv /\ [Next]_vars => ListingInv'
<1> SUFFICES ASSUME ListingInv, [Next]_vars PROVE ListingInv'
  OBVIOUS
<1>1. CASE UNCHANGED vars
  BY <1>1 DEF vars, request, ListingInv, ListingTypeOK, CachedAsServed, Attempts, Stages,
              Sent, AtMost, AtLeast, NothingYet, NotCached, Answered, FailuresAccounted, Expected,
              Delivered, Failed, HiddenFailure, EmptyReported, Empty, Errors
<1>2. CASE Work
  BY <1>2, CacheKeeps, Smb1Keeps, Smb2Keeps, EnumerationKeeps DEF Work
<1>3. QED
  BY <1>1, <1>2, StartKeeps, ChangeKeeps DEF Next

LEMMA ListingHolds == Spec => []ListingInv
BY ListingInit, ListingNext, PTL DEF Spec

\* NdpFindStart and dircache_write_end: no listing is in the cache that is not
\* the whole directory.
THEOREM CacheIsComplete == Spec => []CachedComplete
<1>1. ListingInv => CachedComplete
  BY DEF ListingInv, CachedAsServed, CachedComplete
<1>2. QED BY <1>1, ListingHolds, PTL

\* smbwrp_filelist: the host gets what the mask asks for, all of it and nothing
\* else, once per attempt.
THEOREM RightNames == Spec => []DeliversExpected
<1>1. ASSUME ListingInv PROVE DeliversExpected
  <2>1. \A n \in AllNames : plist[n] <= IF n \in Expected THEN attempt ELSE 0
    <3>1. \A n \in AllNames : plist[n] \in 0 .. 2 /\ plist[n] <= attempt
      BY <1>1, Facts
    <3>2. \A n \in AllNames : n \notin Expected => plist[n] = 0
      BY <1>1 DEF ListingInv, AtMost
    <3>3. QED BY <3>1, <3>2
  <2>2. QED
    BY <1>1, <2>1 DEF ListingInv, Answered, DeliversExpected
<1>2. QED BY <1>1, ListingHolds, PTL

\* maperror, list_files and the enumerations: which failures the host is not
\* told of, and which errors it is told without one.
THEOREM ErrorsAccounted == Spec => []FailuresAccounted
<1>1. ListingInv => FailuresAccounted
  BY DEF ListingInv
<1>2. QED BY <1>1, ListingHolds, PTL

===============================================================================
