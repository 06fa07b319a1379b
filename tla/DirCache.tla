------------------------------- MODULE DirCache -------------------------------
(***************************************************************************)
(* The directory cache of one mounted resource (dircache.c): a bounded,    *)
(* newest-first list of directory listings behind a mutex, filled in three *)
(* calls (write_begin, write_entry, write_end) and emptied by expiry,      *)
(* eviction and invalidation.                                              *)
(*                                                                         *)
(* Several threads of the NDFS control program call it.  Every entry point *)
(* holds the cache mutex for its whole body, so a call is one step, except *)
(* the removal loop of dircache_invalidate, which is modelled turn by turn *)
(* with the mutex held.  Serialized says whether the plugin mutex of       *)
(* ndpsmb.c surrounds whole requests (the shipped build, where             *)
(* LIBSMB_THREAD_SAFE is 0) or only single cache calls exclude each other  *)
(* (the build the makefile's comment wants to return to).                  *)
(***************************************************************************)
EXTENDS Integers, FiniteSets, SequencesExt

CONSTANTS
    Threads,            \* threads of the NDFS control program
    Dirs,               \* directory paths of the resource, as spelled
    ulHash,             \* computehash of a path, which depends on its case
    folded,             \* a path without its case, as fsphStrICmp compares it
    Names, Attrs,       \* what a smbwrp_fileinfo says: a name and the rest
    Entries,            \* heap cells for DirectoryCacheEntry structures
    NULL,               \* the null pointer
    CacheListings,      \* values of the property "cache listings" (CLD)
    ulExpirationTime,   \* property "cache timeout" (CTO)
    QueryAge,           \* age up to which NdpQueryPathInfo trusts the cache
    Serialized,         \* TRUE: one request at a time (plugin mutex)
    MayFail             \* TRUE: malloc and realloc may fail

ASSUME ThreadsAssumption == IsFiniteSet(Threads) /\ Threads # {}
ASSUME NullAssumption == NULL \notin Entries \cup Dirs
\* Paths that the cache cannot tell apart are one element of Dirs.
ASSUME PathsAssumption == /\ DOMAIN ulHash = Dirs /\ DOMAIN folded = Dirs
                          /\ \A p, q \in Dirs : ulHash[p] = ulHash[q] /\ folded[p] = folded[q]
                                                => p = q
ASSUME BoundsAssumption == /\ CacheListings \subseteq Nat
                           /\ ulExpirationTime \in Nat
                           /\ QueryAge \in Nat
ASSUME SwitchesAssumption == Serialized \in BOOLEAN /\ MayFail \in BOOLEAN

VARIABLES
    pdc,        \* the resource's cache: "none", "open", or "null" (creation failed)
    cMaxEntries, \* capacity of the cache
    list,       \* pEntriesHead .. pEntriesTail, head first
    entry,      \* the heap: contents of every cell, Unallocated when free
    pc,         \* where each thread is in its request
    dir,        \* the directory a thread's request is about
    ctx,        \* dircachectx of a thread that fills a listing
    trapped,    \* the process took an access violation
    answer      \* ghost: what the last step served from the cache

vars == <<pdc, cMaxEntries, list, entry, pc, dir, ctx, trapped, answer>>

-------------------------------------------------------------------------------
(* Data.                                                                   *)

Infos == [fname : Names, attr : Attrs]

\* Ages above every threshold are alike, so they are capped here.
Horizon == 1 + IF ulExpirationTime > QueryAge THEN ulExpirationTime ELSE QueryAge

\* A DirectoryCacheEntry.  age is timesec() - ulLastUpdateTime; outdated is a
\* ghost: the entry existed when its directory was invalidated.
EntryType == [path : Dirs \cup {NULL}, infos : SUBSET Infos,
              age : 0 .. Horizon, fInvalid : BOOLEAN, outdated : BOOLEAN]

Unallocated == [path |-> NULL, infos |-> {}, age |-> 0,
                fInvalid |-> FALSE, outdated |-> FALSE]

\* Mutant: dcWriteBegin does not stamp the entry, ulLastUpdateTime stays 0.
NewEntryUnstamped(d) == [path |-> d, infos |-> {}, age |-> Horizon + 1,
                         fInvalid |-> FALSE, outdated |-> FALSE]

NewEntry(d) == [path |-> d, infos |-> {}, age |-> 0,
                fInvalid |-> FALSE, outdated |-> FALSE]

\* dceClear and the new time stamp of dcWriteBegin.
Restarted(r) == [path |-> r.path, infos |-> {}, age |-> 0,
                 fInvalid |-> r.fInvalid, outdated |-> FALSE]

NoAnswer == [by |-> "none", age |-> 0, outdated |-> FALSE]

AnswerType == [by : {"none", "list", "query"}, age : 0 .. Horizon, outdated : BOOLEAN]

Live == {e \in Entries : entry[e].path # NULL}
Listed == ToSet(list)
Writers == {t \in Threads : ctx[t] # NULL}

-------------------------------------------------------------------------------
(* Locks.                                                                  *)

\* The plugin mutex: a new request waits until every other one has left.
PluginMutexFree(t) == Serialized => \A u \in Threads \ {t} : pc[u] = "idle"

\* The cache mutex is held across steps only by an invalidation.
CacheMutexFree == \A u \in Threads : pc[u] # "invalidating"

\* An access violation ends the control program, and every thread with it.
Running == ~trapped

AllIdle == \A t \in Threads : pc[t] = "idle"

-------------------------------------------------------------------------------
(* List primitives.                                                        *)

\* Mutant: the comparison without case alone, a hit for every spelling.
IsForAnyCase(e, d) == entry[e].path \in Dirs /\ folded[entry[e].path] = folded[d]

\* The hash, which depends on the spelling, and then the comparison without case:
\* another spelling of the directory is another directory to the cache, unless
\* the hashes collide.
IsFor(e, d) == LET p == entry[e].path
               IN  p \in Dirs /\ ulHash[p] = ulHash[d] /\ folded[p] = folded[d]

\* dcFindDirCache: i is the first position whose entry is for directory d.
FirstFor(l, d, i) == /\ i \in 1 .. Len(l)
                     /\ IsFor(l[i], d)
                     /\ \A j \in 1 .. i - 1 : ~IsFor(l[j], d)

\* Mutant: the search stops at the tail without looking at it.
NoneForButTail(l, d) == \A i \in 1 .. Len(l) - 1 : ~IsFor(l[i], d)

\* dcFindDirCache returning NULL.
NoneFor(l, d) == \A i \in 1 .. Len(l) : ~IsFor(l[i], d)

\* Mutant: an entry is good up to and including its expiration time.
ExpiredLate(e) == entry[e].age > ulExpirationTime

\* dceExpired.
Expired(e) == entry[e].age >= ulExpirationTime

\* dcRemoveEntry of the i-th entry.
Unlink(l, i) == RemoveAt(l, i)

\* dceDelete of a set of entries.
Freed(S) == [e \in Entries |-> IF e \in S THEN Unallocated ELSE entry[e]]

\* Mutant: evict when the list is over its limit, not when it is full.
FullLate == Len(list) > cMaxEntries

\* Mutant: evict when the new entry would fill the list.
FullEarly == Len(list) + 1 >= cMaxEntries

\* dircache_write_begin evicts the tail before anything else is looked up.
Full == Len(list) >= cMaxEntries
Kept == IF Full THEN Front(list) ELSE list
Evicted == IF Full THEN {Last(list)} ELSE {}
-------------------------------------------------------------------------------
(* Creation and deletion with the resource.                                *)

Init == /\ pdc = "none"
        /\ cMaxEntries = 0
        /\ list = <<>>
        /\ entry = [e \in Entries |-> Unallocated]
        /\ pc = [t \in Threads |-> "idle"]
        /\ dir = [t \in Threads |-> NULL]
        /\ ctx = [t \in Threads |-> NULL]
        /\ trapped = FALSE
        /\ answer = NoAnswer

\* initResource ignores the result of dircache_create: the mount goes on with
\* a null cache.
Create == /\ Running
          /\ pdc = "none"
          /\ pdc' \in (IF MayFail THEN {"open", "null"} ELSE {"open"})
          /\ cMaxEntries' \in CacheListings
          /\ answer' = NoAnswer
          /\ UNCHANGED <<list, entry, pc, dir, ctx, trapped>>

\* dircache_delete frees the entries that are on the list, and only those.
Delete == /\ Running
          /\ pdc # "none"
          /\ AllIdle
          /\ pdc' = "none"
          /\ cMaxEntries' = 0
          /\ list' = <<>>
          /\ entry' = Freed(Listed)
          /\ answer' = NoAnswer
          /\ UNCHANGED <<pc, dir, ctx, trapped>>

-------------------------------------------------------------------------------
(* dircache_list_files: serve a listing, or report a miss.                 *)

StartList(t) == /\ Running
                /\ pdc # "none"
                /\ pc[t] = "idle"
                /\ PluginMutexFree(t)
                /\ CacheMutexFree

ListHit(t, d) ==
    /\ StartList(t)
    /\ \E i \in 1 .. Len(list) :
          /\ FirstFor(list, d, i)
          /\ ~Expired(list[i])
          /\ answer' = [by |-> "list", age |-> entry[list[i]].age,
                        outdated |-> entry[list[i]].outdated]
    /\ UNCHANGED <<pdc, cMaxEntries, list, entry, pc, dir, ctx, trapped>>

Missed(t, d) == /\ pc' = [pc EXCEPT ![t] = "missed"]
                /\ dir' = [dir EXCEPT ![t] = d]
                /\ answer' = NoAnswer

ListExpired(t, d) ==
    /\ StartList(t)
    /\ \E i \in 1 .. Len(list) :
          /\ FirstFor(list, d, i)
          /\ Expired(list[i])
          /\ list' = Unlink(list, i)
          /\ entry' = Freed({list[i]})
    /\ Missed(t, d)
    /\ UNCHANGED <<pdc, cMaxEntries, ctx, trapped>>

ListMiss(t, d) ==
    /\ StartList(t)
    /\ NoneFor(list, d)
    /\ Missed(t, d)
    /\ UNCHANGED <<pdc, cMaxEntries, list, entry, ctx, trapped>>

\* The server refuses the listing before dircache_write_begin (SMB1 path of
\* list_files).
GiveUp(t) ==
    /\ Running
    /\ pc[t] = "missed"
    /\ pc' = [pc EXCEPT ![t] = "idle"]
    /\ dir' = [dir EXCEPT ![t] = NULL]
    /\ answer' = NoAnswer
    /\ UNCHANGED <<pdc, cMaxEntries, list, entry, ctx, trapped>>

-------------------------------------------------------------------------------
(* dircache_write_begin.                                                   *)

StartWrite(t) == Running /\ pc[t] = "missed" /\ CacheMutexFree

Writing(t, e) == /\ pc' = [pc EXCEPT ![t] = "writing"]
                 /\ ctx' = [ctx EXCEPT ![t] = e]
                 /\ answer' = NoAnswer

\* No cache: the caller gets a null context and goes on.
BeginNoCache(t) ==
    /\ StartWrite(t)
    /\ pdc = "null"
    /\ Writing(t, NULL)
    /\ UNCHANGED <<pdc, cMaxEntries, list, entry, dir, trapped>>

\* With a capacity of 0 the tail of an empty list is unlinked: dcRemoveEntry
\* dereferences a null pointer.
BeginTrap(t) ==
    /\ StartWrite(t)
    /\ pdc = "open"
    /\ Full /\ list = <<>>
    /\ trapped' = TRUE
    /\ answer' = NoAnswer
    /\ UNCHANGED <<pdc, cMaxEntries, list, entry, pc, dir, ctx>>

EvictAndBegin(t) == /\ StartWrite(t)
                    /\ pdc = "open"
                    /\ ~(Full /\ list = <<>>)

\* Mutant: the reused entry is cleared but stays on the list.
BeginReuseListed(t) ==
    /\ EvictAndBegin(t)
    /\ \E i \in 1 .. Len(Kept) :
          /\ FirstFor(Kept, dir[t], i)
          /\ list' = Kept
          /\ entry' = [Freed(Evicted) EXCEPT ![Kept[i]] = Restarted(@)]
          /\ Writing(t, Kept[i])
    /\ UNCHANGED <<pdc, cMaxEntries, dir, trapped>>

\* The directory is cached (another thread filled it meanwhile): the entry is
\* cleared, stamped and taken off the list.
BeginReuse(t) ==
    /\ EvictAndBegin(t)
    /\ \E i \in 1 .. Len(Kept) :
          /\ FirstFor(Kept, dir[t], i)
          /\ list' = Unlink(Kept, i)
          /\ entry' = [Freed(Evicted) EXCEPT ![Kept[i]] = Restarted(@)]
          /\ Writing(t, Kept[i])
    /\ UNCHANGED <<pdc, cMaxEntries, dir, trapped>>

\* Mutant: the new entry is inserted when it is created.
BeginCreateListed(t) ==
    /\ EvictAndBegin(t)
    /\ NoneFor(Kept, dir[t])
    /\ \E e \in Entries \ Live :
          /\ entry' = [Freed(Evicted) EXCEPT ![e] = NewEntry(dir[t])]
          /\ list' = Cons(e, Kept)
          /\ Writing(t, e)
    /\ UNCHANGED <<pdc, cMaxEntries, dir, trapped>>

BeginCreate(t) ==
    /\ EvictAndBegin(t)
    /\ NoneFor(Kept, dir[t])
    /\ list' = Kept
    /\ \E e \in Entries \ Live :
          /\ entry' = [Freed(Evicted) EXCEPT ![e] = NewEntry(dir[t])]
          /\ Writing(t, e)
    /\ UNCHANGED <<pdc, cMaxEntries, dir, trapped>>

BeginNoMemory(t) ==
    /\ MayFail
    /\ EvictAndBegin(t)
    /\ NoneFor(Kept, dir[t])
    /\ list' = Kept
    /\ entry' = Freed(Evicted)
    /\ Writing(t, NULL)
    /\ UNCHANGED <<pdc, cMaxEntries, dir, trapped>>

\* dceCreate does not look at the result of the malloc for pszPath.
BeginTrapNoPath(t) ==
    /\ MayFail
    /\ EvictAndBegin(t)
    /\ NoneFor(Kept, dir[t])
    /\ list' = Kept
    /\ entry' = Freed(Evicted)
    /\ trapped' = TRUE
    /\ answer' = NoAnswer
    /\ UNCHANGED <<pdc, cMaxEntries, pc, dir, ctx>>

-------------------------------------------------------------------------------
(* dircache_write_entry and dircache_write_end.                            *)

Filling(t) == Running /\ pc[t] = "writing" /\ ctx[t] # NULL /\ CacheMutexFree

\* A server lists every name once.
WriteEntry(t, f) ==
    /\ Filling(t)
    /\ \A g \in entry[ctx[t]].infos : g.fname # f.fname
    /\ entry' = [entry EXCEPT ![ctx[t]].infos = @ \cup {f}]
    /\ answer' = NoAnswer
    /\ UNCHANGED <<pdc, cMaxEntries, list, pc, dir, ctx, trapped>>

\* dceWriteEntry cannot grow the buffer: the file is left out and the entry
\* is marked for deletion in dircache_write_end.
WriteEntryNoMemory(t) ==
    /\ MayFail
    /\ Filling(t)
    /\ entry' = [entry EXCEPT ![ctx[t]].fInvalid = TRUE]
    /\ answer' = NoAnswer
    /\ UNCHANGED <<pdc, cMaxEntries, list, pc, dir, ctx, trapped>>

Return(t) == /\ pc' = [pc EXCEPT ![t] = "idle"]
             /\ dir' = [dir EXCEPT ![t] = NULL]
             /\ ctx' = [ctx EXCEPT ![t] = NULL]
             /\ answer' = NoAnswer

\* Mutant: the listing is appended at the tail.
WriteEndAtTail(t) ==
    /\ Filling(t)
    /\ ~entry[ctx[t]].fInvalid
    /\ list' = Append(list, ctx[t])
    /\ Return(t)
    /\ UNCHANGED <<pdc, cMaxEntries, entry, trapped>>

\* dcInsertEntry at the head.
WriteEnd(t) ==
    /\ Filling(t)
    /\ ~entry[ctx[t]].fInvalid
    /\ list' = Cons(ctx[t], list)
    /\ Return(t)
    /\ UNCHANGED <<pdc, cMaxEntries, entry, trapped>>

WriteEndInvalid(t) ==
    /\ Filling(t)
    /\ entry[ctx[t]].fInvalid
    /\ entry' = Freed({ctx[t]})
    /\ Return(t)
    /\ UNCHANGED <<pdc, cMaxEntries, list, trapped>>

\* The first debuglocal of dircache_write_end reads pdce->cInfos before the
\* null test.
WriteEndTrap(t) ==
    /\ Running /\ pc[t] = "writing" /\ ctx[t] = NULL
    /\ trapped' = TRUE
    /\ answer' = NoAnswer
    /\ UNCHANGED <<pdc, cMaxEntries, list, entry, pc, dir, ctx>>

\* list_files_smb2 leaves through "fail" without dircache_write_end: no pointer
\* to the entry is left.  The memory is lost, and its cell is free to stand
\* for another one.
Abandon(t) ==
    /\ Running /\ pc[t] = "writing"
    /\ entry' = Freed({ctx[t]})
    /\ Return(t)
    /\ UNCHANGED <<pdc, cMaxEntries, list, trapped>>

-------------------------------------------------------------------------------
(* dircache_invalidate: d is the parent directory of the changed object.   *)

InvalidateStart(t, d) ==
    /\ Running
    /\ pdc = "open"
    /\ pc[t] = "idle"
    /\ PluginMutexFree(t)
    /\ CacheMutexFree
    /\ pc' = [pc EXCEPT ![t] = "invalidating"]
    /\ dir' = [dir EXCEPT ![t] = d]
    /\ entry' = [e \in Entries |->
                   [entry[e] EXCEPT !.outdated = @ \/ entry[e].path = d]]
    /\ answer' = NoAnswer
    /\ UNCHANGED <<pdc, cMaxEntries, list, ctx, trapped>>

\* One turn of the while loop of dcInvalidate.
InvalidateStep(t) ==
    /\ Running /\ pc[t] = "invalidating"
    /\ \E i \in 1 .. Len(list) :
          /\ FirstFor(list, dir[t], i)
          /\ list' = Unlink(list, i)
          /\ entry' = Freed({list[i]})
    /\ answer' = NoAnswer
    /\ UNCHANGED <<pdc, cMaxEntries, pc, dir, ctx, trapped>>

\* Mutant: "if" for "while", one removal is enough.
InvalidateEndEarly(t) ==
    /\ Running /\ pc[t] = "invalidating"
    /\ Return(t)
    /\ UNCHANGED <<pdc, cMaxEntries, list, entry, trapped>>

InvalidateEnd(t) ==
    /\ Running /\ pc[t] = "invalidating"
    /\ NoneFor(list, dir[t])
    /\ Return(t)
    /\ UNCHANGED <<pdc, cMaxEntries, list, entry, trapped>>

-------------------------------------------------------------------------------
(* dircache_find_path with the age test of NdpQueryPathInfo.               *)

\* dcFindPath: the first entry for d that has the name n, whatever its age.
FirstWith(d, n, i) ==
    LET Has(j) == /\ IsFor(list[j], d)
                  /\ \E f \in entry[list[j]].infos : f.fname = n
    IN  i \in 1 .. Len(list) /\ Has(i) /\ \A j \in 1 .. i - 1 : ~Has(j)

QueryHit(t, d, n) ==
    /\ StartList(t)
    /\ \E i \in 1 .. Len(list) :
          /\ FirstWith(d, n, i)
          /\ entry[list[i]].age <= QueryAge
          /\ answer' = [by |-> "query", age |-> entry[list[i]].age,
                        outdated |-> entry[list[i]].outdated]
    /\ UNCHANGED <<pdc, cMaxEntries, list, entry, pc, dir, ctx, trapped>>

Older(r) == [r EXCEPT !.age = IF @ < Horizon THEN @ + 1 ELSE @]

\* timesec() moves on by a second.
Tick ==
    /\ Running
    /\ \E e \in Live : entry[e].age < Horizon
    /\ entry' = [e \in Entries |->
                   IF e \in Live THEN Older(entry[e]) ELSE entry[e]]
    /\ answer' = NoAnswer
    /\ UNCHANGED <<pdc, cMaxEntries, list, pc, dir, ctx, trapped>>
-------------------------------------------------------------------------------
(* The whole cache.                                                        *)

ListFiles(t, d) == ListHit(t, d) \/ ListExpired(t, d) \/ ListMiss(t, d)

WriteBegin(t) == \/ BeginNoCache(t) \/ BeginTrap(t) \/ BeginReuse(t)
                 \/ BeginCreate(t) \/ BeginNoMemory(t) \/ BeginTrapNoPath(t)

Fill(t) == \/ WriteBegin(t)
           \/ \E f \in Infos : WriteEntry(t, f)
           \/ WriteEntryNoMemory(t)
           \/ WriteEnd(t) \/ WriteEndInvalid(t) \/ WriteEndTrap(t)
           \/ Abandon(t) \/ GiveUp(t)

Invalidate(t) == \/ \E d \in Dirs : InvalidateStart(t, d)
                 \/ InvalidateStep(t)
                 \/ InvalidateEnd(t)

Step(t) == \/ \E d \in Dirs : ListFiles(t, d)
           \/ Fill(t)
           \/ Invalidate(t)
           \/ \E d \in Dirs, n \in Names : QueryHit(t, d, n)

Next == \/ Create \/ Delete \/ Tick
        \/ \E t \in Threads : Step(t)

Spec == Init /\ [][Next]_vars

-------------------------------------------------------------------------------
(* Properties.                                                             *)

\* The state of the cache and of its callers is well formed.
TypeOK == /\ pdc \in {"none", "open", "null"}
          /\ cMaxEntries \in Nat
          /\ list \in Seq(Entries)
          /\ entry \in [Entries -> EntryType]
          /\ pc \in [Threads -> {"idle", "missed", "writing", "invalidating"}]
          /\ dir \in [Threads -> Dirs \cup {NULL}]
          /\ ctx \in [Threads -> Entries \cup {NULL}]
          /\ trapped \in BOOLEAN
          /\ answer \in AnswerType

\* Who holds an entry: the list (once), or exactly one thread between
\* dircache_write_begin and dircache_write_end, never both; and nobody else
\* holds one.  A thread therefore fills its entry undisturbed by eviction,
\* expiry and invalidation, and every free in dircache.c is the last use.
EntryOwnership ==
    /\ \A i, j \in 1 .. Len(list) : list[i] = list[j] => i = j
    /\ \A t \in Writers : pc[t] = "writing" /\ ctx[t] \notin Listed
    /\ \A t, u \in Writers : ctx[t] = ctx[u] => t = u
    /\ Live = Listed \cup {ctx[t] : t \in Writers}

\* Threads that can be between write_begin and write_end at once.
MaxWriters == IF Serialized THEN 1 ELSE Cardinality(Threads)

\* "cache listings" bounds the memory: dircache_write_begin makes room for one
\* entry before it is inserted, so threads that fill at the same time may
\* overshoot, but by no more than one entry each, and for good.
CapacityBound == Len(list) + Cardinality(Writers) <= cMaxEntries - 1 + MaxWriters

\* dcCreateDirPath: "better no dircache than a crash".  The cache takes the
\* process down only where its allocations failed, or when "cache listings" is 0:
\* then the list is full while it is empty and eviction follows a null tail.
TrapsExplained == trapped => MayFail \/ (pdc = "open" /\ cMaxEntries = 0)

\* With whole requests serialised a path, as it is spelled, has at most one
\* listing, so dcFindDirCache and dcFindPath cannot disagree about it.
UniquePaths ==
    Serialized => \A d, e \in Listed : entry[d].path = entry[e].path => d = e

\* With whole requests serialised the tail is the listing read longest ago:
\* what dircache_write_begin evicts is the "oldest entry" of its comment.
NewestFirst ==
    Serialized => \A i, j \in 1 .. Len(list) :
                     i < j => entry[list[i]].age <= entry[list[j]].age

\* Nothing is served beyond its age: dircache_list_files keeps to "cache
\* timeout", NdpQueryPathInfo to a limit of its own (15 seconds), also for listings
\* that are expired.  With whole requests serialised nothing is served that
\* was invalidated, under the spelling it is served for, since it was read.
AnswersFresh ==
    /\ answer.by = "list" => answer.age < ulExpirationTime
    /\ answer.by = "query" => answer.age <= QueryAge
    /\ answer.by # "none" /\ Serialized => ~answer.outdated

\* When dircache_invalidate returns, no listing of the directory is left, not
\* even the duplicates that unserialised threads can insert.
InvalidateRemovesAll ==
    [][\A t \in Threads : pc[t] = "invalidating" /\ pc'[t] = "idle"
                             => \A e \in Listed : entry[e].path # dir[t]]_vars

\* Readers need no copy: while an entry stays on the list its path and files
\* do not change and it only gets older.
ListedImmutable ==
    [][\A e \in Listed \cap Listed' :
          /\ entry'[e].path = entry[e].path
          /\ entry'[e].infos = entry[e].infos
          /\ entry'[e].age >= entry[e].age]_vars

-------------------------------------------------------------------------------
(* The cache as its users see it.                                          *)

\* The listing that dcFindDirCache would find.
Visible(d) ==
    LET found == {i \in 1 .. Len(list) : FirstFor(list, d, i)}
    IN  IF found = {} THEN NULL ELSE entry[list[CHOOSE i \in found : TRUE]].infos

Abstract == INSTANCE ListingCache
              WITH Listings <- SUBSET Infos,
                   None <- NULL,
                   Capacity <- CHOOSE m \in CacheListings : \A n \in CacheListings : n <= m,
                   cached <- [d \in Dirs |-> Visible(d)]

\* With whole requests serialised the list, the heap, the ages and the three
\* calls of a fill amount to a map from directories to complete listings.
ImplementsListingCache == Abstract!CacheSpec

===============================================================================
