----------------------------- MODULE ListingCache -----------------------------
(***************************************************************************)
(* What a directory cache promises its users, without lists, heaps, ages   *)
(* and locks: at most one complete listing per directory, no more than     *)
(* Capacity of them, which does not change while it is cached and may be   *)
(* forgotten at any time.  DirCache implements it; OwnWrites uses it.      *)
(***************************************************************************)
EXTENDS Integers, FiniteSets

CONSTANTS
    Dirs,       \* directories
    Listings,   \* what a listing may say
    None,       \* no listing
    Capacity    \* property "cache listings"

ASSUME NoneAssumption == None \notin Listings

VARIABLE cached     \* the listing of every directory, or None

Cached == {d \in Dirs : cached[d] # None}

CacheInit == cached = [d \in Dirs |-> None]

\* Eviction, expiry, invalidation and the end of the resource.
Forget(D) == cached' = [d \in Dirs |-> IF d \in D THEN None ELSE cached[d]]

\* A listing becomes visible when it is complete.
Insert(d, l) == /\ cached[d] = None
                /\ Cardinality(Cached) < Capacity
                /\ cached' = [cached EXCEPT ![d] = l]

CacheNext == \/ \E D \in SUBSET Dirs : Forget(D)
             \/ \E d \in Dirs, l \in Listings : Insert(d, l)

CacheSpec == CacheInit /\ [][CacheNext]_cached

===============================================================================
