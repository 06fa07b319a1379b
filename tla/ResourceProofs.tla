---------------------------- MODULE ResourceProofs ----------------------------
(***************************************************************************)
(* Proofs about mounted Resources, the names they take from paths, their   *)
(* sessions and caches, the disk sizes the host is told and the stored     *)
(* passwords, for any properties, paths, disks and number of Resources.    *)
(***************************************************************************)
EXTENDS Resource, Induction, FiniteSetTheorems, SequenceTheorems, TLAPS

-------------------------------------------------------------------------------
(* Resources.                                                              *)

Words == Seq(Letters)
Names == [1 .. 3 -> Words]

Resources == [level : 0 .. 3, names : Names, user : Words,
              easupport : 0 .. 1, cachetimeout : 0 .. 600, cachedepth : 0 .. 96,
              pdc : BOOLEAN, asked : Asked, parsed : BOOLEAN]

\* What a Resource keeps of its mount: the level, the names above it, and all
\* names until a path has replaced one.
KeepsMount(r) ==
    /\ r.level = Level(r.asked.names)
    /\ \A i \in 1 .. r.level : r.names[i] = r.asked.names[i]
    /\ ~r.parsed => r.names = r.asked.names
    /\ r.easupport = Setting(r.asked.easupport, 1, 1)
    /\ r.cachetimeout = Setting(r.asked.cto, 600, 0)
    /\ r.cachedepth = r.asked.cld

LEMMA NotNothing == ASSUME NEW r \in Resources PROVE r # NoResource
<1>1. r.level \in 0 .. 3 /\ NoResource.level = -1
  BY DEF Resources, NoResource
<1>2. QED BY <1>1

\* The three names are a sequence.
LEMMA NamesAreThree == ASSUME NEW n \in Names PROVE n \in Seq(Words) /\ Len(n) = 3
<1>1. n \in [1 .. 3 -> Words] /\ DOMAIN n = 1 .. 3
  BY DEF Names
<1>2. n \in Seq(Words)
  <2>1. n \in UNION {[1 .. k -> Words] : k \in Nat}
    BY <1>1
  <2>2. QED BY <2>1, SeqDef, Zenon
<1>3. Len(n) \in Nat /\ DOMAIN n = 1 .. Len(n)
  BY <1>2, LenProperties, Zenon
<1>4. 1 .. Len(n) = 1 .. 3
  BY <1>1, <1>3, Zenon
<1>5. Len(n) = 3
  BY <1>3, <1>4
<1>6. QED BY <1>2, <1>5

\* The largest member of a set of levels.
LEMMA LevelRange == ASSUME NEW names PROVE Level(names) \in 0 .. 3
<1> DEFINE L == {0} \cup {i \in 1 .. 3 : names[i] # <<>>}
<1>1. L \subseteq {0, 1, 2, 3} /\ 0 \in L
  OBVIOUS
<1>2. \E x \in L : \A y \in L : x >= y
  <2>1. CASE 3 \in L
    BY <1>1, <2>1
  <2>2. CASE 3 \notin L /\ 2 \in L
    BY <1>1, <2>2
  <2>3. CASE 3 \notin L /\ 2 \notin L /\ 1 \in L
    BY <1>1, <2>3
  <2>4. CASE 3 \notin L /\ 2 \notin L /\ 1 \notin L
    BY <1>1, <2>4
  <2>5. QED BY <2>1, <2>2, <2>3, <2>4
<1>3. Level(names) \in L
  BY <1>2 DEF Level, Max
<1>4. QED BY <1>1, <1>3

\* A setting is in its range, and what the user asked for if that is.
LEMMA SettingRange ==
    ASSUME NEW asked, NEW limit \in Nat, NEW default \in 0 .. limit
    PROVE  /\ Setting(asked, limit, default) \in 0 .. limit
           /\ Setting(asked, limit, default) # asked
                => Setting(asked, limit, default) = default
  BY DEF Setting

LEMMA InitKeeps ==
    ASSUME NEW p \in Asked, NEW pdc \in BOOLEAN, ~InitRefuses(p)
    PROVE  initResource(p, pdc) \in Resources /\ KeepsMount(initResource(p, pdc))
<1> DEFINE r == initResource(p, pdc)
<1>1. p.names \in Names /\ p.user \in Words
  BY AskedAssumption DEF Names, Words
<1>2. /\ Level(p.names) \in 0 .. 3
      /\ Setting(p.easupport, 1, 1) \in 0 .. 1 /\ Setting(p.cto, 600, 0) \in 0 .. 600
  BY LevelRange, SettingRange
<1>3. Setting(p.cld, 96, 0) = p.cld /\ p.cld \in 0 .. 96
  BY DEF InitRefuses, Setting
<1>4. r \in Resources
  BY <1>1, <1>2, <1>3, SMTT(30) DEF Resources, initResource
<1>5. KeepsMount(r)
  BY <1>3 DEF KeepsMount, initResource
<1>6. QED BY <1>4, <1>5

-------------------------------------------------------------------------------
(* pathparser.                                                             *)

\* A component is a name, empty when the path ends before it.
LEMMA ComponentIsName ==
    ASSUME NEW r \in Resources, NEW path \in Paths, NEW i \in 1 .. 3, i > r.level
    PROVE  /\ Component(r, path, i) \in Words
           /\ i - r.level \in 1 .. 3
           /\ i - r.level <= Len(path)
                => Component(r, path, i) = path[i - r.level] /\ path[i - r.level] # <<>>
           /\ i - r.level > Len(path) => Component(r, path, i) = <<>>
<1>1. r.level \in 0 .. 3 /\ path \in Seq(Seq(Letters) \ {<<>>}) /\ Len(path) \in Nat
  BY PathsAssumption DEF Resources
<1>2. i - r.level \in 1 .. 3
  BY <1>1
<1>3. ASSUME i - r.level <= Len(path)
      PROVE  path[i - r.level] \in Seq(Letters) \ {<<>>}
  <2>1. i - r.level \in 1 .. Len(path)
    BY <1>1, <1>2, <1>3
  <2>2. QED BY <1>1, <2>1, ElementOfSeq
<1>4. <<>> \in Seq(Letters)
  BY EmptySeq
<1>5. QED BY <1>1, <1>2, <1>3, <1>4 DEF Component, Words

LEMMA NewNamesAreNames ==
    ASSUME NEW r \in Resources, NEW path \in Paths
    PROVE  /\ NewNames(r, path) \in Names
           /\ \A i \in 1 .. r.level : i \in 1 .. 3 => NewNames(r, path)[i] = r.names[i]
           /\ ~Switches(r, path) => NewNames(r, path) = r.names
<1>1. r.level \in 0 .. 3 /\ r.names \in Names
  BY DEF Resources
<1>2. NewNames(r, path) \in Names
  BY <1>1, ComponentIsName DEF NewNames, Names
<1>3. \A i \in 1 .. r.level : i \in 1 .. 3 => NewNames(r, path)[i] = r.names[i]
  BY <1>1 DEF NewNames
<1>4. ASSUME ~Switches(r, path) PROVE NewNames(r, path) = r.names
  <2>1. \A i \in 1 .. 3 : NewNames(r, path)[i] = r.names[i]
    <3> SUFFICES ASSUME NEW i \in 1 .. 3 PROVE NewNames(r, path)[i] = r.names[i]
      OBVIOUS
    <3>1. i > r.level => i \in r.level + 1 .. 3
      BY <1>1
    <3>2. QED BY <1>4, <3>1 DEF NewNames, Switches
  <2>2. QED BY <1>1, <1>2, <2>1 DEF Names
<1>5. QED BY <1>2, <1>3, <1>4

\* The Resource after a path was accepted.
Reparsed(r, path) ==
    [r EXCEPT !.names = NewNames(r, path), !.parsed = @ \/ Switches(r, path)]

LEMMA ReparsedKeeps ==
    ASSUME NEW r \in Resources, KeepsMount(r), NEW path \in Paths
    PROVE  /\ Reparsed(r, path) \in Resources /\ KeepsMount(Reparsed(r, path))
           /\ Reparsed(r, path).names = NewNames(r, path)
           /\ Reparsed(r, path).pdc = r.pdc
<1> DEFINE q == Reparsed(r, path)
<1>1. NewNames(r, path) \in Names
  BY NewNamesAreNames
<1>2. (r.parsed \/ Switches(r, path)) \in BOOLEAN
  BY DEF Resources, Switches
<1>3. q \in Resources
  <2> DEFINE half == [r EXCEPT !.names = NewNames(r, path)]
             parsed == r.parsed \/ Switches(r, path)
  <2>1. half \in Resources
    BY <1>1, SMTT(30) DEF Resources
  <2>2. q = [half EXCEPT !.parsed = parsed]
    BY DEF Reparsed, Resources
  <2>3. parsed \in BOOLEAN
    BY <1>2
  <2> HIDE DEF half, parsed
  <2>4. [half EXCEPT !.parsed = parsed] \in Resources
    BY <2>1, <2>3, SMTT(30) DEF Resources
  <2>5. QED BY <2>2, <2>4
<1>4. /\ q.names = NewNames(r, path) /\ q.level = r.level /\ q.asked = r.asked
      /\ q.pdc = r.pdc /\ q.easupport = r.easupport
      /\ q.cachetimeout = r.cachetimeout /\ q.cachedepth = r.cachedepth
      /\ q.parsed = (r.parsed \/ Switches(r, path))
  BY DEF Reparsed, Resources
<1>5. \A i \in 1 .. q.level : q.names[i] = q.asked.names[i]
  <2>1. r.level \in 0 .. 3
    BY DEF Resources
  <2>2. QED BY <1>4, <2>1, NewNamesAreNames DEF KeepsMount
<1>6. ~q.parsed => q.names = q.asked.names
  BY <1>4, NewNamesAreNames, ZenonT(30) DEF KeepsMount
<1>7. KeepsMount(q)
  BY <1>4, <1>5, <1>6 DEF KeepsMount
<1>8. QED BY <1>3, <1>4, <1>7

-------------------------------------------------------------------------------
(* The inductive invariant.                                                *)

ResTypes == /\ res \in [Slots -> Resources \cup {NoResource}]
            /\ cli \in [Slots -> Names \cup {NoSession}]

MountsKept == \A s \in Slots : Mounted(s) => KeepsMount(res[s])

\* The Resources that have a directory cache.
Cached == {s \in Slots : Mounted(s) /\ res[s].pdc}

CachesInv == /\ IsFiniteSet(Cached)
             /\ caches \in Int /\ refused \in Nat
             /\ CachesAccounted

ResInv == ResTypes /\ MountsKept /\ ResourceMatchesSession /\ CachesInv

LEMMA MountedIsResource ==
    ASSUME ResInv, NEW s \in Slots, Mounted(s)
    PROVE  res[s] \in Resources /\ KeepsMount(res[s])
  BY DEF ResInv, ResTypes, MountsKept, Mounted

LEMMA ResInvInit == ResInit => ResInv
<1> SUFFICES ASSUME ResInit PROVE ResInv
  OBVIOUS
<1>1. ResTypes /\ MountsKept /\ ResourceMatchesSession
  BY DEF ResInit, ResTypes, MountsKept, ResourceMatchesSession, Mounted
<1>2. Cached = {}
  BY DEF ResInit, Cached, Mounted
<1>3. CachesInv
  BY <1>2, FS_EmptySet DEF ResInit, CachesInv, CachesAccounted, Cached
<1>4. QED BY <1>1, <1>3 DEF ResInv

\* Nothing but the last call changes, or a mount is refused and may leave a
\* directory cache behind.
LEMMA OnlyTheCall ==
    ASSUME ResInv, UNCHANGED <<res, cli>>,
           \/ UNCHANGED <<caches, refused>>
           \/ refused' = refused + 1 /\ caches' \in {caches, caches + 1}
    PROVE  ResInv'
<1>1. ResTypes' /\ MountsKept' /\ ResourceMatchesSession'
  BY DEF ResInv, ResTypes, MountsKept, ResourceMatchesSession, Mounted
<1>2. Cached' = Cached
  BY DEF Cached, Mounted
<1>3. Cardinality(Cached) \in Nat /\ caches - Cardinality(Cached) \in 0 .. refused
  BY FS_CardinalityType DEF ResInv, CachesInv, CachesAccounted, Cached
<1>4. caches' - Cardinality(Cached) \in 0 .. refused'
  BY <1>3 DEF ResInv, CachesInv
<1>5. CachesAccounted'
  <2>1. caches' - Cardinality(Cached') \in 0 .. refused'
    BY <1>2, <1>4
  <2>2. QED BY <2>1 DEF CachesAccounted, Cached
<1>6. IsFiniteSet(Cached') /\ caches' \in Int /\ refused' \in Nat
  BY <1>2 DEF ResInv, CachesInv
<1>7. QED BY <1>1, <1>5, <1>6 DEF ResInv, CachesInv

\* A slot takes r, and its cache is counted.
LEMMA SlotChanges ==
    ASSUME ResInv, NEW s \in Slots, NEW r \in Resources \cup {NoResource},
           res' = [res EXCEPT ![s] = r],
           r # NoResource => KeepsMount(r),
           cli' \in [Slots -> Names \cup {NoSession}],
           \A u \in Slots : u # s => cli'[u] = cli[u],
           cli'[s] # NoSession => r # NoResource /\ cli'[s] = r.names,
           UNCHANGED refused,
           caches' = caches + (IF r # NoResource /\ r.pdc THEN 1 ELSE 0)
                            - (IF Mounted(s) /\ res[s].pdc THEN 1 ELSE 0)
    PROVE  ResInv'
<1>1. ResTypes'
  BY DEF ResInv, ResTypes
<1>2. \A u \in Slots : res'[u] = IF u = s THEN r ELSE res[u]
  BY DEF ResInv, ResTypes
<1>3. MountsKept'
  BY <1>2 DEF ResInv, MountsKept, Mounted
<1>4. ResourceMatchesSession'
  BY <1>2 DEF ResInv, ResourceMatchesSession, Mounted
<1>5. Cached' = IF r # NoResource /\ r.pdc THEN Cached \cup {s} ELSE Cached \ {s}
  BY <1>2 DEF Cached, Mounted
<1>6. s \in Cached <=> Mounted(s) /\ res[s].pdc
  BY DEF Cached
<1>7. IsFiniteSet(Cached) /\ Cardinality(Cached) \in Nat
  BY FS_CardinalityType DEF ResInv, CachesInv
<1>8. IsFiniteSet(Cached') /\ Cardinality(Cached') \in Nat
  BY <1>5, <1>7, FS_AddElement, FS_RemoveElement, FS_CardinalityType
<1>9. Cardinality(Cached') = Cardinality(Cached)
                              + (IF r # NoResource /\ r.pdc THEN 1 ELSE 0)
                              - (IF s \in Cached THEN 1 ELSE 0)
  <2>1. CASE r # NoResource /\ r.pdc
    <3>1. Cardinality(Cached') = IF s \in Cached THEN Cardinality(Cached)
                                 ELSE Cardinality(Cached) + 1
      BY <2>1, <1>5, <1>7, FS_AddElement, Zenon
    <3>2. QED BY <2>1, <3>1, <1>7, <1>8
  <2>2. CASE ~(r # NoResource /\ r.pdc)
    <3>1. Cardinality(Cached') = IF s \in Cached THEN Cardinality(Cached) - 1
                                 ELSE Cardinality(Cached)
      BY <2>2, <1>5, <1>7, FS_RemoveElement, Zenon
    <3>2. QED BY <2>2, <3>1, <1>7, <1>8
  <2>3. QED BY <2>1, <2>2
<1>10. caches' \in Int /\ refused' \in Nat
  BY DEF ResInv, CachesInv
<1>11. caches' - Cardinality(Cached') = caches - Cardinality(Cached)
  BY <1>6, <1>7, <1>9 DEF ResInv, CachesInv
<1>12. CachesInv'
  BY <1>8, <1>10, <1>11 DEF ResInv, CachesInv, CachesAccounted, Cached
<1>13. QED BY <1>1, <1>3, <1>4, <1>12 DEF ResInv

\* pathparser accepts a path: the Resource and the session move together.
LEMMA ParsedKeeps ==
    ASSUME ResInv, NEW s \in Slots, NEW path \in Paths, cli[s] # NoSession,
           Parsed(s, path), UNCHANGED <<caches, refused>>
    PROVE  /\ ResInv'
           /\ res' = [res EXCEPT ![s] = Reparsed(res[s], path)]
           /\ cli'[s] = NewNames(res[s], path)
<1> DEFINE r == res[s]
           q == Reparsed(r, path)
<1>1. Mounted(s) /\ cli[s] = r.names /\ r \in Resources /\ KeepsMount(r)
  BY MountedIsResource DEF ResInv, ResourceMatchesSession
<1>2. /\ q \in Resources /\ KeepsMount(q) /\ q.names = NewNames(r, path) /\ q.pdc = r.pdc
  BY <1>1, ReparsedKeeps
<1>3. res' = [res EXCEPT ![s] = q]
  BY <1>1 DEF Parsed, Reparsed, ResInv, ResTypes, Resources
<1>4. cli' = [cli EXCEPT ![s] = NewNames(r, path)]
  BY <1>1, NewNamesAreNames DEF Parsed, ResInv, ResTypes
<1>5. NewNames(r, path) \in Names /\ q # NoResource
  BY <1>1, <1>2, NewNamesAreNames, NotNothing
<1>6. /\ cli' \in [Slots -> Names \cup {NoSession}] /\ cli'[s] = NewNames(r, path)
      /\ \A u \in Slots : u # s => cli'[u] = cli[u]
  BY <1>4, <1>5 DEF ResInv, ResTypes
<1>7. caches' = caches + (IF q # NoResource /\ q.pdc THEN 1 ELSE 0)
                       - (IF Mounted(s) /\ r.pdc THEN 1 ELSE 0)
  BY <1>1, <1>2, <1>5 DEF ResInv, CachesInv
<1> HIDE DEF r, q
<1>8. ResInv'
  BY <1>2, <1>3, <1>5, <1>6, <1>7, SlotChanges DEF r
<1>9. QED BY <1>3, <1>6, <1>8 DEF q, r

LEMMA MountKeeps == ASSUME ResInv, NEW s \in Slots, NEW p \in Asked, Mount(s, p) PROVE ResInv'
<1>1. PICK pdc \in BOOLEAN : /\ res' = [res EXCEPT ![s] = initResource(p, pdc)]
                             /\ caches' = caches + (IF pdc THEN 1 ELSE 0)
  BY DEF Mount
<1> DEFINE r == initResource(p, pdc)
<1>2. r \in Resources /\ KeepsMount(r) /\ r.pdc = pdc
  BY InitKeeps DEF Mount, initResource
<1>3. r # NoResource
  BY <1>2, NotNothing
<1>4. ~Mounted(s) /\ UNCHANGED <<cli, refused>> /\ cli[s] = NoSession
  BY DEF Mount, ResInv, ResourceMatchesSession
<1>5. caches' = caches + (IF r # NoResource /\ r.pdc THEN 1 ELSE 0)
                       - (IF Mounted(s) /\ res[s].pdc THEN 1 ELSE 0)
  BY <1>1, <1>2, <1>3, <1>4 DEF ResInv, CachesInv
<1>6. res' = [res EXCEPT ![s] = r]
  BY <1>1
<1> HIDE DEF r
<1>7. QED
  BY <1>2, <1>4, <1>5, <1>6, SlotChanges DEF ResInv, ResTypes

LEMMA FreeKeeps == ASSUME ResInv, NEW s \in Slots, Free(s) PROVE ResInv'
<1>1. /\ Mounted(s) /\ cli[s] = NoSession /\ res' = [res EXCEPT ![s] = NoResource]
      /\ UNCHANGED <<cli, refused>> /\ caches' = caches - (IF res[s].pdc THEN 1 ELSE 0)
  BY DEF Free
<1>2. caches' = caches + 0 - (IF Mounted(s) /\ res[s].pdc THEN 1 ELSE 0)
  BY <1>1 DEF ResInv, CachesInv
<1>3. QED
  BY <1>1, <1>2, SlotChanges DEF ResInv, ResTypes

\* A session is made with the names of the Resource, or given up.
LEMMA SessionKeeps ==
    ASSUME ResInv, NEW s \in Slots,
           \/ Mounted(s) /\ cli' = [cli EXCEPT ![s] = res[s].names]
           \/ cli' = [cli EXCEPT ![s] = NoSession],
           UNCHANGED <<res, caches, refused>>
    PROVE  ResInv'
<1>1. Mounted(s) => res[s].names \in Names
  BY MountedIsResource DEF Resources
<1>2. ResTypes' /\ MountsKept'
  BY <1>1 DEF ResInv, ResTypes, MountsKept, Mounted
<1>3. ResourceMatchesSession'
  BY DEF ResInv, ResTypes, ResourceMatchesSession, Mounted
<1>4. CachesInv'
  BY DEF ResInv, CachesInv, CachesAccounted, Cached, Mounted
<1>5. QED BY <1>2, <1>3, <1>4 DEF ResInv

LEMMA ResInvNext == ResInv /\ [ResNext]_resVars => ResInv'
<1> SUFFICES ASSUME ResInv, [ResNext]_resVars PROVE ResInv'
  OBVIOUS
<1>1. ASSUME NEW s \in Slots, NEW p \in Asked, Mount(s, p) PROVE ResInv'
  BY <1>1, MountKeeps
<1>2. ASSUME NEW s \in Slots, Free(s) PROVE ResInv'
  BY <1>2, FreeKeeps
<1>3. ASSUME NEW s \in Slots, CreateConnection(s) \/ FreeConnection(s) PROVE ResInv'
  <2>1. CASE cli' = cli
    BY <1>3, <2>1, OnlyTheCall DEF CreateConnection, FreeConnection
  <2>2. CASE cli' # cli
    BY <1>3, <2>2, SessionKeeps DEF CreateConnection, FreeConnection
  <2>3. QED BY <2>1, <2>2
<1>4. ASSUME NEW s \in Slots, NEW path \in Paths, pathparser(s, path) PROVE ResInv'
  BY <1>4, ParsedKeeps DEF pathparser, Requesting
<1>5. ASSUME NEW s \in Slots, NEW src \in Paths, NEW dst \in Paths, Move(s, src, dst)
      PROVE  ResInv'
  BY <1>5, ParsedKeeps DEF Move, Requesting
<1>6. ASSUME NEW p \in Asked, NEW share_away \in BOOLEAN, MountRefused(p, share_away)
      PROVE  ResInv'
  BY <1>6, OnlyTheCall DEF MountRefused
<1>7. CASE UNCHANGED <<res, cli, caches, refused>>
  BY <1>7, OnlyTheCall
<1>8. QED
  BY <1>1, <1>2, <1>3, <1>4, <1>5, <1>6, <1>7
     DEF ResNext, Return, iftestpath, ParseRefused, QueryFSAllocate, StorePassword, resVars

LEMMA ResInvHolds == ResSpec => []ResInv
  BY ResInvInit, ResInvNext, PTL DEF ResSpec

-------------------------------------------------------------------------------
(* What follows.                                                           *)

\* initResource and NdpMountResource: every setting of a mounted Resource is in
\* its range, and is what the user asked for or the default; no path changes it.
THEOREM SettingsHold == ResSpec => []SettingsInRange
<1>1. ASSUME ResInv PROVE SettingsInRange
  <2> SUFFICES ASSUME NEW s \in Slots, Mounted(s)
               PROVE  LET r == res[s]
                      IN  /\ r.level \in 0 .. 3 /\ Len(r.names) = 3
                          /\ r.easupport \in 0 .. 1
                          /\ r.easupport # r.asked.easupport => r.easupport = 1
                          /\ r.cachetimeout \in 0 .. 600
                          /\ r.cachetimeout # r.asked.cto => r.cachetimeout = 0
                          /\ r.cachedepth \in 0 .. 96 /\ r.cachedepth = r.asked.cld
    BY DEF SettingsInRange
  <2> DEFINE r == res[s]
  <2>1. r \in Resources /\ KeepsMount(r)
    BY <1>1, MountedIsResource
  <2>2. r.names \in Names
    BY <2>1 DEF Resources
  <2>3. Len(r.names) = 3
    BY <2>2, NamesAreThree
  <2>4. /\ r.level \in 0 .. 3 /\ r.easupport \in 0 .. 1 /\ r.cachetimeout \in 0 .. 600
        /\ r.cachedepth \in 0 .. 96
    BY <2>1 DEF Resources
  <2>5. /\ r.easupport # r.asked.easupport => r.easupport = 1
        /\ r.cachetimeout # r.asked.cto => r.cachetimeout = 0
        /\ r.cachedepth = r.asked.cld
    BY <2>1, SettingRange DEF KeepsMount
  <2>6. QED BY <2>3, <2>4, <2>5
<1>2. QED BY <1>1, ResInvHolds, PTL

\* pathparser, NdpCreateConnection, NdpMove: the names in a Resource and the
\* session of its connection change together or not at all.
THEOREM ResourceAndSession == ResSpec => []ResourceMatchesSession
<1>1. ResInv => ResourceMatchesSession
  BY DEF ResInv
<1>2. QED BY <1>1, ResInvHolds, PTL

\* NdpMountResource and NdpFreeResource: no directory cache is lost but those
\* of refused mounts, and none is destroyed twice.
THEOREM CachesCounted == ResSpec => []CachesAccounted
<1>1. ResInv => CachesAccounted
  BY DEF ResInv, CachesInv
<1>2. QED BY <1>1, ResInvHolds, PTL

-------------------------------------------------------------------------------
(* Names that are equal but for the case of their letters.                 *)

LEMMA SameNameEmpty ==
    ASSUME NEW a \in Words, NEW b \in Words, SameName(a, b)
    PROVE  a = <<>> <=> b = <<>>
<1>1. DOMAIN Fold(a) = DOMAIN a /\ DOMAIN Fold(b) = DOMAIN b
  BY DEF Fold
<1>2. DOMAIN a = DOMAIN b
  BY <1>1 DEF SameName
<1>3. a \in Seq(Letters) /\ b \in Seq(Letters)
  BY DEF Words
<1>4. Len(a) \in Nat /\ DOMAIN a = 1 .. Len(a) /\ Len(b) \in Nat /\ DOMAIN b = 1 .. Len(b)
  BY <1>3, LenProperties, Zenon
<1>5. Len(a) = 0 <=> Len(b) = 0
  <2>1. 1 .. Len(a) = 1 .. Len(b)
    BY <1>2, <1>4, Zenon
  <2>2. 1 \in 1 .. Len(a) <=> 1 \in 1 .. Len(b)
    BY <2>1, Zenon
  <2>3. (1 \in 1 .. Len(a) <=> Len(a) # 0) /\ (1 \in 1 .. Len(b) <=> Len(b) # 0)
    BY <1>4
  <2>4. QED BY <2>2, <2>3, Zenon
<1>6. (Len(a) = 0 <=> a = <<>>) /\ (Len(b) = 0 <=> b = <<>>)
  BY <1>3, EmptySeq
<1>7. QED BY <1>5, <1>6

\* Levels depend on which names are empty.
LEMMA SameLevel ==
    ASSUME NEW m \in Names, NEW n \in Names, \A i \in 1 .. 3 : SameName(m[i], n[i])
    PROVE  Level(m) = Level(n)
<1>1. \A i \in 1 .. 3 : m[i] = <<>> <=> n[i] = <<>>
  BY SameNameEmpty DEF Names
<1>2. {i \in 1 .. 3 : m[i] # <<>>} = {i \in 1 .. 3 : n[i] # <<>>}
  BY <1>1
<1>3. QED BY <1>2 DEF Level

\* NdpRsrcCompare takes Resources of different levels for the same only after
\* pathparser has written names into one of them.
THEOREM EqualByParsing == ResSpec => []EqualOnlyByParsing
<1>1. ASSUME ResInv PROVE EqualOnlyByParsing
  <2> SUFFICES ASSUME NEW s \in Slots, NEW t \in Slots, Mounted(s), Mounted(t),
                      RsrcCompare(res[s], res[t]), ~res[s].parsed, ~res[t].parsed
               PROVE  res[s].level = res[t].level
    BY DEF EqualOnlyByParsing
  <2>1. /\ res[s] \in Resources /\ KeepsMount(res[s])
        /\ res[t] \in Resources /\ KeepsMount(res[t])
    BY <1>1, MountedIsResource
  <2>2. res[s].names \in Names /\ res[t].names \in Names
    BY <2>1 DEF Resources
  <2>3. Level(res[s].names) = Level(res[t].names)
    BY <2>2, SameLevel DEF RsrcCompare
  <2>4. QED BY <2>1, <2>3 DEF KeepsMount
<1>2. QED BY <1>1, ResInvHolds, PTL

-------------------------------------------------------------------------------
(* The share a path is served by.                                          *)

\* What the components of a path name, behind the names of the mount.
Served(r, path) == SubSeq(r.asked.names, 1, r.level)
                     \o SubSeq(path, 1, Min({3 - r.level, Len(path)}))

LEMMA ServedNames ==
    ASSUME NEW r \in Resources, KeepsMount(r), NEW path \in Paths, NEW i \in 1 .. 3
    PROVE  (IF i <= Len(Served(r, path)) THEN Served(r, path)[i] ELSE <<>>)
             = IF i <= r.level THEN r.names[i] ELSE Component(r, path, i)
<1> DEFINE m == Min({3 - r.level, Len(path)})
           above == SubSeq(r.asked.names, 1, r.level)
           below == SubSeq(path, 1, m)
<1>1. /\ r.level \in 0 .. 3 /\ r.asked.names \in Names /\ r.names \in Names
      /\ path \in Seq(Seq(Letters) \ {<<>>}) /\ Len(path) \in Nat
  BY AskedAssumption, PathsAssumption DEF Resources, Names, Words
<1>2. m = (IF 3 - r.level <= Len(path) THEN 3 - r.level ELSE Len(path))
  BY <1>1, MinOfTwo, SMTT(30)
<1>3. m \in Nat /\ m <= Len(path) /\ m <= 3 - r.level /\ (m < 3 - r.level => m = Len(path))
  BY <1>1, <1>2
<1> HIDE DEF m
<1>4. above \in Seq(Words) /\ Len(above) = r.level /\ \A j \in 1 .. r.level : above[j] = r.names[j]
  <2>1. \A j \in 1 .. r.level : r.asked.names[j] \in Words
    BY <1>1 DEF Names
  <2>2. /\ above \in Seq(Words) /\ Len(above) = (IF 1 <= r.level THEN r.level - 1 + 1 ELSE 0)
        /\ \A j \in 1 .. r.level - 1 + 1 : above[j] = r.asked.names[1 + j - 1]
    BY <1>1, <2>1, SubSeqProperties
  <2>3. QED BY <1>1, <2>2 DEF KeepsMount
<1>5. below \in Seq(Words) /\ Len(below) = m /\ \A j \in 1 .. m : below[j] = path[j]
  <2>1. \A j \in 1 .. m : path[j] \in Words
    BY <1>1, <1>3, ElementOfSeq DEF Words
  <2>2. /\ below \in Seq(Words) /\ Len(below) = (IF 1 <= m THEN m - 1 + 1 ELSE 0)
        /\ \A j \in 1 .. m - 1 + 1 : below[j] = path[1 + j - 1]
    BY <1>3, <2>1, SubSeqProperties
  <2>3. QED BY <1>3, <2>2
<1>6. Served(r, path) = above \o below
  BY DEF Served, m
<1> HIDE DEF above, below
<1>7. /\ Len(above \o below) = r.level + m
      /\ \A j \in 1 .. r.level + m : (above \o below)[j] =
            IF j <= r.level THEN above[j] ELSE below[j - r.level]
  <2>1. /\ Len(above \o below) = Len(above) + Len(below)
        /\ \A j \in 1 .. Len(above) + Len(below) : (above \o below)[j] =
              IF j <= Len(above) THEN above[j] ELSE below[j - Len(above)]
    BY <1>4, <1>5, ConcatProperties, Zenon
  <2>2. Len(above) = r.level /\ Len(below) = m
    BY <1>4, <1>5
  <2>3. QED BY <2>1, <2>2, Zenon
<1>8. CASE i <= r.level
  BY <1>1, <1>3, <1>4, <1>6, <1>7, <1>8
<1>9. CASE i > r.level /\ i <= r.level + m
  <2>1. i - r.level \in 1 .. m /\ i - r.level <= Len(path)
    BY <1>1, <1>3, <1>9
  <2>2. Component(r, path, i) = path[i - r.level]
    BY <1>9, <2>1, ComponentIsName
  <2>3. Served(r, path)[i] = path[i - r.level]
    <3>1. i \in 1 .. r.level + m /\ ~(i <= r.level)
      BY <1>1, <1>3, <1>9
    <3>2. (above \o below)[i] = below[i - r.level]
      BY <1>7, <3>1, Zenon
    <3>3. below[i - r.level] = path[i - r.level]
      BY <1>5, <2>1, Zenon
    <3>4. QED BY <1>6, <3>2, <3>3, Zenon
  <2>4. QED BY <1>1, <1>3, <1>6, <1>7, <1>9, <2>2, <2>3
<1>10. CASE i > r.level + m
  <2>1. i - r.level > Len(path) /\ i > r.level
    BY <1>1, <1>3, <1>10
  <2>2. Component(r, path, i) = <<>>
    BY <2>1, ComponentIsName
  <2>3. QED BY <1>1, <1>3, <1>6, <1>7, <1>10, <2>1, <2>2
<1>11. QED BY <1>1, <1>3, <1>8, <1>9, <1>10

\* Every name that pathparser keeps or takes is the one that the path names.
LEMMA NewNamesServe ==
    ASSUME NEW r \in Resources, KeepsMount(r), NEW path \in Paths, NEW i \in 1 .. 3
    PROVE  SameName(NewNames(r, path)[i],
                    IF i <= Len(Served(r, path)) THEN Served(r, path)[i] ELSE <<>>)
<1>1. r.level \in 0 .. 3
  BY DEF Resources
<1>2. CASE i <= r.level
  <2>1. NewNames(r, path)[i] = r.names[i]
    BY <1>1, <1>2, NewNamesAreNames
  <2>2. QED BY <1>2, <2>1, ServedNames DEF SameName
<1>3. CASE i > r.level
  <2>1. NewNames(r, path)[i] = IF Differs(r.names[i], Component(r, path, i))
                               THEN Component(r, path, i) ELSE r.names[i]
    BY <1>3 DEF NewNames
  <2>2. SameName(NewNames(r, path)[i], Component(r, path, i))
    BY <2>1 DEF Differs, SameName
  <2>3. ~(i <= r.level)
    BY <1>1, <1>3
  <2>4. QED BY <2>2, <2>3, ServedNames
<1>4. QED BY <1>1, <1>2, <1>3

\* pathparser serves a path from a session to the workgroup, server and share
\* that it names, kept or new, whatever the paths before it have named.
THEOREM ShareParsed == ResSpec => []ParsedShare
<1>1. ResInit => ParsedShare
  BY DEF ResInit, ParsedShare
<1>2. ASSUME ResInv, ParsedShare, [ResNext]_resVars PROVE ParsedShare'
  <2>1. ASSUME NEW s \in Slots, NEW path \in Paths, pathparser(s, path) PROVE ParsedShare'
    <3> DEFINE r == res[s]
               q == Reparsed(r, path)
    <3>1. /\ r \in Resources /\ KeepsMount(r) /\ cli[s] # NoSession
          /\ UNCHANGED <<caches, refused>> /\ Parsed(s, path)
          /\ last'.op = "parse" /\ last'.slot = s /\ last'.path = path
      BY <1>2, <2>1, MountedIsResource
         DEF pathparser, Requesting, ResInv, ResourceMatchesSession
    <3>2. res' = [res EXCEPT ![s] = q] /\ cli'[s] = NewNames(r, path)
      BY <1>2, <3>1, ParsedKeeps
    <3>3. res'[s] = q
      BY <1>2, <3>2 DEF ResInv, ResTypes
    <3>4. q.asked = r.asked /\ q.level = r.level
      BY <3>1 DEF Reparsed, Resources
    <3>5. SubSeq(q.asked.names, 1, q.level) \o SubSeq(path, 1, Min({3 - q.level, Len(path)}))
            = Served(r, path)
      BY <3>4 DEF Served
    <3> HIDE DEF q, r
    <3>6. \A i \in 1 .. 3 :
             SameName(cli'[s][i], IF i <= Len(Served(r, path)) THEN Served(r, path)[i] ELSE <<>>)
      BY <3>1, <3>2, NewNamesServe
    <3>7. QED BY <3>1, <3>3, <3>5, <3>6 DEF ParsedShare
  <2>2. CASE UNCHANGED resVars
    BY <1>2, <2>2 DEF ParsedShare, resVars
  <2>3. CASE ResNext /\ ~\E s \in Slots, path \in Paths : pathparser(s, path)
    <3>1. last'.op # "parse"
      BY <2>3 DEF ResNext, Return, Mount, MountRefused, Free, CreateConnection, FreeConnection,
                  iftestpath, ParseRefused, Move, QueryFSAllocate, StorePassword
    <3>2. QED BY <3>1 DEF ParsedShare
  <2>4. QED BY <1>2, <2>1, <2>2, <2>3
<1>3. QED
  BY <1>1, <1>2, ResInvHolds, PTL DEF ResSpec

-------------------------------------------------------------------------------
(* The disk size.                                                          *)

LEMMA Quotient ==
    ASSUME NEW n \in Nat, NEW c \in Nat \ {0}
    PROVE  /\ n \div c \in Nat /\ n % c \in 0 .. c - 1
           /\ n = c * (n \div c) + (n % c)
           /\ c * (n \div c) <= n
  OBVIOUS

\* Nothing wraps to a larger number.
LEMMA Wrapped ==
    ASSUME NEW n \in Nat, NEW w \in Nat \ {0}
    PROVE  n % w \in Nat /\ n % w <= n /\ (n < w => n % w = n)
  OBVIOUS

LEMMA Product ==
    ASSUME NEW a \in Nat, NEW b \in Nat, NEW c \in Nat, NEW d \in Nat, a <= b, c <= d
    PROVE  a * c <= b * d /\ a * c \in Nat
<1>1. a * c <= b * c
  OBVIOUS
<1>2. b * c <= b * d
  OBVIOUS
<1>3. a * c \in Nat /\ b * c \in Nat /\ b * d \in Nat
  OBVIOUS
<1>4. QED BY <1>1, <1>2, <1>3

\* A total that needs the second branch is scaled by at least one.
LEMMA ScaleAtLeastOne ==
    ASSUME NEW d \in Disks, d.total >= UnitWord
    PROVE  Scale(d) \in Nat \ {0}
<1>1. d.total \in Nat /\ UnitWord \in Nat \ {0, 1} /\ UnitWord - 1 \in Nat \ {0}
  BY DisksAssumption, WidthsAssumption
<1>2. /\ Scale(d) \in Nat /\ d.total % (UnitWord - 1) \in 0 .. (UnitWord - 1) - 1
      /\ d.total = (UnitWord - 1) * Scale(d) + (d.total % (UnitWord - 1))
  BY <1>1, Quotient DEF Scale
<1>3. CASE Scale(d) = 0
  BY <1>1, <1>2, <1>3
<1>4. QED BY <1>2, <1>3

\* Whatever branch tells it, a number of units is not told as more space.
LEMMA NeverMore ==
    ASSUME NEW d \in Disks, NEW n \in Nat
    PROVE  Units(d, n) * Sector(d) <= n * d.bsize
<1> DEFINE b == d.bsize
           c == Scale(d)
<1>1. /\ b \in Nat \ {0} /\ d.total \in Nat /\ c \in Nat
      /\ K \in Nat \ {0} /\ SectorWord \in Nat \ {0} /\ UnitWord \in Nat \ {0, 1}
      /\ UnitWord - 1 \in Nat \ {0}
  <2>1. /\ b \in Nat \ {0} /\ d.total \in Nat
        /\ K \in Nat \ {0} /\ SectorWord \in Nat \ {0} /\ UnitWord \in Nat \ {0, 1}
    BY DisksAssumption, WidthsAssumption
  <2>2. UnitWord - 1 \in Nat \ {0}
    BY <2>1
  <2>3. QED BY <2>1, <2>2, Quotient DEF Scale
<1> DEFINE sector == IF b >= SectorWord THEN b \div K ELSE IF d.total >= UnitWord THEN b * c ELSE b
           units == IF b >= SectorWord THEN n * K
                    ELSE IF d.total >= UnitWord THEN n \div c ELSE n
<1>2. Sector(d) = sector % SectorWord /\ Units(d, n) = units % UnitWord
  BY DEF Sector, Units
<1>3. sector \in Nat /\ units \in Nat /\ units * sector <= n * b
  <2>1. CASE b >= SectorWord
    <3>1. b \div K \in Nat /\ K * (b \div K) <= b
      BY <1>1, Quotient
    <3>2. n * (K * (b \div K)) <= n * b
      BY <1>1, <3>1, Product
    <3>3. (n * K) * (b \div K) = n * (K * (b \div K)) /\ n * K \in Nat
      BY <1>1, <3>1
    <3>4. QED BY <2>1, <3>1, <3>2, <3>3
  <2>2. CASE b < SectorWord /\ d.total >= UnitWord
    <3>1. c \in Nat \ {0}
      BY <1>1, <2>2, ScaleAtLeastOne
    <3>2. n \div c \in Nat /\ c * (n \div c) <= n
      BY <3>1, Quotient
    <3>3. (c * (n \div c)) * b <= n * b
      BY <1>1, <3>1, <3>2, Product
    <3>4. (n \div c) * (b * c) = (c * (n \div c)) * b /\ b * c \in Nat
      BY <1>1, <3>1, <3>2
    <3>5. QED BY <1>1, <2>2, <3>2, <3>3, <3>4
  <2>3. CASE b < SectorWord /\ d.total < UnitWord
    BY <1>1, <2>3
  <2>4. QED BY <1>1, <2>1, <2>2, <2>3
<1> HIDE DEF sector, units, c
<1>4. /\ sector % SectorWord \in Nat /\ sector % SectorWord <= sector
      /\ units % UnitWord \in Nat /\ units % UnitWord <= units
  BY <1>1, <1>3, Wrapped
<1>5. (units % UnitWord) * (sector % SectorWord) <= units * sector
  BY <1>3, <1>4, Product
<1>6. /\ (units % UnitWord) * (sector % SectorWord) \in Nat
      /\ units * sector \in Nat /\ n * b \in Nat
  BY <1>1, <1>3, <1>4, Product
<1>7. QED BY <1>2, <1>3, <1>5, <1>6

\* Of what the branches can express, less than one unit is lost.
LEMMA LittleLess ==
    ASSUME NEW d \in Disks, Expressible(d)
    PROVE  d.total * d.bsize - Units(d, d.total) * Sector(d) < d.bsize * Max({1, Scale(d)})
<1> DEFINE b == d.bsize
           n == d.total
           c == Scale(d)
<1>1. /\ b \in Nat \ {0} /\ n \in Nat
      /\ K \in Nat \ {0} /\ SectorWord \in Nat \ {0} /\ UnitWord \in Nat \ {0, 1}
      /\ UnitWord - 1 \in Nat \ {0}
  BY DisksAssumption, WidthsAssumption
<1>2. c \in Nat /\ n = (UnitWord - 1) * c + (n % (UnitWord - 1))
  BY <1>1, Quotient DEF Scale
<1>3. Max({1, c}) \in Nat \ {0} /\ Max({1, c}) >= c
  BY <1>2, MaxOfTwo
<1>4. SUFFICES n * b - Units(d, n) * Sector(d) < b * Max({1, c})
  OBVIOUS
<1> DEFINE m == Max({1, c})
<1>5. b * m \in Nat /\ 0 < b * m /\ b * c <= b * m /\ n * b - n * b = 0
  <2> HIDE DEF m, c
  <2>1. m \in Nat \ {0} /\ m >= c /\ c \in Nat
    BY <1>2, <1>3 DEF m
  <2>2. b * 1 <= b * m /\ b * c <= b * m /\ b * m \in Nat /\ n * b \in Nat
    BY <1>1, <2>1, Product
  <2>3. QED BY <1>1, <2>2
<1>6. CASE b >= SectorWord
  <2>1. n * K < UnitWord /\ b % K = 0 /\ b < K * SectorWord
    BY <1>6 DEF Expressible
  <2> DEFINE q == b \div K
  <2>2. q \in Nat /\ b = K * q
    <3>1. q \in Nat /\ b = K * q + (b % K)
      BY <1>1, Quotient
    <3> HIDE DEF q
    <3>2. K * q \in Nat
      BY <1>1, <3>1
    <3>3. QED BY <2>1, <3>1, <3>2
  <2>3. Sector(d) = q % SectorWord /\ Units(d, n) = (n * K) % UnitWord
    BY <1>6 DEF Sector, Units
  <2> HIDE DEF q
  <2>4. q < SectorWord
    <3>1. SUFFICES ASSUME SectorWord <= q PROVE FALSE
      BY <1>1, <2>2
    <3>2. K * SectorWord <= K * q /\ K * SectorWord \in Nat
      BY <1>1, <2>2, <3>1, Product
    <3>3. QED BY <1>1, <2>1, <2>2, <3>2
  <2>5. Sector(d) = q /\ Units(d, n) = n * K
    <3>1. n * K \in Nat
      BY <1>1
    <3>2. q % SectorWord = q
      BY <1>1, <2>2, <2>4, Wrapped
    <3>3. (n * K) % UnitWord = n * K
      BY <1>1, <2>1, <3>1, Wrapped
    <3>4. QED BY <2>3, <3>2, <3>3
  <2>6. (n * K) * q = n * b
    BY <1>1, <2>2
  <2>7. QED BY <1>5, <2>5, <2>6
<1>7. CASE b < SectorWord /\ n >= UnitWord
  <2>1. n % (UnitWord - 1) < c /\ b * c < SectorWord
    BY <1>1, <1>7 DEF Expressible
  <2>2. Sector(d) = (b * c) % SectorWord /\ Units(d, n) = (n \div c) % UnitWord
    BY <1>1, <1>7 DEF Sector, Units
  <2>3. c \in Nat \ {0}
    BY <1>1, <1>7, ScaleAtLeastOne
  <2> DEFINE q == n \div c
             r == n % c
  <2>4. q \in Nat /\ r \in 0 .. c - 1 /\ n = c * q + r /\ c * q <= n
    BY <1>1, <2>3, Quotient
  <2> HIDE DEF c, q, r
  <2>5. q < UnitWord
    <3>1. SUFFICES ASSUME UnitWord <= q PROVE FALSE
      BY <1>1, <2>4
    <3>2. c * UnitWord <= c * q
      BY <1>1, <2>3, <2>4, <3>1, Product
    <3>3. n % (UnitWord - 1) \in Nat
      BY <1>1, Quotient
    <3>4. (UnitWord - 1) * c + c = c * UnitWord /\ c * UnitWord \in Nat
      BY <1>1, <2>3
    <3>5. n < c * UnitWord
      BY <1>1, <1>2, <2>1, <2>3, <3>3, <3>4
    <3>6. QED BY <1>1, <2>3, <2>4, <3>2, <3>4, <3>5
  <2>6. Sector(d) = b * c /\ Units(d, n) = q
    <3>1. b * c \in Nat
      BY <1>1, <2>3
    <3>2. QED BY <1>1, <2>1, <2>2, <2>4, <2>5, <3>1, Wrapped DEF q
  <2>7. n * b - q * (b * c) = r * b
    <3>1. (c * q + r) * b = q * (b * c) + r * b
      BY <1>1, <2>3, <2>4
    <3>2. q * (b * c) \in Nat /\ r * b \in Nat
      BY <1>1, <2>3, <2>4
    <3>3. QED BY <2>4, <3>1, <3>2
  <2>8. r * b < b * c
    <3>1. r \in Nat /\ r + 1 <= c
      BY <2>3, <2>4
    <3>2. b * (r + 1) <= b * c
      BY <1>1, <2>3, <3>1, Product
    <3>3. b * (r + 1) = r * b + b /\ r * b \in Nat /\ b * c \in Nat
      BY <1>1, <2>3, <3>1
    <3>4. QED BY <1>1, <3>2, <3>3
  <2>9. r * b \in Nat /\ b * c \in Nat
    BY <1>1, <2>3, <2>4
  <2>10. QED BY <1>5, <2>6, <2>7, <2>8, <2>9
<1>8. CASE b < SectorWord /\ n < UnitWord
  <2>1. Sector(d) = b % SectorWord /\ Units(d, n) = n % UnitWord
    BY <1>1, <1>8 DEF Sector, Units
  <2>2. Sector(d) = b /\ Units(d, n) = n
    BY <1>1, <1>8, <2>1, Wrapped
  <2>3. QED BY <1>5, <2>2
<1>9. QED BY <1>1, <1>6, <1>7, <1>8

\* smbwrp_dskattr never tells the host of more space than the server has, and
\* of what its branches can express it loses less than one unit: for disks of
\* every size, and words and blocks of every width.
THEOREM DiskSize == ResSpec => []DiskSizeTold
<1>1. ResInit => DiskSizeTold
  BY DEF ResInit, DiskSizeTold
<1>2. ASSUME DiskSizeTold, [ResNext]_resVars PROVE DiskSizeTold'
  <2>1. ASSUME NEW d \in Disks, QueryFSAllocate(d) PROVE DiskSizeTold'
    <3>1. CASE last' = [op |-> "refused"]
      BY <3>1 DEF DiskSizeTold
    <3>2. CASE last' = [op |-> "disk", disk |-> d, cbSector |-> Sector(d),
                        cUnit |-> Units(d, d.total), cUnitAvail |-> Units(d, d.avail)]
      <4>1. /\ last'.disk = d /\ last'.cbSector = Sector(d)
            /\ last'.cUnit = Units(d, d.total) /\ last'.cUnitAvail = Units(d, d.avail)
        BY <3>2
      <4>2. d.total \in Nat /\ d.avail \in Nat
        BY DisksAssumption
      <4>3. /\ Units(d, d.total) * Sector(d) <= d.total * d.bsize
            /\ Units(d, d.avail) * Sector(d) <= d.avail * d.bsize
        BY <4>2, NeverMore
      <4>4. Expressible(d) =>
              d.total * d.bsize - Units(d, d.total) * Sector(d) < d.bsize * Max({1, Scale(d)})
        BY LittleLess
      <4>5. QED BY <4>1, <4>3, <4>4 DEF DiskSizeTold
    <3>3. QED BY <2>1, <3>1, <3>2 DEF QueryFSAllocate
  <2>2. CASE UNCHANGED resVars
    BY <1>2, <2>2 DEF DiskSizeTold, resVars
  <2>3. CASE ResNext /\ ~\E d \in Disks : QueryFSAllocate(d)
    <3>1. last'.op # "disk"
      BY <2>3 DEF ResNext, Return, Mount, MountRefused, Free, CreateConnection, FreeConnection,
                  iftestpath, pathparser, ParseRefused, Move, StorePassword
    <3>2. QED BY <3>1 DEF DiskSizeTold
  <2>4. QED BY <1>2, <2>1, <2>2, <2>3
<1>3. QED
  BY <1>1, <1>2, PTL DEF ResSpec

-------------------------------------------------------------------------------
(* The password.                                                           *)

LEMMA Digit ==
    ASSUME NEW b \in Nat
    PROVE  fromhex(tohex(b)) = b % 16 /\ b % 16 \in 0 .. 15
<1>1. b % 16 \in 0 .. 15
  OBVIOUS
<1>2. CASE b % 16 <= 9
  <2>1. tohex(b) = (b % 16) + 48
    BY <1>2 DEF tohex
  <2>2. (b % 16) + 48 \in 48 .. 57 /\ ((b % 16) + 48) - 48 = b % 16
    BY <1>1, <1>2
  <2>3. QED BY <1>1, <2>1, <2>2 DEF fromhex
<1>3. CASE b % 16 > 9
  <2>1. tohex(b) = (b % 16) - 10 + 65
    BY <1>1, <1>3 DEF tohex
  <2>2. /\ (b % 16) - 10 + 65 \in 65 .. 70 /\ (b % 16) - 10 + 65 \notin 48 .. 57
        /\ ((b % 16) - 10 + 65) - 65 + 10 = b % 16
    BY <1>1, <1>3
  <2>3. QED BY <1>1, <2>1, <2>2 DEF fromhex
<1>4. QED BY <1>1, <1>2, <1>3

LEMMA Halves ==
    ASSUME NEW b \in 1 .. 255
    PROVE  /\ b \div 16 \in 0 .. 15 /\ (b \div 16) % 16 = b \div 16 /\ b % 16 \in 0 .. 15
           /\ ((b \div 16) * 16 + (b % 16)) % 256 = b
           /\ ((b % 16) * 16 + (b \div 16)) % 256 = (b % 16) * 16 + (b \div 16)
<1>1. b \div 16 \in 0 .. 15 /\ b % 16 \in 0 .. 15 /\ b = 16 * (b \div 16) + (b % 16)
  OBVIOUS
<1> DEFINE h == b \div 16
           l == b % 16
<1>2. h \in 0 .. 15 /\ l \in 0 .. 15 /\ b = 16 * h + l
  BY <1>1
<1> HIDE DEF h, l
<1>3. h % 16 = h /\ h * 16 + l = b /\ b % 256 = b /\ (l * 16 + h) % 256 = l * 16 + h
  BY <1>2
<1>4. QED BY <1>2, <1>3 DEF h, l

LEMMA Twice ==
    ASSUME NEW n \in Nat
    PROVE  2 * n \in Nat /\ (2 * n) \div 2 = n
  OBVIOUS

\* The two characters that stand for a byte.
LEMMA TwoDigits ==
    ASSUME NEW plain \in Seq(1 .. 255), NEW i \in 1 .. Len(plain)
    PROVE  /\ plain[i] \in 1 .. 255
           /\ fromhex(encryptPassword(plain)[2 * i - 1]) = plain[i] \div 16
           /\ fromhex(encryptPassword(plain)[2 * i]) = plain[i] % 16
<1> DEFINE b == plain[i]
<1>1. Len(plain) \in Nat /\ i \in Nat \ {0} /\ i <= Len(plain) /\ b \in 1 .. 255
  <2> DEFINE Bytes == 1 .. 255
  <2>1. plain \in Seq(Bytes)
    OBVIOUS
  <2> HIDE DEF Bytes
  <2>2. Len(plain) \in Nat /\ \A j \in 1 .. Len(plain) : plain[j] \in Bytes
    BY <2>1
  <2>3. i \in Nat \ {0} /\ i <= Len(plain)
    BY <2>2
  <2>4. plain[i] \in 1 .. 255
    BY <2>2 DEF Bytes
  <2>5. QED BY <2>2, <2>3, <2>4
<1>2. /\ 2 * i - 1 \in 1 .. 2 * Len(plain) /\ 2 * i \in 1 .. 2 * Len(plain)
      /\ ((2 * i - 1) + 1) \div 2 = i /\ (2 * i - 1) % 2 = 1
      /\ (2 * i + 1) \div 2 = i /\ (2 * i) % 2 # 1
  BY <1>1
<1>3. encryptPassword(plain)[2 * i - 1] = tohex(b \div 16)
  BY <1>2, Zenon DEF encryptPassword
<1>4. encryptPassword(plain)[2 * i] = tohex(b)
  BY <1>2, Zenon DEF encryptPassword
<1> HIDE DEF b
<1>5. b \div 16 \in Nat /\ (b \div 16) % 16 = b \div 16 /\ b \in Nat
  BY <1>1, Halves, SMTT(30)
<1>6. QED BY <1>1, <1>3, <1>4, <1>5, Digit DEF b

\* A stored password is read back, or read back with the halves of its bytes
\* swapped if the compiler reads the two digits the other way round: for
\* passwords of every length.
THEOREM PasswordReadBack == ResSpec => []PasswordKept
<1>1. ResInit => PasswordKept
  BY DEF ResInit, PasswordKept
<1>2. ASSUME PasswordKept, [ResNext]_resVars PROVE PasswordKept'
  <2>1. ASSUME NEW plain \in Passwords, StorePassword(plain) PROVE PasswordKept'
    <3> DEFINE crypt == encryptPassword(plain)
    <3>1. PICK inOrder \in BOOLEAN :
             last' = [op |-> "password", plain |-> plain, inOrder |-> inOrder,
                      back |-> decryptPassword(crypt, inOrder)]
      BY <2>1 DEF StorePassword
    <3>2. /\ last'.plain = plain /\ last'.inOrder = inOrder
          /\ last'.back = decryptPassword(crypt, inOrder)
      BY <3>1
    <3>3. plain \in Seq(1 .. 255) /\ Len(plain) \in Nat /\ DOMAIN plain = 1 .. Len(plain)
      BY PasswordsAssumption
    <3>4. Len(crypt) = 2 * Len(plain) /\ Len(crypt) \div 2 = Len(plain)
      <4>1. 2 * Len(plain) \in Nat /\ (2 * Len(plain)) \div 2 = Len(plain)
        BY <3>3, Twice
      <4>2. Len(crypt) = 2 * Len(plain)
        BY <4>1 DEF encryptPassword
      <4>3. QED BY <4>1, <4>2
    <3>5. ASSUME NEW i \in 1 .. Len(plain)
          PROVE  /\ plain[i] \in 1 .. 255
                 /\ fromhex(crypt[2 * i - 1]) = plain[i] \div 16
                 /\ fromhex(crypt[2 * i]) = plain[i] % 16
      BY <3>3, TwoDigits
    <3> HIDE DEF crypt
    <3>6. CASE inOrder
      <4>1. \A i \in 1 .. Len(plain) :
               (fromhex(crypt[2 * i - 1]) * 16 + fromhex(crypt[2 * i])) % 256 = plain[i]
        BY <3>5, Halves, ZenonT(30)
      <4>2. decryptPassword(crypt, inOrder) = [i \in 1 .. Len(plain) |-> plain[i]]
        BY <3>4, <3>6, <4>1 DEF decryptPassword
      <4>3. plain = [i \in 1 .. Len(plain) |-> plain[i]]
        BY <3>3
      <4>4. QED BY <3>2, <3>6, <4>2, <4>3 DEF PasswordKept
    <3>7. CASE ~inOrder
      <4>1. \A i \in 1 .. Len(plain) :
               (fromhex(crypt[2 * i]) * 16 + fromhex(crypt[2 * i - 1])) % 256
                 = (plain[i] % 16) * 16 + (plain[i] \div 16)
        BY <3>5, Halves, ZenonT(30)
      <4>2. decryptPassword(crypt, inOrder)
              = [i \in 1 .. Len(plain) |-> (plain[i] % 16) * 16 + (plain[i] \div 16)]
        BY <3>4, <3>7, <4>1 DEF decryptPassword
      <4>3. QED BY <3>2, <3>3, <3>7, <4>2 DEF PasswordKept
    <3>8. QED BY <3>6, <3>7
  <2>2. CASE UNCHANGED resVars
    BY <1>2, <2>2 DEF PasswordKept, resVars
  <2>3. CASE ResNext /\ ~\E plain \in Passwords : StorePassword(plain)
    <3>1. last'.op # "password"
      BY <2>3 DEF ResNext, Return, Mount, MountRefused, Free, CreateConnection, FreeConnection,
                  iftestpath, pathparser, ParseRefused, Move, QueryFSAllocate
    <3>2. QED BY <3>1 DEF PasswordKept
  <2>4. QED BY <1>2, <2>1, <2>2, <2>3
<1>3. QED
  BY <1>1, <1>2, PTL DEF ResSpec

-------------------------------------------------------------------------------
(* Moves.                                                                  *)

CharSet == Letters \cup {Sep}

\* Where the j-th name of a path ends.
Ends(path, j) == Len(Chars(SubSeq(path, 1, j)))

LEMMA CharsAreChars ==
    ASSUME NEW p \in Seq(Words)
    PROVE  /\ Chars(p) \in Seq(CharSet)
           /\ [i \in DOMAIN p |-> <<Sep>> \o p[i]] \in Seq(Seq(CharSet))
<1> DEFINE m == [i \in 1 .. Len(p) |-> <<Sep>> \o p[i]]
<1>1. ASSUME NEW i \in 1 .. Len(p) PROVE <<Sep>> \o p[i] \in Seq(CharSet)
  <2>1. p[i] \in Seq(CharSet) /\ <<Sep>> \in Seq(CharSet)
    BY DEF Words, CharSet
  <2>2. QED BY <2>1, ConcatProperties
<1>2. m \in [1 .. Len(p) -> Seq(CharSet)] /\ Len(p) \in Nat
  BY <1>1
<1>3. m \in Seq(Seq(CharSet))
  <2> HIDE DEF m
  <2>1. QED BY <1>2
<1>4. m = [i \in DOMAIN p |-> <<Sep>> \o p[i]]
  BY LenProperties
<1>5. QED BY <1>3, <1>4, FlattenIsSeq DEF Chars

LEMMA CharsConcat ==
    ASSUME NEW p \in Seq(Words), NEW q \in Seq(Words)
    PROVE  Chars(p \o q) = Chars(p) \o Chars(q)
<1> DEFINE Marked(s) == [i \in DOMAIN s |-> <<Sep>> \o s[i]]
<1>1. /\ p \o q \in Seq(Words) /\ Len(p \o q) = Len(p) + Len(q)
      /\ \A i \in 1 .. Len(p) + Len(q) : (p \o q)[i] = IF i <= Len(p) THEN p[i] ELSE q[i - Len(p)]
      /\ Len(p) \in Nat /\ Len(q) \in Nat
      /\ DOMAIN p = 1 .. Len(p) /\ DOMAIN q = 1 .. Len(q)
  BY ConcatProperties, LenProperties
<1>2. Marked(p) \in Seq(Seq(CharSet)) /\ Marked(q) \in Seq(Seq(CharSet))
        /\ Marked(p \o q) \in Seq(Seq(CharSet))
  BY <1>1, CharsAreChars
<1>3. Len(Marked(p)) = Len(p) /\ Len(Marked(q)) = Len(q) /\ Len(Marked(p \o q)) = Len(p \o q)
  <2>1. ASSUME NEW s \in Seq(Words), Marked(s) \in Seq(Seq(CharSet))
        PROVE  Len(Marked(s)) = Len(s)
    <3>1. DOMAIN Marked(s) = 1 .. Len(s) /\ Len(s) \in Nat
      BY LenProperties
    <3>2. DOMAIN Marked(s) = 1 .. Len(Marked(s)) /\ Len(Marked(s)) \in Nat
      BY <2>1, LenProperties
    <3> HIDE DEF Marked
    <3>3. QED BY <3>1, <3>2
  <2> HIDE DEF Marked
  <2>2. QED BY <1>1, <1>2, <2>1
<1>4. ASSUME NEW i \in 1 .. Len(p) + Len(q)
      PROVE  Marked(p \o q)[i] = (Marked(p) \o Marked(q))[i]
  <2>1. Marked(p \o q)[i] = <<Sep>> \o (p \o q)[i]
    BY <1>1
  <2>2. (Marked(p) \o Marked(q))[i]
          = IF i <= Len(p) THEN Marked(p)[i] ELSE Marked(q)[i - Len(p)]
    <3> HIDE DEF Marked
    <3>1. QED BY <1>2, <1>3, ConcatProperties
  <2>3. CASE i <= Len(p)
    <3>1. Marked(p)[i] = <<Sep>> \o p[i] /\ (p \o q)[i] = p[i]
      BY <1>1, <2>3
    <3> HIDE DEF Marked
    <3>2. QED BY <2>1, <2>2, <2>3, <3>1, Zenon
  <2>4. CASE ~(i <= Len(p))
    <3>1. i - Len(p) \in 1 .. Len(q)
      BY <1>1, <2>4
    <3>2. Marked(q)[i - Len(p)] = <<Sep>> \o q[i - Len(p)] /\ (p \o q)[i] = q[i - Len(p)]
      BY <1>1, <2>4, <3>1
    <3> HIDE DEF Marked
    <3>3. QED BY <2>1, <2>2, <2>4, <3>2, Zenon
  <2>5. QED BY <2>3, <2>4
<1>5. Chars(p) = FlattenSeq(Marked(p)) /\ Chars(q) = FlattenSeq(Marked(q))
        /\ Chars(p \o q) = FlattenSeq(Marked(p \o q))
  BY DEF Chars
<1> HIDE DEF Marked
<1>6. Marked(p) \o Marked(q) \in Seq(Seq(CharSet))
        /\ Len(Marked(p) \o Marked(q)) = Len(Marked(p)) + Len(Marked(q))
  BY <1>2, ConcatProperties
<1>7. Marked(p \o q) = Marked(p) \o Marked(q)
  BY <1>1, <1>2, <1>3, <1>4, <1>6, SeqEqual
<1>8. FlattenSeq(Marked(p) \o Marked(q)) = FlattenSeq(Marked(p)) \o FlattenSeq(Marked(q))
  BY <1>2, FlattenConcat, Zenon
<1>9. QED BY <1>5, <1>7, <1>8

LEMMA CharsOne == ASSUME NEW c \in Words PROVE Chars(<<c>>) = <<Sep>> \o c
<1> DEFINE e == <<Sep>> \o c
<1>1. e \in Seq(CharSet)
  <2>1. c \in Seq(CharSet) /\ <<Sep>> \in Seq(CharSet)
    BY DEF Words, CharSet
  <2>2. QED BY <2>1, ConcatProperties
<1>2. [i \in DOMAIN <<c>> |-> <<Sep>> \o <<c>>[i]] = Append(<<>>, e)
  OBVIOUS
<1> HIDE DEF e
<1>3. FlattenSeq(Append(<<>>, e)) = FlattenSeq(<<>>) \o e
  <2>1. <<>> \in Seq(Seq(CharSet))
    OBVIOUS
  <2>2. QED BY <1>1, <2>1, FlattenAppend, Zenon
<1>4. FlattenSeq(<<>>) = <<>> /\ <<>> \o e = e
  BY <1>1, FlattenEmpty, ConcatEmptySeq
<1>5. QED BY <1>2, <1>3, <1>4 DEF Chars, e

LEMMA CharsEmpty == Chars(<<>>) = <<>>
<1> DEFINE m == [i \in DOMAIN <<>> |-> <<Sep>> \o <<>>[i]]
<1>1. m \in Seq(Seq(CharSet)) /\ DOMAIN m = {}
  <2>1. <<>> \in Seq(Words)
    OBVIOUS
  <2>2. QED BY <2>1, CharsAreChars
<1> HIDE DEF m
<1>2. m = <<>>
  BY <1>1
<1>3. Chars(<<>>) = FlattenSeq(m)
  BY DEF Chars, m
<1>4. QED BY <1>2, <1>3, FlattenEmpty

LEMMA CharsBegin ==
    ASSUME NEW p \in Seq(Words), p # <<>>
    PROVE  Len(Chars(p)) >= 1 /\ Chars(p)[1] = Sep
<1> DEFINE h == p[1]
           t == SubSeq(p, 2, Len(p))
<1>1. Len(p) \in Nat /\ Len(p) >= 1 /\ 1 \in 1 .. Len(p) /\ Len(p) \in 1 .. Len(p)
  OBVIOUS
<1>2. h \in Words /\ t \in Seq(Words)
  <2>1. \A i \in 2 .. Len(p) : p[i] \in Words
    BY <1>1
  <2>2. t \in Seq(Words)
    BY <1>1, <2>1, SubSeqProperties
  <2>3. QED BY <1>1, <2>2
<1>3. p = <<h>> \o t
  <2>1. SubSeq(p, 1, Len(p)) = <<p[1]>> \o SubSeq(p, 1 + 1, Len(p))
    BY <1>1, SubSeqRecursiveFirst
  <2>2. QED BY <2>1, SubSeqFull
<1> HIDE DEF h, t
<1>4. Chars(p) = (<<Sep>> \o h) \o Chars(t)
  <2>1. <<h>> \in Seq(Words)
    BY <1>2
  <2>2. QED BY <1>2, <1>3, <2>1, CharsConcat, CharsOne
<1>5. <<Sep>> \in Seq(CharSet) /\ h \in Seq(CharSet) /\ Chars(t) \in Seq(CharSet)
  <2>1. <<Sep>> \in Seq(CharSet) /\ h \in Seq(CharSet)
    BY <1>2 DEF Words, CharSet
  <2>2. QED BY <1>2, <2>1, CharsAreChars
<1>6. <<Sep>> \o h \in Seq(CharSet) /\ Len(<<Sep>> \o h) = 1 + Len(h) /\ (<<Sep>> \o h)[1] = Sep
  <2>1. Len(<<Sep>>) = 1 /\ <<Sep>>[1] = Sep /\ Len(h) \in Nat
    BY <1>5
  <2>2. QED BY <1>5, <2>1, ConcatProperties
<1>7. Len(h) \in Nat /\ Len(Chars(t)) \in Nat
  BY <1>5
<1>8. Len(Chars(p)) = 1 + Len(h) + Len(Chars(t)) /\ Chars(p)[1] = Sep
  BY <1>4, <1>5, <1>6, <1>7, ConcatProperties
<1>9. QED BY <1>7, <1>8

LEMMA PathSplit ==
    ASSUME NEW p \in Seq(Words), NEW j \in 0 .. Len(p)
    PROVE  /\ SubSeq(p, 1, j) \in Seq(Words) /\ SubSeq(p, j + 1, Len(p)) \in Seq(Words)
           /\ Chars(p) = Chars(SubSeq(p, 1, j)) \o Chars(SubSeq(p, j + 1, Len(p)))
           /\ Ends(p, j) \in Nat
<1>1. /\ Len(p) \in Nat /\ \A i \in 1 .. j : p[i] \in Words
      /\ \A i \in j + 1 .. Len(p) : p[i] \in Words
  OBVIOUS
<1>2. SubSeq(p, 1, j) \in Seq(Words) /\ SubSeq(p, j + 1, Len(p)) \in Seq(Words)
  BY <1>1, SubSeqProperties
<1>3. p = SubSeq(p, 1, j) \o SubSeq(p, j + 1, Len(p))
  <2>1. 1 \in 1 .. Len(p) + 1 /\ j \in 1 - 1 .. Len(p) /\ Len(p) \in j .. Len(p)
    BY <1>1
  <2>2. SubSeq(p, 1, j) \o SubSeq(p, j + 1, Len(p)) = SubSeq(p, 1, Len(p))
    BY <2>1, ConcatAdjacentSubSeq
  <2>3. QED BY <2>2, SubSeqFull
<1>4. Ends(p, j) \in Nat
  BY <1>2, CharsAreChars, LenProperties DEF Ends
<1>5. QED BY <1>2, <1>3, <1>4, CharsConcat

\* Name c stands in a behind the first k characters, after a backslash, and ends
\* there.
Stands(a, k, c) ==
    /\ k + 1 + Len(c) <= Len(a)
    /\ \A i \in 1 .. Len(c) : a[k + 1 + i] = c[i]
    /\ k + 1 + Len(c) < Len(a) => a[k + 2 + Len(c)] = Sep

LEMMA NamesStand ==
    ASSUME NEW p \in Seq(Words), NEW j \in 1 .. Len(p)
    PROVE  /\ Ends(p, j) = Ends(p, j - 1) + 1 + Len(p[j])
           /\ Stands(Chars(p), Ends(p, j - 1), p[j])
<1> DEFINE c == p[j]
           k == Ends(p, j - 1)
           front == SubSeq(p, 1, j - 1)
           upto == SubSeq(p, 1, j)
           rest == SubSeq(p, j + 1, Len(p))
<1>1. /\ Len(p) \in Nat /\ j \in Nat /\ j >= 1 /\ j <= Len(p)
      /\ j - 1 \in 0 .. Len(p) /\ j \in 0 .. Len(p) /\ 1 \in 1 .. Len(p) /\ j \in 1 .. Len(p)
  OBVIOUS
<1>2. c \in Words /\ Len(c) \in Nat
  BY DEF Words
<1>3. /\ front \in Seq(Words) /\ upto \in Seq(Words) /\ rest \in Seq(Words)
      /\ Chars(p) = Chars(upto) \o Chars(rest) /\ k \in Nat
  BY <1>1, PathSplit
<1>4. k = Len(Chars(front))
  BY DEF Ends
<1>5. upto = front \o <<c>>
  BY <1>1, SubSeqRecursiveSecond
<1>6. Len(rest) = IF j + 1 <= Len(p) THEN Len(p) - (j + 1) + 1 ELSE 0
  <2>1. \A i \in j + 1 .. Len(p) : p[i] \in Words
    BY <1>1
  <2>2. QED BY <1>1, <2>1, SubSeqProperties
<1>7. Ends(p, j) = Len(Chars(upto))
  BY DEF Ends
<1> HIDE DEF front, upto, rest, c, k
<1>8. Chars(upto) = Chars(front) \o (<<Sep>> \o c)
  <2>1. <<c>> \in Seq(Words)
    BY <1>2
  <2>2. Chars(front \o <<c>>) = Chars(front) \o Chars(<<c>>)
    BY <1>3, <2>1, CharsConcat, Zenon
  <2>3. Chars(<<c>>) = <<Sep>> \o c
    BY <1>2, CharsOne
  <2>4. QED BY <1>5, <2>2, <2>3, Zenon
<1> DEFINE mark == <<Sep>> \o c
           F == Chars(front)
           U == Chars(upto)
           R == Chars(rest)
<1>9. F \in Seq(CharSet) /\ U \in Seq(CharSet) /\ R \in Seq(CharSet) /\ Len(R) \in Nat
  BY <1>3, CharsAreChars, LenProperties
<1>10. /\ mark \in Seq(CharSet) /\ Len(mark) = 1 + Len(c)
       /\ \A i \in 1 .. Len(c) : mark[1 + i] = c[i]
  <2>1. <<Sep>> \in Seq(CharSet) /\ c \in Seq(CharSet) /\ Len(<<Sep>>) = 1
    BY <1>2 DEF Words, CharSet
  <2>2. /\ <<Sep>> \o c \in Seq(CharSet) /\ Len(<<Sep>> \o c) = 1 + Len(c)
        /\ \A i \in 1 .. 1 + Len(c) : (<<Sep>> \o c)[i] = IF i <= 1 THEN <<Sep>>[i] ELSE c[i - 1]
    BY <2>1, ConcatProperties
  <2>3. \A i \in 1 .. Len(c) : 1 + i \in 1 .. 1 + Len(c) /\ ~(1 + i <= 1) /\ (1 + i) - 1 = i
    BY <1>2
  <2>4. QED BY <2>2, <2>3
<1>11. (R = <<>> /\ Len(R) = 0) \/ (Len(R) >= 1 /\ R[1] = Sep)
  <2>1. CASE rest = <<>>
    BY <2>1, CharsEmpty
  <2>2. CASE rest # <<>>
    BY <1>3, <2>2, CharsBegin
  <2>3. QED BY <2>1, <2>2
<1>12. U = F \o mark /\ Chars(p) = U \o R /\ k = Len(F) /\ Ends(p, j) = Len(U)
  BY <1>3, <1>4, <1>7, <1>8
<1> HIDE DEF mark, F, U, R
<1>13. /\ Len(U) = k + 1 + Len(c)
       /\ \A i \in 1 .. Len(c) : U[k + 1 + i] = c[i]
  <2>1. /\ Len(F \o mark) = Len(F) + Len(mark)
        /\ \A i \in 1 .. Len(F) + Len(mark) :
              (F \o mark)[i] = IF i <= Len(F) THEN F[i] ELSE mark[i - Len(F)]
    <3>1. F \in Seq(CharSet) /\ mark \in Seq(CharSet)
      BY <1>9, <1>10
    <3>2. QED BY <3>1, ConcatProperties, Zenon
  <2>2. ASSUME NEW i \in 1 .. Len(c) PROVE U[k + 1 + i] = c[i]
    <3>1. /\ k + 1 + i \in 1 .. Len(F) + Len(mark) /\ ~(k + 1 + i <= Len(F))
          /\ (k + 1 + i) - Len(F) = 1 + i
      BY <1>2, <1>3, <1>10, <1>12
    <3>2. QED BY <1>10, <1>12, <2>1, <3>1
  <2>3. QED BY <1>2, <1>3, <1>10, <1>12, <2>1, <2>2
<1>14. /\ Len(U \o R) = Len(U) + Len(R)
       /\ \A i \in 1 .. Len(U) + Len(R) :
              (U \o R)[i] = IF i <= Len(U) THEN U[i] ELSE R[i - Len(U)]
  BY <1>9, ConcatProperties
<1>15. \A i \in 1 .. Len(c) : Chars(p)[k + 1 + i] = c[i]
  <2> SUFFICES ASSUME NEW i \in 1 .. Len(c) PROVE Chars(p)[k + 1 + i] = c[i]
    OBVIOUS
  <2>1. k + 1 + i \in 1 .. Len(U) + Len(R) /\ k + 1 + i <= Len(U)
    BY <1>2, <1>3, <1>9, <1>13
  <2>2. QED BY <1>12, <1>13, <1>14, <2>1
<1>16. ASSUME k + 1 + Len(c) < Len(Chars(p)) PROVE Chars(p)[k + 2 + Len(c)] = Sep
  <2>1. Len(R) >= 1 /\ R[1] = Sep
    BY <1>2, <1>3, <1>9, <1>11, <1>12, <1>13, <1>14, <1>16
  <2>2. /\ k + 2 + Len(c) \in 1 .. Len(U) + Len(R) /\ ~(k + 2 + Len(c) <= Len(U))
        /\ k + 2 + Len(c) - Len(U) = 1
    BY <1>2, <1>3, <1>9, <1>13, <2>1
  <2>3. QED BY <1>12, <1>14, <2>1, <2>2
<1>17. k + 1 + Len(c) <= Len(Chars(p))
  BY <1>2, <1>3, <1>9, <1>12, <1>13, <1>14
<1>18. QED BY <1>12, <1>13, <1>15, <1>16, <1>17 DEF Stands, c, k

UpperOf(ch) == IF ch = Sep THEN Sep ELSE Upper[ch]

\* The first m characters of a and b differ at most in case.
Agree(a, b, m) == /\ m <= Len(a) /\ m <= Len(b)
                  /\ \A i \in 1 .. m : UpperOf(a[i]) = UpperOf(b[i])

LEMMA UpperOfSep ==
    UpperOf(Sep) = Sep /\ \A l \in Letters : UpperOf(l) = Upper[l] /\ UpperOf(l) # Sep
  BY LettersAssumption DEF UpperOf

\* Names in the same place: the other is not shorter, and begins alike.
LEMMA NotShorter ==
    ASSUME NEW a \in Seq(CharSet), NEW b \in Seq(CharSet), NEW c \in Words, NEW d \in Words,
           NEW k \in Nat, NEW m \in Nat, Stands(a, k, c), Stands(b, k, d), Agree(a, b, m),
           m >= k + 1 + Len(c)
    PROVE  Len(d) >= Len(c) /\ \A i \in 1 .. Len(c) : Upper[c[i]] = Upper[d[i]]
<1>1. Len(c) \in Nat /\ Len(d) \in Nat /\ Len(a) \in Nat /\ Len(b) \in Nat
  BY DEF Words
<1>2. Len(d) >= Len(c)
  <2>1. SUFFICES ASSUME Len(d) < Len(c) PROVE FALSE
    BY <1>1
  <2> DEFINE i == k + 2 + Len(d)
  <2>2. i \in 1 .. m /\ Len(d) + 1 \in 1 .. Len(c) /\ i = k + 1 + (Len(d) + 1)
    BY <1>1, <2>1
  <2>3. b[i] = Sep
    BY <1>1, <2>2 DEF Stands, Agree
  <2>4. a[i] = c[Len(d) + 1] /\ c[Len(d) + 1] \in Letters
    BY <2>2 DEF Stands, Words
  <2>5. UpperOf(a[i]) = UpperOf(b[i])
    BY <2>2 DEF Agree
  <2>6. QED BY <2>3, <2>4, <2>5, UpperOfSep
<1>3. ASSUME NEW i \in 1 .. Len(c) PROVE Upper[c[i]] = Upper[d[i]]
  <2>1. i \in 1 .. Len(d) /\ k + 1 + i \in 1 .. m
    BY <1>1, <1>2
  <2>2. a[k + 1 + i] = c[i] /\ b[k + 1 + i] = d[i]
    BY <2>1 DEF Stands
  <2>3. c[i] \in Letters /\ d[i] \in Letters
    BY <2>1 DEF Words
  <2>4. UpperOf(c[i]) = UpperOf(d[i])
    BY <2>1, <2>2 DEF Agree
  <2>5. QED BY <2>3, <2>4, UpperOfSep
<1>4. QED BY <1>2, <1>3

\* If they agree up to the next backslash they are the same name.
LEMMA SameWhereAligned ==
    ASSUME NEW a \in Seq(CharSet), NEW b \in Seq(CharSet), NEW c \in Words, NEW d \in Words,
           NEW k \in Nat, NEW m \in Nat, Stands(a, k, c), Stands(b, k, d), Agree(a, b, m),
           m >= k + 2 + Len(c)
    PROVE  Len(c) = Len(d) /\ SameName(c, d)
<1>1. /\ Len(c) \in Nat /\ Len(d) \in Nat /\ Len(a) \in Nat /\ Len(b) \in Nat
      /\ DOMAIN c = 1 .. Len(c) /\ DOMAIN d = 1 .. Len(d)
  BY DEF Words
<1>2. Len(d) >= Len(c) /\ \A i \in 1 .. Len(c) : Upper[c[i]] = Upper[d[i]]
  BY <1>1, NotShorter
<1>3. ~(Len(d) > Len(c))
  <2>1. SUFFICES ASSUME Len(d) > Len(c) PROVE FALSE
    OBVIOUS
  <2> DEFINE i == k + 2 + Len(c)
  <2>2. i \in 1 .. m /\ Len(c) + 1 \in 1 .. Len(d) /\ i = k + 1 + (Len(c) + 1)
    BY <1>1, <2>1
  <2>3. a[i] = Sep
    BY <1>1, <2>2 DEF Stands, Agree
  <2>4. b[i] = d[Len(c) + 1] /\ d[Len(c) + 1] \in Letters
    BY <2>2 DEF Stands, Words
  <2>5. UpperOf(a[i]) = UpperOf(b[i])
    BY <2>2 DEF Agree
  <2>6. QED BY <2>3, <2>4, <2>5, UpperOfSep
<1>4. Len(c) = Len(d)
  <2>1. Len(d) >= Len(c)
    BY <1>2
  <2>2. \A i, j \in Nat : i >= j /\ ~(i > j) => j = i
    OBVIOUS
  <2>3. QED BY <1>1, <1>3, <2>1, <2>2, Zenon
<1>5. QED BY <1>1, <1>2, <1>4 DEF SameName, Fold

\* Paths that agree into the n-th name have the same names before it.
LEMMA NamesAlign ==
    ASSUME NEW p \in Seq(Words), NEW q \in Seq(Words), NEW n \in 1 .. Len(p), n <= Len(q),
           NEW m \in Nat, Agree(Chars(p), Chars(q), m), m >= Ends(p, n - 1) + 1
    PROVE  Ends(p, n - 1) = Ends(q, n - 1)
<1> DEFINE T == {j \in Nat : j <= n - 1 => Ends(p, j) = Ends(q, j) /\ Ends(p, j) <= Ends(p, n - 1)}
           U == {j \in Nat : j <= n - 1 => Ends(p, (n - 1) - j) <= Ends(p, n - 1)}
<1>1. n \in Nat /\ n >= 1 /\ Len(p) \in Nat /\ Len(q) \in Nat /\ n <= Len(p)
  OBVIOUS
<1>2. \A j \in 0 .. Len(p) : Ends(p, j) \in Nat
  BY PathSplit
<1>3. ASSUME NEW j \in Nat, j + 1 <= n - 1
      PROVE  /\ Ends(p, j + 1) = Ends(p, j) + 1 + Len(p[j + 1])
             /\ Ends(q, j + 1) = Ends(q, j) + 1 + Len(q[j + 1])
             /\ Stands(Chars(p), Ends(p, j), p[j + 1]) /\ Stands(Chars(q), Ends(q, j), q[j + 1])
             /\ p[j + 1] \in Words /\ q[j + 1] \in Words /\ Len(p[j + 1]) \in Nat
  <2>1. j + 1 \in 1 .. Len(p) /\ j + 1 \in 1 .. Len(q) /\ (j + 1) - 1 = j
    BY <1>1, <1>3
  <2>2. p[j + 1] \in Words /\ q[j + 1] \in Words
    BY <2>1
  <2>3. Len(p[j + 1]) \in Nat
    BY <2>2 DEF Words
  <2>4. /\ Ends(p, j + 1) = Ends(p, (j + 1) - 1) + 1 + Len(p[j + 1])
        /\ Stands(Chars(p), Ends(p, (j + 1) - 1), p[j + 1])
    BY <2>1, NamesStand
  <2>5. /\ Ends(q, j + 1) = Ends(q, (j + 1) - 1) + 1 + Len(q[j + 1])
        /\ Stands(Chars(q), Ends(q, (j + 1) - 1), q[j + 1])
    BY <2>1, NamesStand
  <2>6. QED BY <2>1, <2>2, <2>3, <2>4, <2>5
\* The ends grow.
<1>4. \A j \in Nat : j \in U
  <2>1. 0 \in U
    <3>1. (n - 1) - 0 = n - 1 /\ Ends(p, n - 1) \in Nat
      BY <1>1, <1>2
    <3>2. QED BY <3>1
  <2>2. ASSUME NEW j \in Nat, j \in U PROVE j + 1 \in U
    <3>1. ASSUME j + 1 <= n - 1 PROVE Ends(p, (n - 1) - (j + 1)) <= Ends(p, n - 1)
      <4> DEFINE i == (n - 1) - (j + 1)
      <4>1. i \in Nat /\ i + 1 <= n - 1 /\ i + 1 = (n - 1) - j /\ i \in 0 .. Len(p)
              /\ i + 1 \in 0 .. Len(p) /\ n - 1 \in 0 .. Len(p)
        BY <1>1, <3>1
      <4> HIDE DEF i
      <4>2. Ends(p, i + 1) = Ends(p, i) + 1 + Len(p[i + 1]) /\ Len(p[i + 1]) \in Nat
        BY <1>3, <4>1
      <4>3. Ends(p, (n - 1) - j) <= Ends(p, n - 1)
        BY <2>2, <3>1
      <4>4. Ends(p, i + 1) <= Ends(p, n - 1)
        BY <4>1, <4>3
      <4>5. Ends(p, i) \in Nat /\ Ends(p, n - 1) \in Nat
        BY <1>2, <4>1
      <4>6. Ends(p, i) <= Ends(p, n - 1)
        BY <4>2, <4>4, <4>5
      <4>7. QED BY <4>6 DEF i
    <3>2. j + 1 \in Nat
      OBVIOUS
    <3>3. QED BY <3>1, <3>2
  <2> HIDE DEF U
  <2>3. QED BY <2>1, <2>2, SetInduction
<1>5. ASSUME NEW j \in Nat, j <= n - 1 PROVE Ends(p, j) <= Ends(p, n - 1)
  <2>1. (n - 1) - j \in Nat /\ (n - 1) - j <= n - 1 /\ (n - 1) - ((n - 1) - j) = j
    BY <1>1, <1>5
  <2>2. (n - 1) - j \in U
    BY <1>4, <2>1
  <2>3. Ends(p, (n - 1) - ((n - 1) - j)) <= Ends(p, n - 1)
    BY <2>1, <2>2
  <2>4. QED BY <2>1, <2>3
<1> HIDE DEF U
<1>6. \A j \in Nat : j \in T
  <2>1. 0 \in T
    <3>1. Ends(p, 0) = 0 /\ Ends(q, 0) = 0
      <4>1. SubSeq(p, 1, 0) = <<>> /\ SubSeq(q, 1, 0) = <<>>
        BY SubSeqEmpty
      <4>2. Len(Chars(<<>>)) = 0
        BY CharsEmpty
      <4>3. QED BY <4>1, <4>2 DEF Ends
    <3>2. n - 1 \in 0 .. Len(p)
      BY <1>1
    <3>3. QED BY <1>2, <3>1, <3>2
  <2>2. ASSUME NEW j \in Nat, j \in T PROVE j + 1 \in T
    <3>1. ASSUME j + 1 <= n - 1
          PROVE  Ends(p, j + 1) = Ends(q, j + 1) /\ Ends(p, j + 1) <= Ends(p, n - 1)
      <4>1. j <= n - 1 /\ j \in 0 .. Len(p) /\ n - 1 \in 0 .. Len(p) /\ j + 1 \in Nat
        BY <1>1, <3>1
      <4>2. Ends(p, j) = Ends(q, j)
        BY <2>2, <4>1
      <4>3. Ends(p, j + 1) <= Ends(p, n - 1)
        BY <1>5, <3>1, <4>1
      <4>4. Ends(p, j) \in Nat /\ Ends(p, n - 1) \in Nat
        BY <1>2, <4>1
      <4> DEFINE k == Ends(p, j)
                 c == p[j + 1]
                 d == q[j + 1]
      <4>5. /\ Stands(Chars(p), k, c) /\ Stands(Chars(q), k, d) /\ c \in Words /\ d \in Words
            /\ Ends(p, j + 1) = k + 1 + Len(c) /\ Ends(q, j + 1) = k + 1 + Len(d)
            /\ Len(c) \in Nat /\ k \in Nat
        BY <1>3, <3>1, <4>2, <4>4
      <4> HIDE DEF c, d, k
      <4>6. m >= k + 2 + Len(c)
        BY <4>3, <4>4, <4>5
      <4>7. Chars(p) \in Seq(CharSet) /\ Chars(q) \in Seq(CharSet)
        BY CharsAreChars
      <4>8. Len(c) = Len(d)
        BY <4>5, <4>6, <4>7, SameWhereAligned
      <4>9. QED BY <4>3, <4>5, <4>8
    <3>2. j + 1 \in Nat
      OBVIOUS
    <3>3. QED BY <3>1, <3>2
  <2> HIDE DEF T
  <2>3. QED BY <2>1, <2>2, SetInduction
<1>7. n - 1 \in Nat /\ n - 1 <= n - 1
  BY <1>1
<1>8. QED BY <1>6, <1>7

\* What MoveWithinShare says of one move.
Stays(r, src, dst, name) ==
    LET from == Component(r, src, 3)
        to == Component(r, dst, 3)
        fromNames == Front(SubSeq(src, 1, 3 - r.level))
        toNames == Front(SubSeq(dst, 1, 3 - r.level))
    IN  IF r.level = 3
        THEN name = Chars(dst)
        ELSE /\ FoldChars(Chars(fromNames)) = FoldChars(Chars(toNames))
             /\ \/ /\ SameName(from, to)
                   /\ name = Tail(Chars(Rest(r, dst)))
                \/ Len(to) > Len(from) /\ IsPrefix(Fold(from), Fold(to))

LEMMA PathsHaveNames ==
    ASSUME NEW r, r.level \in 0 .. 3, NEW p \in Paths, Rest(r, p) # <<>>
    PROVE  /\ p \in Seq(Words) /\ Len(p) \in Nat /\ 3 - r.level \in 0 .. Len(p)
           /\ Len(p) > 3 - r.level
           /\ Rest(r, p) = SubSeq(p, (3 - r.level) + 1, Len(p))
<1>1. p \in Seq(Words) /\ Len(p) \in Nat
  BY PathsAssumption DEF Words
<1>2. Rest(r, p) = SubSeq(p, (3 - r.level) + 1, Len(p))
  <2>1. 4 - r.level = (3 - r.level) + 1
    OBVIOUS
  <2>2. QED BY <2>1 DEF Rest
<1>3. ASSUME Len(p) < (3 - r.level) + 1 PROVE FALSE
  BY <1>1, <1>2, <1>3, SubSeqEmpty
<1>4. QED BY <1>1, <1>2, <1>3

LEMMA PrefixEnds ==
    ASSUME NEW r, r.level \in 0 .. 3, NEW p \in Paths, Rest(r, p) # <<>>
    PROVE  Prefix(r, p) = Ends(p, 3 - r.level) /\ Prefix(r, p) \in Nat
<1> DEFINE n == 3 - r.level
           U == Chars(SubSeq(p, 1, n))
           R == Chars(SubSeq(p, n + 1, Len(p)))
<1>1. n \in 0 .. Len(p) /\ p \in Seq(Words) /\ Rest(r, p) = SubSeq(p, n + 1, Len(p))
  BY PathsHaveNames
<1> HIDE DEF n
<1>2. Chars(p) = U \o R /\ U \in Seq(CharSet) /\ R \in Seq(CharSet)
  BY <1>1, PathSplit, CharsAreChars
<1>3. Chars(Rest(r, p)) = R /\ Ends(p, n) = Len(U)
  BY <1>1 DEF Ends
<1> HIDE DEF U, R
<1>4. Len(Chars(p)) = Len(U) + Len(R) /\ Len(U) \in Nat /\ Len(R) \in Nat
  BY <1>2, ConcatProperties
<1>5. QED BY <1>3, <1>4 DEF Prefix, n

\* NdpMove compares the characters in front of the rest of the source.
LEMMA NotAcrossAgrees ==
    ASSUME NEW r, r.level \in 0 .. 3, NEW src \in Paths, NEW dst \in Paths,
           Rest(r, src) # <<>>, Rest(r, dst) # <<>>, ~Across(r, src, dst)
    PROVE  Agree(Chars(src), Chars(dst), Prefix(r, src))
<1> DEFINE m == Prefix(r, src)
           a == Chars(src)
           b == Chars(dst)
           k == Min({m, Len(b)})
<1>1. m \in Nat /\ a \in Seq(CharSet) /\ b \in Seq(CharSet) /\ m <= Len(a)
  <2>1. src \in Seq(Words) /\ dst \in Seq(Words)
    BY PathsHaveNames
  <2>2. a \in Seq(CharSet) /\ b \in Seq(CharSet)
    BY <2>1, CharsAreChars
  <2>3. Rest(r, src) \in Seq(Words)
    <3> DEFINE n == 3 - r.level
    <3>1. n \in 0 .. Len(src) /\ src \in Seq(Words) /\ Rest(r, src) = SubSeq(src, n + 1, Len(src))
      BY PathsHaveNames
    <3> HIDE DEF n
    <3>2. QED BY <3>1, PathSplit
  <2>4. Len(Chars(Rest(r, src))) \in Nat /\ Len(a) \in Nat
    BY <2>2, <2>3, CharsAreChars, LenProperties
  <2>5. QED BY <2>2, <2>4, PrefixEnds DEF Prefix
<1>2. SubSeq(FoldChars(a), 1, m) = SubSeq(FoldChars(b), 1, k)
  BY DEF Across
<1> HIDE DEF m, a, b
<1>3. /\ Len(a) \in Nat /\ Len(b) \in Nat /\ k \in Nat /\ k <= Len(b) /\ k <= m
      /\ DOMAIN a = 1 .. Len(a) /\ DOMAIN b = 1 .. Len(b)
  <2>1. Len(a) \in Nat /\ Len(b) \in Nat /\ DOMAIN a = 1 .. Len(a) /\ DOMAIN b = 1 .. Len(b)
    BY <1>1
  <2> DEFINE n == Len(b)
  <2>2. m \in Int /\ n \in Int /\ m \in Nat /\ n \in Nat
    BY <1>1, <2>1
  <2>3. k = Min({m, n})
    OBVIOUS
  <2> HIDE DEF k, n
  <2>4. Min({m, n}) = IF m <= n THEN m ELSE n
    BY <2>2, MinOfTwo
  <2>5. k \in Nat /\ k <= n /\ k <= m
    BY <2>2, <2>3, <2>4
  <2>6. QED BY <2>1, <2>5 DEF n
<1> HIDE DEF k
<1>4. ASSUME NEW c \in Seq(CharSet)
      PROVE  \A i \in 1 .. Len(c) : FoldChars(c)[i] = UpperOf(c[i])
  <2>1. DOMAIN c = 1 .. Len(c)
    OBVIOUS
  <2>2. \A i \in DOMAIN c : FoldChars(c)[i] = UpperOf(c[i])
    BY Zenon DEF FoldChars, UpperOf
  <2>3. QED BY <2>1, <2>2, Zenon
<1> DEFINE Values == {UpperOf(ch) : ch \in CharSet}
<1>5. \A i \in 1 .. m : FoldChars(a)[i] \in Values
  BY <1>1, <1>3, <1>4
<1>6. \A i \in 1 .. k : FoldChars(b)[i] \in Values
  BY <1>1, <1>3, <1>4
<1> HIDE DEF Values
<1>7. /\ Len(SubSeq(FoldChars(a), 1, m)) = (IF 1 <= m THEN m - 1 + 1 ELSE 0)
      /\ \A i \in 1 .. m - 1 + 1 : SubSeq(FoldChars(a), 1, m)[i] = FoldChars(a)[1 + i - 1]
  BY <1>1, <1>5, SubSeqProperties
<1>8. /\ Len(SubSeq(FoldChars(b), 1, k)) = (IF 1 <= k THEN k - 1 + 1 ELSE 0)
      /\ \A i \in 1 .. k - 1 + 1 : SubSeq(FoldChars(b), 1, k)[i] = FoldChars(b)[1 + i - 1]
  BY <1>3, <1>6, SubSeqProperties
<1>9. m = k
  BY <1>1, <1>2, <1>3, <1>7, <1>8
<1>10. ASSUME NEW i \in 1 .. m PROVE UpperOf(a[i]) = UpperOf(b[i])
  <2>1. i \in 1 .. m - 1 + 1 /\ i \in 1 .. k - 1 + 1 /\ 1 + i - 1 = i
          /\ i \in 1 .. Len(a) /\ i \in 1 .. Len(b)
    BY <1>1, <1>3, <1>9
  <2>2. FoldChars(a)[i] = FoldChars(b)[i]
    BY <1>2, <1>7, <1>8, <2>1, Zenon
  <2>3. FoldChars(a)[i] = UpperOf(a[i]) /\ FoldChars(b)[i] = UpperOf(b[i])
    BY <1>1, <1>4, <2>1, Zenon
  <2>4. QED BY <2>2, <2>3
<1>11. QED BY <1>1, <1>3, <1>9, <1>10 DEF Agree, m, a, b

\* The names in front of the share are the same.
LEMMA SameBeforeShare ==
    ASSUME NEW p \in Seq(Words), NEW q \in Seq(Words), NEW n \in 1 .. Len(p), n <= Len(q),
           NEW m \in Nat, Agree(Chars(p), Chars(q), m), m >= Ends(p, n - 1) + 1
    PROVE  FoldChars(Chars(Front(SubSeq(p, 1, n)))) = FoldChars(Chars(Front(SubSeq(q, 1, n))))
<1>1. ASSUME NEW s \in Seq(Words), n <= Len(s)
      PROVE  /\ Front(SubSeq(s, 1, n)) = SubSeq(s, 1, n - 1)
             /\ Chars(SubSeq(s, 1, n - 1)) \in Seq(CharSet)
             /\ Len(Chars(SubSeq(s, 1, n - 1))) = Ends(s, n - 1)
             /\ \A i \in 1 .. Ends(s, n - 1) : Chars(SubSeq(s, 1, n - 1))[i] = Chars(s)[i]
  <2>1. n \in Nat /\ n >= 1 /\ Len(s) \in Nat /\ n - 1 \in 0 .. Len(s) /\ n \in 0 .. Len(s)
    BY <1>1
  <2>2. SubSeq(s, 1, n) \in Seq(Words) /\ SubSeq(s, 1, n - 1) \in Seq(Words)
    BY <2>1, PathSplit
  <2>3. /\ Len(SubSeq(s, 1, n)) = n
        /\ \A i \in 1 .. n : SubSeq(s, 1, n)[i] = s[i]
    <3>1. \A i \in 1 .. n : s[i] \in Words
      BY <1>1
    <3>2. /\ Len(SubSeq(s, 1, n)) = (IF 1 <= n THEN n - 1 + 1 ELSE 0)
          /\ \A i \in 1 .. n - 1 + 1 : SubSeq(s, 1, n)[i] = s[1 + i - 1]
      BY <2>1, <3>1, SubSeqProperties
    <3>3. QED BY <2>1, <3>2
  <2>4. Front(SubSeq(s, 1, n)) = SubSeq(s, 1, n - 1)
    <3>1. Front(SubSeq(s, 1, n)) = SubSeq(SubSeq(s, 1, n), 1, n - 1)
      BY <2>3 DEF Front
    <3>2. CASE n = 1
      BY <2>1, <3>1, <3>2, SubSeqEmpty
    <3>3. CASE n # 1
      <4>1. /\ 1 \in 1 .. Len(s) /\ n \in 1 .. Len(s)
            /\ 1 \in 1 .. n - 1 + 1 /\ n - 1 \in 1 .. n - 1 + 1
            /\ 1 + 1 - 1 = 1 /\ 1 + (n - 1) - 1 = n - 1
        BY <2>1, <3>3
      <4>2. SubSeq(SubSeq(s, 1, n), 1, n - 1) = SubSeq(s, 1 + 1 - 1, 1 + (n - 1) - 1)
        BY <4>1, SubSeqOfSubSeq
      <4>3. QED BY <3>1, <4>1, <4>2
    <3>4. QED BY <3>2, <3>3
  <2> DEFINE F == Chars(SubSeq(s, 1, n - 1))
             R == Chars(SubSeq(s, (n - 1) + 1, Len(s)))
  <2>5. Chars(s) = F \o R /\ F \in Seq(CharSet) /\ R \in Seq(CharSet) /\ Len(F) = Ends(s, n - 1)
    BY <2>1, PathSplit, CharsAreChars DEF Ends
  <2> HIDE DEF F, R
  <2>6. \A i \in 1 .. Len(F) : Chars(s)[i] = F[i]
    <3>1. /\ Len(F) \in Nat /\ Len(R) \in Nat
          /\ \A i \in 1 .. Len(F) + Len(R) : (F \o R)[i] = IF i <= Len(F) THEN F[i] ELSE R[i - Len(F)]
      BY <2>5, ConcatProperties
    <3>2. \A i \in 1 .. Len(F) : i \in 1 .. Len(F) + Len(R) /\ i <= Len(F)
      BY <3>1
    <3>3. QED BY <2>5, <3>1, <3>2
  <2>7. QED BY <2>4, <2>5, <2>6 DEF F
<1> DEFINE a == Chars(SubSeq(p, 1, n - 1))
           b == Chars(SubSeq(q, 1, n - 1))
<1>2. n <= Len(p) /\ n - 1 \in 0 .. Len(p)
  OBVIOUS
<1>3. Len(a) = Len(b) /\ Len(a) = Ends(p, n - 1) /\ Len(a) \in Nat
  BY <1>1, <1>2, NamesAlign, PathSplit
<1>4. a \in Seq(CharSet) /\ b \in Seq(CharSet)
  BY <1>1, <1>2
<1>5. \A i \in 1 .. Len(a) : UpperOf(a[i]) = UpperOf(b[i])
  <2> SUFFICES ASSUME NEW i \in 1 .. Len(a) PROVE UpperOf(a[i]) = UpperOf(b[i])
    OBVIOUS
  <2>1. i \in 1 .. Ends(p, n - 1) /\ i \in 1 .. Ends(q, n - 1) /\ i \in 1 .. m
    <3>1. Len(b) = Ends(q, n - 1)
      BY <1>1
    <3> DEFINE e == Ends(p, n - 1)
    <3> HIDE DEF a, b
    <3>2. e = Len(a) /\ e = Ends(q, n - 1) /\ e \in Nat /\ m >= e + 1
      BY <1>3, <3>1
    <3> HIDE DEF e
    <3>3. i \in 1 .. e /\ i \in 1 .. m
      BY <3>2
    <3>4. QED BY <3>2, <3>3 DEF e
  <2>2. a[i] = Chars(p)[i] /\ b[i] = Chars(q)[i]
    BY <1>1, <1>2, <2>1
  <2>3. QED BY <2>1, <2>2 DEF Agree
<1> HIDE DEF a, b
<1>6. FoldChars(a) = FoldChars(b)
  <2>1. DOMAIN a = 1 .. Len(a) /\ DOMAIN b = 1 .. Len(a)
    BY <1>3, <1>4, LenProperties
  <2>2. QED BY <1>5, <2>1 DEF FoldChars, UpperOf
<1>7. QED BY <1>1, <1>2, <1>6 DEF a, b

\* The name that the server is told begins behind the destination's prefix.
LEMMA NewNameIsRest ==
    ASSUME NEW r, r.level \in 0 .. 2, NEW src \in Paths, NEW dst \in Paths,
           Rest(r, dst) # <<>>, Prefix(r, src) = Prefix(r, dst), Prefix(r, src) > 0
    PROVE  NewName(r, src, dst) = Tail(Chars(Rest(r, dst)))
<1> DEFINE n == 3 - r.level
           m == Prefix(r, src)
           U == Chars(SubSeq(dst, 1, n))
           R == Chars(SubSeq(dst, n + 1, Len(dst)))
<1>1. /\ n \in 0 .. Len(dst) /\ dst \in Seq(Words) /\ Len(dst) \in Nat
      /\ Rest(r, dst) = SubSeq(dst, n + 1, Len(dst))
  BY PathsHaveNames
<1>2. m = Len(U) /\ m \in Nat
  BY PrefixEnds DEF Ends
<1> HIDE DEF n
<1>3. /\ Chars(dst) = U \o R /\ U \in Seq(CharSet) /\ R \in Seq(CharSet)
      /\ SubSeq(dst, n + 1, Len(dst)) \in Seq(Words)
  BY <1>1, PathSplit, CharsAreChars
<1>4. Chars(Rest(r, dst)) = R /\ Len(R) >= 1 /\ R # <<>>
  <2>1. Len(R) >= 1
    BY <1>1, <1>3, CharsBegin
  <2>2. QED BY <1>1, <1>3, <2>1
<1>5. NewName(r, src, dst) = SubSeq(Chars(dst), m + 2, Len(Chars(dst)))
  BY DEF NewName
<1> HIDE DEF m, U, R
<1>6. Len(U) \in Nat /\ Len(R) \in Nat /\ Len(U \o R) = Len(U) + Len(R)
  BY <1>3, ConcatProperties
<1>7. Tail(R) = SubSeq(R, 2, Len(R))
  BY <1>3, <1>4, TailIsSubSeq
<1>8. SubSeq(U \o R, m + 2, Len(U) + Len(R)) = SubSeq(R, 2, Len(R))
  <2>1. CASE Len(R) = 1
    <3>1. Len(U) + Len(R) < m + 2 /\ m + 2 \in Int /\ Len(U) + Len(R) \in Int /\ Len(R) < 2
      BY <1>2, <1>6, <2>1
    <3>2. QED BY <3>1, <2>1, SubSeqEmpty
  <2>2. CASE Len(R) # 1
    <3>1. /\ m + 2 \in Len(U) + 1 .. Len(U) + Len(R)
          /\ Len(U) + Len(R) \in Len(U) + 1 .. Len(U) + Len(R)
          /\ (m + 2) - Len(U) = 2 /\ (Len(U) + Len(R)) - Len(U) = Len(R)
      BY <1>2, <1>4, <1>6, <2>2
    <3>2. SubSeq(U \o R, m + 2, Len(U) + Len(R))
            = SubSeq(R, (m + 2) - Len(U), (Len(U) + Len(R)) - Len(U))
      <4> DEFINE p == m + 2
                 q == Len(U) + Len(R)
      <4>1. p \in Len(U) + 1 .. Len(U) + Len(R) /\ q \in Len(U) + 1 .. Len(U) + Len(R)
        BY <3>1
      <4> HIDE DEF p, q
      <4>2. SubSeq(U \o R, p, q) = SubSeq(R, p - Len(U), q - Len(U))
        BY <1>3, <4>1, SubSeqOfConcat2
      <4>3. QED BY <4>2, Zenon DEF p, q
    <3>3. QED BY <3>1, <3>2
  <2>3. QED BY <2>1, <2>2
<1>9. QED BY <1>3, <1>4, <1>5, <1>6, <1>7, <1>8

\* A move that is not write protected stays on the share.
LEMMA MoveStays ==
    ASSUME NEW r \in Resources, NEW src \in Paths, NEW dst \in Paths,
           Rest(r, src) # <<>>, Rest(r, dst) # <<>>, ~Across(r, src, dst)
    PROVE  Stays(r, src, dst, NewName(r, src, dst))
<1> DEFINE n == 3 - r.level
           m == Prefix(r, src)
           from == Component(r, src, 3)
           to == Component(r, dst, 3)
<1>1. r.level \in 0 .. 3 /\ n \in 0 .. 3
  BY DEF Resources
<1>2. /\ src \in Seq(Words) /\ dst \in Seq(Words) /\ Len(src) \in Nat /\ Len(dst) \in Nat
      /\ n < Len(src) /\ n < Len(dst)
  BY <1>1, PathsHaveNames
<1>3. m = Ends(src, n) /\ m \in Nat /\ Prefix(r, dst) = Ends(dst, n)
  BY <1>1, PrefixEnds
<1>4. CASE r.level = 3
  <2>1. n = 0
    BY <1>4
  <2>2. Ends(src, 0) = 0
    <3>1. SubSeq(src, 1, 0) = <<>> /\ Len(Chars(<<>>)) = 0
      BY SubSeqEmpty, CharsEmpty
    <3>2. QED BY <3>1 DEF Ends
  <2>3. m = 0
    BY <1>3, <2>1, <2>2
  <2>4. NewName(r, src, dst) = Chars(dst)
    BY <1>3, <2>3 DEF NewName
  <2>5. QED BY <1>4, <2>4 DEF Stays
<1>5. CASE r.level # 3
  <2>1. n \in 1 .. Len(src) /\ n \in 1 .. Len(dst) /\ n <= Len(dst) /\ r.level \in 0 .. 2
    BY <1>1, <1>2, <1>5
  <2>2. from = src[n] /\ to = dst[n] /\ from \in Words /\ to \in Words
    <3>1. 3 > r.level /\ 3 \in 1 .. 3 /\ 3 - r.level <= Len(src) /\ 3 - r.level <= Len(dst)
      BY <1>1, <1>2, <1>5
    <3>2. QED BY <3>1, ComponentIsName
  <2> DEFINE k == Ends(src, n - 1)
             a == Chars(src)
             b == Chars(dst)
  <2>3. Agree(a, b, m)
    BY <1>1, NotAcrossAgrees
  <2>4. /\ m = k + 1 + Len(from) /\ Stands(a, k, from) /\ k \in Nat /\ Len(from) \in Nat
        /\ Len(to) \in Nat
    <3>1. n - 1 \in 0 .. Len(src)
      BY <2>1
    <3>2. k \in Nat
      BY <1>2, <3>1, PathSplit
    <3>3. Len(from) \in Nat /\ Len(to) \in Nat
      BY <2>2 DEF Words
    <3> HIDE DEF from, to, n
    <3>4. QED BY <1>2, <1>3, <2>1, <2>2, <3>2, <3>3, NamesStand
  <2>5. Ends(dst, n) = Ends(dst, n - 1) + 1 + Len(to) /\ Stands(b, Ends(dst, n - 1), to)
    <3> HIDE DEF from, to, n
    <3>1. QED BY <1>2, <2>1, <2>2, NamesStand
  <2>6. m >= k + 1
    BY <2>4
  <2>7. Ends(dst, n - 1) = k
    <3> HIDE DEF n, m
    <3>1. QED BY <1>2, <1>3, <2>1, <2>3, <2>6, NamesAlign
  <2>8. FoldChars(Chars(Front(SubSeq(src, 1, n)))) = FoldChars(Chars(Front(SubSeq(dst, 1, n))))
    <3> HIDE DEF n, m
    <3>1. QED BY <1>2, <1>3, <2>1, <2>3, <2>6, SameBeforeShare
  <2>9. Len(to) >= Len(from) /\ \A i \in 1 .. Len(from) : Upper[from[i]] = Upper[to[i]]
    <3>1. a \in Seq(CharSet) /\ b \in Seq(CharSet)
      BY <1>2, CharsAreChars
    <3>2. m \in Nat /\ m >= k + 1 + Len(from) /\ Stands(b, k, to)
      BY <1>3, <2>4, <2>5, <2>7
    <3> HIDE DEF from, to, n, m, k, a, b
    <3>3. QED BY <2>2, <2>3, <2>4, <3>1, <3>2, NotShorter
  <2>10. DOMAIN from = 1 .. Len(from) /\ DOMAIN to = 1 .. Len(to)
    BY <2>2 DEF Words
  <2>11. CASE Len(to) = Len(from)
    <3>1. SameName(from, to)
      <4> HIDE DEF from, to
      <4>1. QED BY <2>9, <2>10, <2>11 DEF SameName, Fold
    <3>2. Prefix(r, src) = Prefix(r, dst) /\ Prefix(r, src) > 0
      <4>1. m = Ends(dst, n) /\ m > 0
        <5> HIDE DEF from, to, n, m
        <5>1. QED BY <2>4, <2>5, <2>7, <2>11
      <4>2. QED BY <1>3, <4>1
    <3>3. NewName(r, src, dst) = Tail(Chars(Rest(r, dst)))
      BY <2>1, <3>2, NewNameIsRest
    <3>4. QED BY <1>5, <2>8, <3>1, <3>3 DEF Stays
  <2>12. CASE Len(to) > Len(from)
    <3>1. IsPrefix(Fold(from), Fold(to))
      <4> HIDE DEF from, to
      <4>1. from \in Seq(Letters) /\ to \in Seq(Letters)
        BY <2>2 DEF Words
      <4>2. Fold(from) \in Seq(Letters) /\ Fold(to) \in Seq(Letters)
              /\ Len(Fold(from)) = Len(from) /\ Len(Fold(to)) = Len(to)
        <5>1. ASSUME NEW w \in Seq(Letters) PROVE Fold(w) \in Seq(Letters) /\ Len(Fold(w)) = Len(w)
          <6>1. DOMAIN w = 1 .. Len(w) /\ Len(w) \in Nat /\ \A i \in 1 .. Len(w) : w[i] \in Letters
            BY LenProperties
          <6>2. Fold(w) \in [1 .. Len(w) -> Letters]
            BY <6>1, LettersAssumption DEF Fold
          <6>3. QED BY <6>1, <6>2
        <5>2. QED BY <4>1, <5>1
      <4> DEFINE e == Len(from)
      <4>3. /\ e \in Nat /\ Len(to) \in Nat /\ e < Len(to)
            /\ SubSeq(Fold(from), 1, e) \in Seq(Letters) /\ SubSeq(Fold(to), 1, e) \in Seq(Letters)
            /\ Len(SubSeq(Fold(from), 1, e)) = e /\ Len(SubSeq(Fold(to), 1, e)) = e
            /\ \A i \in 1 .. e : SubSeq(Fold(from), 1, e)[i] = Fold(from)[i]
                                 /\ SubSeq(Fold(to), 1, e)[i] = Fold(to)[i]
        BY <2>4, <2>12, <4>2
      <4>4. \A i \in 1 .. e : Fold(from)[i] = Fold(to)[i]
        BY <2>9, <2>10, <2>12, <4>3 DEF Fold
      <4> HIDE DEF e
      <4>5. SubSeq(Fold(from), 1, e) = SubSeq(Fold(to), 1, e)
        <5>1. \A i \in 1 .. e : SubSeq(Fold(from), 1, e)[i] = SubSeq(Fold(to), 1, e)[i]
          BY <4>3, <4>4
        <5>2. QED BY <4>3, <5>1, SeqEqual
      <4>6. QED BY <4>2, <4>3, <4>5 DEF IsPrefix, e
    <3>2. QED BY <1>5, <2>8, <2>12, <3>1 DEF Stays
  <2>13. QED BY <2>4, <2>9, <2>11, <2>12
<1>6. QED BY <1>4, <1>5

\* A move that NdpMove does not refuse as write protected stays on the share of
\* its source under the name that the destination has there, for paths of any
\* length and names of any letters; but where the destination's share has a
\* longer name that begins like the source's.
THEOREM MovesWithinShare == ResSpec => []MoveWithinShare
<1>1. ResInit => MoveWithinShare
  BY DEF ResInit, MoveWithinShare
<1>2. ASSUME ResInv, MoveWithinShare, [ResNext]_resVars PROVE MoveWithinShare'
  <2>1. ASSUME NEW s \in Slots, NEW src \in Paths, NEW dst \in Paths, Move(s, src, dst)
        PROVE  MoveWithinShare'
    <3> DEFINE r == res[s]
               q == Reparsed(r, src)
    <3>1. /\ r \in Resources /\ KeepsMount(r) /\ cli[s] # NoSession
          /\ UNCHANGED <<caches, refused>> /\ Parsed(s, src)
          /\ Rest(r, src) # <<>> /\ Rest(r, dst) # <<>>
      BY <1>2, <2>1, MountedIsResource DEF Move, Requesting, ResInv, ResourceMatchesSession
    <3>2. res' = [res EXCEPT ![s] = q]
      BY <1>2, <3>1, ParsedKeeps
    <3>3. res'[s] = q
      BY <1>2, <3>2 DEF ResInv, ResTypes
    <3>4. q.level = r.level
      BY <3>1 DEF Reparsed, Resources
    <3>5. CASE Across(r, src, dst)
      <4>1. last'.op = "writeprotect"
        BY <2>1, <3>5 DEF Move
      <4>2. QED BY <4>1 DEF MoveWithinShare
    <3>6. CASE ~Across(r, src, dst)
      <4>1. last' = [op |-> "move", slot |-> s, src |-> src, dst |-> dst,
                     name |-> NewName(r, src, dst)]
        BY <2>1, <3>6 DEF Move
      <4>2. Stays(r, src, dst, NewName(r, src, dst))
        BY <3>1, <3>6, MoveStays
      <4>3. Stays(q, src, dst, NewName(r, src, dst))
        BY <3>4, <4>2 DEF Stays, Component, Rest
      <4> HIDE DEF q, r
      <4>4. Stays(res'[last'.slot], last'.src, last'.dst, last'.name)
        BY <3>3, <4>1, <4>3
      <4>5. QED BY <4>4 DEF MoveWithinShare, Stays
    <3>7. QED BY <3>5, <3>6
  <2>2. CASE UNCHANGED resVars
    BY <1>2, <2>2 DEF MoveWithinShare, resVars
  <2>3. CASE ResNext /\ ~\E s \in Slots, src, dst \in Paths : Move(s, src, dst)
    <3>1. last'.op # "move"
      BY <2>3 DEF ResNext, Return, Mount, MountRefused, Free, CreateConnection, FreeConnection,
                  iftestpath, ParseRefused, pathparser, QueryFSAllocate, StorePassword
    <3>2. QED BY <3>1 DEF MoveWithinShare
  <2>4. QED BY <1>2, <2>1, <2>2, <2>3
<1>3. QED
  BY <1>1, <1>2, ResInvHolds, PTL DEF ResSpec

===============================================================================
