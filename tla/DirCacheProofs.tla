---------------------------- MODULE DirCacheProofs ----------------------------
(***************************************************************************)
(* What holds of the directory cache for every set of threads, every       *)
(* capacity and every timeout.                                             *)
(***************************************************************************)
EXTENDS DirCache, FiniteSetTheorems, SequenceTheorems, TLAPS

Inj(l) == \A i, j \in 1 .. Len(l) : l[i] = l[j] => i = j

-------------------------------------------------------------------------------
(* List primitives.                                                        *)

\* dcRemoveEntry takes out one element and keeps the order of the others.
LEMMA UnlinkElements ==
    ASSUME NEW S, NEW l \in Seq(S), NEW i \in 1 .. Len(l)
    PROVE  /\ Unlink(l, i) \in Seq(S)
           /\ Len(Unlink(l, i)) = Len(l) - 1
           /\ \A j \in 1 .. Len(l) - 1 :
                 Unlink(l, i)[j] = IF j < i THEN l[j] ELSE l[j + 1]
<1> DEFINE a == SubSeq(l, 1, i - 1)
           b == SubSeq(l, i + 1, Len(l))
<1>0. Len(l) \in Nat /\ i \in Int /\ i >= 1 /\ i <= Len(l)
  BY LenProperties
<1>1. /\ a \in Seq(S) /\ Len(a) = i - 1
      /\ \A j \in 1 .. i - 1 : a[j] = l[j]
  <2>1. \A j \in 1 .. i - 1 : l[j] \in S
    BY <1>0, ElementOfSeq
  <2>2. QED
    BY <1>0, <2>1, SubSeqProperties
<1>2. /\ b \in Seq(S) /\ Len(b) = Len(l) - i
      /\ \A j \in 1 .. Len(l) - i : b[j] = l[j + i]
  <2>1. \A j \in i + 1 .. Len(l) : l[j] \in S
    BY <1>0, ElementOfSeq
  <2>2. QED
    BY <1>0, <2>1, SubSeqProperties
<1>3. Unlink(l, i) = a \o b
  BY DEF Unlink, RemoveAt
<1> HIDE DEF a, b
<1>4. /\ a \o b \in Seq(S) /\ Len(a \o b) = Len(l) - 1
      /\ \A j \in 1 .. Len(a) + Len(b) :
            (a \o b)[j] = IF j <= Len(a) THEN a[j] ELSE b[j - Len(a)]
  <2>1. a \in Seq(S) /\ b \in Seq(S) /\ Len(a) + Len(b) = Len(l) - 1
    BY <1>0, <1>1, <1>2
  <2>2. QED
    BY Zenon, <2>1, ConcatProperties
<1>5. ASSUME NEW j \in 1 .. Len(l) - 1
      PROVE  Unlink(l, i)[j] = IF j < i THEN l[j] ELSE l[j + 1]
  <2>1. CASE j < i
    BY <1>0, <1>1, <1>2, <1>3, <1>4, <2>1
  <2>2. CASE j >= i
    <3>1. Unlink(l, i)[j] = b[j - (i - 1)]
      BY <1>0, <1>1, <1>2, <1>3, <1>4, <2>2
    <3>2. j - (i - 1) \in 1 .. Len(l) - i /\ (j - (i - 1)) + i = j + 1
      BY <1>0, <2>2
    <3>3. QED
      BY <1>0, <1>2, <2>2, <3>1, <3>2
  <2>3. QED
    BY <1>0, <2>1, <2>2
<1>6. QED
  BY <1>3, <1>4, <1>5

\* A list without repetitions loses exactly the entry that is taken out.
LEMMA UnlinkSet ==
    ASSUME NEW S, NEW l \in Seq(S), NEW i \in 1 .. Len(l), Inj(l)
    PROVE  Inj(Unlink(l, i)) /\ ToSet(Unlink(l, i)) = ToSet(l) \ {l[i]}
<1> DEFINE u == Unlink(l, i)
<1>0. Len(l) \in Nat /\ i \in Int /\ i >= 1 /\ i <= Len(l)
  BY LenProperties
<1>1. /\ u \in Seq(S) /\ Len(u) = Len(l) - 1
      /\ \A j \in 1 .. Len(l) - 1 : u[j] = IF j < i THEN l[j] ELSE l[j + 1]
  BY UnlinkElements
<1>2. DOMAIN u = 1 .. Len(l) - 1 /\ DOMAIN l = 1 .. Len(l)
  BY <1>1, LenProperties
<1> HIDE DEF u
<1>3. Inj(u)
  BY <1>0, <1>1 DEF Inj
<1>4. ASSUME NEW e \in ToSet(u) PROVE e \in ToSet(l) /\ e # l[i]
  <2>1. PICK j \in 1 .. Len(l) - 1 : e = u[j]
    BY <1>2 DEF ToSet
  <2>2. \E k \in 1 .. Len(l) : k # i /\ e = l[k]
    <3>1. CASE j < i
      BY <1>0, <1>1, <2>1, <3>1
    <3>2. CASE j >= i
      BY <1>0, <1>1, <2>1, <3>2
    <3>3. QED
      BY <1>0, <3>1, <3>2
  <2>3. QED
    BY <1>2, <2>2 DEF ToSet, Inj
<1>5. ASSUME NEW e \in ToSet(l), e # l[i] PROVE e \in ToSet(u)
  <2>1. PICK k \in 1 .. Len(l) : e = l[k]
    BY <1>2 DEF ToSet
  <2>2. CASE k < i
    <3>1. k \in 1 .. Len(l) - 1 /\ u[k] = e
      BY <1>0, <1>1, <2>1, <2>2
    <3>2. QED
      BY <1>2, <3>1 DEF ToSet
  <2>3. CASE k > i
    <3>1. k - 1 \in 1 .. Len(l) - 1 /\ u[k - 1] = e
      BY <1>0, <1>1, <2>1, <2>3
    <3>2. QED
      BY <1>2, <3>1 DEF ToSet
  <2>4. QED
    BY <1>0, <1>5, <2>1, <2>2, <2>3
<1>6. QED
  BY <1>3, <1>4, <1>5 DEF u

\* Evicting the tail is taking out the last element.
LEMMA FrontIsUnlink ==
    ASSUME NEW S, NEW l \in Seq(S), l # <<>>
    PROVE  /\ Len(l) \in 1 .. Len(l)
           /\ Front(l) \in Seq(S) /\ Len(Front(l)) = Len(l) - 1
           /\ \A j \in 1 .. Len(l) - 1 : Front(l)[j] = l[j]
           /\ Inj(l) => Inj(Front(l)) /\ ToSet(Front(l)) = ToSet(l) \ {Last(l)}
<1>1. Len(l) \in Nat /\ Len(l) >= 1
  BY LenProperties, EmptySeq
<1>2. \A j \in 1 .. Len(l) : l[j] \in S
  BY ElementOfSeq
<1>3. /\ Front(l) \in Seq(S) /\ Len(Front(l)) = Len(l) - 1
      /\ \A j \in 1 .. Len(l) - 1 : Front(l)[j] = l[j]
  <2> DEFINE n == Len(l) - 1
  <2>1. n \in Nat /\ \A j \in 1 .. n : l[j] \in S
    BY <1>1, <1>2
  <2>2. Front(l) = SubSeq(l, 1, n)
    BY DEF Front
  <2> HIDE DEF n
  <2>3. /\ SubSeq(l, 1, n) \in Seq(S) /\ Len(SubSeq(l, 1, n)) = n
        /\ \A j \in 1 .. n : SubSeq(l, 1, n)[j] = l[j]
    BY <2>1, SubSeqProperties
  <2>4. QED
    BY <2>2, <2>3 DEF n
<1>4. DOMAIN Front(l) = 1 .. Len(l) - 1 /\ DOMAIN l = 1 .. Len(l)
  BY <1>3, LenProperties
<1>5. ASSUME Inj(l)
      PROVE  Inj(Front(l)) /\ ToSet(Front(l)) = ToSet(l) \ {Last(l)}
  <2> DEFINE f == Front(l)
  <2>1. /\ DOMAIN f = 1 .. Len(l) - 1 /\ Len(f) = Len(l) - 1
        /\ \A j \in 1 .. Len(l) - 1 : f[j] = l[j]
    BY <1>3, <1>4
  <2> HIDE DEF f
  <2>2. Inj(f)
    BY <1>1, <1>5, <2>1 DEF Inj
  <2>3. ToSet(f) = ToSet(l) \ {l[Len(l)]}
    BY <1>1, <1>4, <1>5, <2>1 DEF ToSet, Inj
  <2>4. QED
    BY <2>2, <2>3 DEF f, Last
<1>6. QED
  BY <1>1, <1>3, <1>5

\* dcInsertEntry puts a new element in front and moves the others back by one.
LEMMA ConsElements ==
    ASSUME NEW S, NEW l \in Seq(S), NEW e \in S
    PROVE  /\ Cons(e, l) \in Seq(S) /\ Len(Cons(e, l)) = Len(l) + 1
           /\ \A j \in 1 .. Len(l) + 1 :
                 Cons(e, l)[j] = IF j = 1 THEN e ELSE l[j - 1]
           /\ ToSet(Cons(e, l)) = ToSet(l) \cup {e}
           /\ Inj(l) /\ e \notin ToSet(l) => Inj(Cons(e, l))
<1> DEFINE c == Cons(e, l)
<1>0. Len(l) \in Nat /\ DOMAIN l = 1 .. Len(l)
  BY LenProperties
<1>1. /\ c \in Seq(S) /\ Len(c) = Len(l) + 1
      /\ \A j \in 1 .. Len(l) + 1 : c[j] = IF j = 1 THEN e ELSE l[j - 1]
  <2>1. <<e>> \in Seq(S) /\ Len(<<e>>) = 1 /\ <<e>>[1] = e
    OBVIOUS
  <2>2. QED
    BY <1>0, <2>1, ConcatProperties DEF Cons
<1>2. DOMAIN c = 1 .. Len(l) + 1
  BY <1>1, LenProperties
<1> HIDE DEF c
<1>3. ToSet(c) = ToSet(l) \cup {e}
  <2>1. ASSUME NEW x \in ToSet(c) PROVE x \in ToSet(l) \cup {e}
    BY <1>0, <1>1, <1>2 DEF ToSet
  <2>2. ASSUME NEW x \in ToSet(l) PROVE x \in ToSet(c)
    <3>1. PICK k \in 1 .. Len(l) : x = l[k]
      BY <1>0 DEF ToSet
    <3>2. k + 1 \in 1 .. Len(l) + 1 /\ c[k + 1] = x
      BY <1>0, <1>1, <3>1
    <3>3. QED
      BY <1>2, <3>2 DEF ToSet
  <2>3. e \in ToSet(c)
    BY <1>0, <1>1, <1>2 DEF ToSet
  <2>4. QED
    BY <2>1, <2>2, <2>3
<1>4. ASSUME Inj(l), e \notin ToSet(l) PROVE Inj(c)
  <2> SUFFICES ASSUME NEW i \in 1 .. Len(c), NEW j \in 1 .. Len(c), c[i] = c[j]
               PROVE  i = j
    BY DEF Inj
  <2>1. \A k \in 1 .. Len(l) : l[k] # e
    BY <1>0, <1>4 DEF ToSet
  <2>2. /\ i = 1 \/ (i - 1 \in 1 .. Len(l) /\ c[i] = l[i - 1])
        /\ j = 1 \/ (j - 1 \in 1 .. Len(l) /\ c[j] = l[j - 1])
        /\ c[1] = e
    BY <1>0, <1>1
  <2>3. CASE i = 1 \/ j = 1
    BY <2>1, <2>2, <2>3
  <2>4. CASE i # 1 /\ j # 1
    <3>1. i - 1 = j - 1
      BY <1>4, <2>2, <2>4 DEF Inj
    <3>2. QED
      BY <1>0, <1>1, <3>1
  <2>5. QED
    BY <2>3, <2>4
<1>5. QED
  BY <1>1, <1>3, <1>4 DEF c

LEMMA ConsSet ==
    ASSUME NEW S, NEW l \in Seq(S), NEW e \in S, Inj(l), e \notin ToSet(l)
    PROVE  ToSet(Cons(e, l)) = ToSet(l) \cup {e} /\ Inj(Cons(e, l))
BY ConsElements

LEMMA ConsAt ==
    ASSUME NEW S, NEW l \in Seq(S), NEW e \in S
    PROVE  /\ Len(Cons(e, l)) = Len(l) + 1
           /\ \A j \in 1 .. Len(l) + 1 :
                 Cons(e, l)[j] = IF j = 1 THEN e ELSE l[j - 1]
BY ConsElements

-------------------------------------------------------------------------------
(* The heap.                                                               *)

LEMMA HorizonNat == Horizon \in Nat /\ Horizon >= 1
BY BoundsAssumption DEF Horizon

LEMMA EntryTypes ==
    /\ Unallocated \in EntryType /\ Unallocated.path = NULL
    /\ \A d \in Dirs : /\ NewEntry(d) \in EntryType
                       /\ NewEntry(d).path = d
                       /\ NewEntry(d).age = 0
                       /\ ~NewEntry(d).fInvalid /\ ~NewEntry(d).outdated
<1>1. 0 \in 0 .. Horizon
  BY HorizonNat
<1>2. QED
  BY <1>1 DEF EntryType, Unallocated, NewEntry

LEMMA ChangedEntryTypes ==
    ASSUME NEW r \in EntryType
    PROVE  /\ Restarted(r) \in EntryType /\ Restarted(r).path = r.path
           /\ Restarted(r).age = 0 /\ ~Restarted(r).outdated
           /\ Restarted(r).fInvalid = r.fInvalid
           /\ Older(r) \in EntryType /\ Older(r).path = r.path
           /\ Older(r).infos = r.infos
           /\ Older(r).age = IF r.age < Horizon THEN r.age + 1 ELSE r.age
           /\ Older(r).fInvalid = r.fInvalid /\ Older(r).outdated = r.outdated
<1>1. 0 \in 0 .. Horizon /\ r.age \in 0 .. Horizon
  BY HorizonNat DEF EntryType
<1>2. (IF r.age < Horizon THEN r.age + 1 ELSE r.age) \in 0 .. Horizon
  BY <1>1, HorizonNat
<1>3. QED
  BY <1>1, <1>2 DEF EntryType, Restarted, Older

\* Freeing touches the freed cells only.
LEMMA FreedCells ==
    ASSUME TypeOK, NEW S
    PROVE  /\ Freed(S) \in [Entries -> EntryType]
           /\ \A e \in Entries : Freed(S)[e] = IF e \in S THEN Unallocated ELSE entry[e]
BY EntryTypes DEF TypeOK, Freed

\* Eviction leaves the list without its tail.
LEMMA KeptElements ==
    ASSUME TypeOK, ~(Full /\ list = <<>>)
    PROVE  /\ Kept \in Seq(Entries)
           /\ Len(list) \in Nat
           /\ Len(Kept) = IF Full THEN Len(list) - 1 ELSE Len(list)
           /\ \A j \in 1 .. Len(Kept) : j \in 1 .. Len(list) /\ Kept[j] = list[j]
           /\ Evicted \subseteq Listed
           /\ Inj(list) => Inj(Kept) /\ ToSet(Kept) = Listed \ Evicted
<1>1. list \in Seq(Entries) /\ Len(list) \in Nat /\ DOMAIN list = 1 .. Len(list)
  BY LenProperties DEF TypeOK
<1>2. CASE Full
  <2>1. /\ Len(list) \in 1 .. Len(list)
        /\ Front(list) \in Seq(Entries) /\ Len(Front(list)) = Len(list) - 1
        /\ \A j \in 1 .. Len(list) - 1 : Front(list)[j] = list[j]
        /\ Inj(list) => /\ Inj(Front(list))
                        /\ ToSet(Front(list)) = ToSet(list) \ {Last(list)}
    BY <1>1, <1>2, FrontIsUnlink
  <2>2. Kept = Front(list) /\ Evicted = {Last(list)}
    BY <1>2 DEF Kept, Evicted
  <2>3. Last(list) \in Listed
    BY <1>1, <2>1 DEF Last, Listed, ToSet
  <2>4. Evicted \subseteq Listed
    BY <2>2, <2>3
  <2>5. Inj(list) => Inj(Kept) /\ ToSet(Kept) = Listed \ Evicted
    BY <2>1, <2>2 DEF Listed
  <2>6. /\ Len(Kept) = IF Full THEN Len(list) - 1 ELSE Len(list)
        /\ \A j \in 1 .. Len(Kept) : j \in 1 .. Len(list) /\ Kept[j] = list[j]
    <3>1. Len(Kept) = Len(list) - 1
      BY <2>1, <2>2
    <3>2. ASSUME NEW j \in 1 .. Len(Kept)
          PROVE  j \in 1 .. Len(list) /\ Kept[j] = list[j]
      <4>1. j \in 1 .. Len(list) - 1 /\ j \in 1 .. Len(list)
        BY <1>1, <3>1
      <4>2. QED
        BY <2>1, <2>2, <4>1
    <3>3. QED
      BY <1>2, <3>1, <3>2
  <2>7. QED
    BY Zenon, <1>1, <2>1, <2>2, <2>4, <2>5, <2>6
<1>3. CASE ~Full
  BY <1>1, <1>3 DEF Kept, Evicted, Listed
<1>4. QED
  BY <1>2, <1>3

\* What is on the list is a cell of the heap.
LEMMA ListedCells ==
    ASSUME TypeOK
    PROVE  /\ DOMAIN list = 1 .. Len(list) /\ Len(list) \in Nat
           /\ Listed \subseteq Entries
           /\ \A i \in 1 .. Len(list) : list[i] \in Listed
BY LenProperties, ElementOfSeq DEF TypeOK, Listed, ToSet

\* Hash and comparison together tell every path from the others.
LEMMA IsForPath ==
    ASSUME NEW d \in Dirs, NEW e
    PROVE  IsFor(e, d) <=> entry[e].path = d
BY PathsAssumption DEF IsFor

LEMMA NoneForPath ==
    ASSUME TypeOK, NEW d \in Dirs, NoneFor(list, d)
    PROVE  \A e \in Listed : entry[e].path # d
<1> SUFFICES ASSUME NEW e \in Listed PROVE entry[e].path # d
  OBVIOUS
<1>1. PICK i \in 1 .. Len(list) : e = list[i]
  BY ListedCells DEF Listed, ToSet
<1>2. ~IsFor(e, d)
  BY <1>1 DEF NoneFor
<1>3. QED BY <1>2, IsForPath

-------------------------------------------------------------------------------
(* Type correctness.                                                       *)

LEMMA TypeInit == Init => TypeOK
<1> SUFFICES ASSUME Init PROVE TypeOK
  OBVIOUS
<1>1. entry \in [Entries -> EntryType]
  BY EntryTypes DEF Init
<1>2. answer \in AnswerType
  BY HorizonNat DEF Init, NoAnswer, AnswerType
<1>3. list \in Seq(Entries)
  BY EmptySeq DEF Init
<1>4. QED
  BY <1>1, <1>2, <1>3 DEF Init, TypeOK

LEMMA TypeNext == TypeOK /\ [Next]_vars => TypeOK'
<1> SUFFICES ASSUME TypeOK, [Next]_vars PROVE TypeOK'
  OBVIOUS
<1>a. NoAnswer \in AnswerType
  BY HorizonNat DEF NoAnswer, AnswerType
<1>b. \A i \in 1 .. Len(list) : entry[list[i]] \in EntryType /\ list[i] \in Entries
  BY ListedCells DEF TypeOK
<1>c. Len(list) \in Nat
  BY ListedCells
<1> USE DEF TypeOK
<1>1. CASE Create
  BY <1>1, <1>a, BoundsAssumption DEF Create
<1>2. CASE Delete
  BY <1>2, <1>a, FreedCells, EmptySeq DEF Delete
<1>3. CASE Tick
  <2>1. entry' \in [Entries -> EntryType]
    BY <1>3, ChangedEntryTypes DEF Tick
  <2>2. QED
    BY <1>3, <1>a, <2>1 DEF Tick
<1>4. ASSUME NEW t \in Threads, NEW d \in Dirs, ListFiles(t, d) PROVE TypeOK'
  <2>1. CASE ListHit(t, d)
    <3>1. answer' \in AnswerType
      BY <1>b, <2>1 DEF ListHit, AnswerType, EntryType
    <3>2. QED
      BY <2>1, <3>1 DEF ListHit
  <2>2. CASE ListExpired(t, d)
    <3>1. PICK i \in 1 .. Len(list) : /\ list' = Unlink(list, i)
                                     /\ entry' = Freed({list[i]})
      BY <2>2 DEF ListExpired
    <3>2. list' \in Seq(Entries)
      BY <3>1, UnlinkElements
    <3>3. entry' \in [Entries -> EntryType]
      BY <3>1, FreedCells
    <3>4. QED
      BY <1>a, <2>2, <3>2, <3>3 DEF ListExpired, Missed
  <2>3. CASE ListMiss(t, d)
    BY <1>a, <2>3 DEF ListMiss, Missed
  <2>4. QED
    BY <1>4, <2>1, <2>2, <2>3 DEF ListFiles
<1>5. ASSUME NEW t \in Threads, Fill(t) PROVE TypeOK'
  <2>1. CASE BeginNoCache(t)
    BY <1>a, <2>1 DEF BeginNoCache, Writing
  <2>2. CASE BeginTrap(t)
    BY <1>a, <2>2 DEF BeginTrap
  <2>3. CASE BeginReuse(t)
    <3>1. PICK i \in 1 .. Len(Kept) :
             /\ list' = Unlink(Kept, i)
             /\ entry' = [Freed(Evicted) EXCEPT ![Kept[i]] = Restarted(@)]
             /\ Writing(t, Kept[i])
      BY <2>3 DEF BeginReuse
    <3>2. Kept \in Seq(Entries) /\ Kept[i] \in Entries
      BY <2>3, KeptElements, ElementOfSeq DEF BeginReuse, EvictAndBegin
    <3>3. list' \in Seq(Entries)
      BY <3>1, <3>2, UnlinkElements
    <3>4. entry' \in [Entries -> EntryType]
      <4>1. Freed(Evicted) \in [Entries -> EntryType]
        BY FreedCells
      <4>2. QED
        BY <3>1, <3>2, <4>1, ChangedEntryTypes
    <3>5. QED
      BY <1>a, <2>3, <3>1, <3>2, <3>3, <3>4 DEF BeginReuse, Writing
  <2>4. CASE BeginCreate(t)
    <3>1. PICK e \in Entries \ Live :
             /\ entry' = [Freed(Evicted) EXCEPT ![e] = NewEntry(dir[t])]
             /\ Writing(t, e)
      BY <2>4 DEF BeginCreate
    <3>2. list' \in Seq(Entries)
      BY <2>4, KeptElements DEF BeginCreate, EvictAndBegin
    <3>3. NewEntry(dir[t]) \in EntryType
      <4>1. 0 \in 0 .. Horizon
        BY HorizonNat
      <4>2. QED
        BY <4>1 DEF NewEntry, EntryType
    <3>4. entry' \in [Entries -> EntryType]
      BY <3>1, <3>3, FreedCells
    <3>5. QED
      BY <1>a, <2>4, <3>1, <3>2, <3>4 DEF BeginCreate, Writing
  <2>5. CASE BeginNoMemory(t)
    <3>1. list' \in Seq(Entries) /\ entry' \in [Entries -> EntryType]
      BY <2>5, KeptElements, FreedCells DEF BeginNoMemory, EvictAndBegin
    <3>2. QED
      BY <1>a, <2>5, <3>1 DEF BeginNoMemory, Writing
  <2>6. CASE BeginTrapNoPath(t)
    <3>1. list' \in Seq(Entries) /\ entry' \in [Entries -> EntryType]
      BY <2>6, KeptElements, FreedCells DEF BeginTrapNoPath, EvictAndBegin
    <3>2. QED
      BY <1>a, <2>6, <3>1 DEF BeginTrapNoPath
  <2>7. ASSUME NEW f \in Infos, WriteEntry(t, f) PROVE TypeOK'
    <3>1. entry' \in [Entries -> EntryType]
      BY <2>7, ZenonT(30) DEF WriteEntry, EntryType
    <3>2. QED
      BY <1>a, <2>7, <3>1 DEF WriteEntry
  <2>8. CASE WriteEntryNoMemory(t)
    <3>1. entry' \in [Entries -> EntryType]
      BY <2>8, ZenonT(30) DEF WriteEntryNoMemory, EntryType
    <3>2. QED
      BY <1>a, <2>8, <3>1 DEF WriteEntryNoMemory
  <2>9. CASE WriteEnd(t)
    <3>1. ctx[t] \in Entries
      BY <2>9 DEF WriteEnd, Filling, TypeOK
    <3>2. list' \in Seq(Entries)
      BY <2>9, <3>1, ConsElements DEF WriteEnd
    <3>3. QED
      BY <1>a, <2>9, <3>2 DEF WriteEnd, Return
  <2>10. CASE WriteEndInvalid(t)
    BY <1>a, <2>10, FreedCells DEF WriteEndInvalid, Return
  <2>11. CASE WriteEndTrap(t)
    BY <1>a, <2>11 DEF WriteEndTrap
  <2>12. CASE Abandon(t)
    <3>1. entry' \in [Entries -> EntryType]
      BY <2>12, FreedCells DEF Abandon
    <3>2. QED
      BY <1>a, <2>12, <3>1 DEF Abandon, Return
  <2>13. CASE GiveUp(t)
    BY <1>a, <2>13 DEF GiveUp
  <2>14. QED
    BY <1>5, <2>1, <2>2, <2>3, <2>4, <2>5, <2>6, <2>7, <2>8, <2>9, <2>10,
       <2>11, <2>12, <2>13 DEF Fill, WriteBegin
<1>6. ASSUME NEW t \in Threads, Invalidate(t) PROVE TypeOK'
  <2>1. ASSUME NEW d \in Dirs, InvalidateStart(t, d) PROVE TypeOK'
    <3>1. entry' \in [Entries -> EntryType]
      BY <2>1, ZenonT(30) DEF InvalidateStart, EntryType
    <3>2. QED
      BY <1>a, <2>1, <3>1 DEF InvalidateStart
  <2>2. CASE InvalidateStep(t)
    <3>1. PICK i \in 1 .. Len(list) : /\ list' = Unlink(list, i)
                                     /\ entry' = Freed({list[i]})
      BY <2>2 DEF InvalidateStep
    <3>2. list' \in Seq(Entries) /\ entry' \in [Entries -> EntryType]
      BY <3>1, UnlinkElements, FreedCells
    <3>3. QED
      BY <1>a, <2>2, <3>2 DEF InvalidateStep
  <2>3. CASE InvalidateEnd(t)
    BY <1>a, <2>3 DEF InvalidateEnd, Return
  <2>4. QED
    BY <1>6, <2>1, <2>2, <2>3 DEF Invalidate
<1>7. ASSUME NEW t \in Threads, NEW d \in Dirs, NEW n \in Names, QueryHit(t, d, n)
      PROVE  TypeOK'
  <2>1. answer' \in AnswerType
    BY <1>b, <1>7 DEF QueryHit, AnswerType, EntryType
  <2>2. QED
    BY <1>7, <2>1 DEF QueryHit
<1>8. CASE UNCHANGED vars
  BY <1>8 DEF vars
<1>9. QED
  BY <1>1, <1>2, <1>3, <1>4, <1>5, <1>6, <1>7, <1>8 DEF Next, Step

\* The state of the cache and of its callers stays well formed.
THEOREM TypeCorrect == Spec => []TypeOK
BY TypeInit, TypeNext, PTL DEF Spec

-------------------------------------------------------------------------------
(* Requests.                                                               *)

\* A request in progress has a directory, and the plugin mutex admits one.
Requests ==
    /\ \A t \in Threads : pc[t] # "idle" => dir[t] \in Dirs
    /\ Serialized => \A t, u \in Threads : pc[t] # "idle" /\ pc[u] # "idle" => t = u

LEMMA RequestsInit == Init => Requests
BY DEF Init, Requests

\* A new request starts only when the plugin mutex is free.
LEMMA RequestStarts ==
    ASSUME TypeOK, Requests, NEW t \in Threads, NEW d \in Dirs, NEW s,
           PluginMutexFree(t), dir' = [dir EXCEPT ![t] = d],
           pc' = [pc EXCEPT ![t] = s]
    PROVE  Requests'
BY DEF TypeOK, Requests, PluginMutexFree

\* A request goes on or ends.
LEMMA RequestContinues ==
    ASSUME TypeOK, Requests, NEW t \in Threads, NEW s, pc[t] # "idle" \/ s = "idle",
           pc' = [pc EXCEPT ![t] = s],
           dir' = dir \/ (s = "idle" /\ dir' = [dir EXCEPT ![t] = NULL])
    PROVE  Requests'
BY DEF TypeOK, Requests

LEMMA RequestsNext == TypeOK /\ Requests /\ [Next]_vars => Requests'
<1> SUFFICES ASSUME TypeOK, Requests, [Next]_vars PROVE Requests'
  OBVIOUS
<1>1. CASE UNCHANGED <<pc, dir>>
  BY <1>1 DEF Requests
<1>2. ASSUME NEW t \in Threads, NEW d \in Dirs, ListFiles(t, d) PROVE Requests'
  BY <1>1, <1>2, RequestStarts
     DEF ListFiles, ListHit, ListExpired, ListMiss, StartList, Missed
<1>3. ASSUME NEW t \in Threads, Fill(t) PROVE Requests'
  <2>1. CASE WriteBegin(t)
    BY <1>1, <2>1, RequestContinues
       DEF WriteBegin, BeginNoCache, BeginTrap, BeginReuse, BeginCreate,
           BeginNoMemory, BeginTrapNoPath, EvictAndBegin, StartWrite, Writing
  <2>2. CASE ~WriteBegin(t)
    BY <1>1, <1>3, <2>2, RequestContinues
       DEF Fill, Filling, WriteEntry, WriteEntryNoMemory, WriteEnd, WriteEndInvalid,
           WriteEndTrap, Abandon, GiveUp, Return
  <2>3. QED
    BY <2>1, <2>2
<1>4. ASSUME NEW t \in Threads, Invalidate(t) PROVE Requests'
  BY <1>1, <1>4, RequestStarts, RequestContinues
     DEF Invalidate, InvalidateStart, InvalidateStep, InvalidateEnd, Return
<1>5. QED
  BY <1>1, <1>2, <1>3, <1>4 DEF Next, Step, Create, Delete, Tick, QueryHit, vars

-------------------------------------------------------------------------------
(* Ownership of the entries.                                               *)

\* Taking the i-th entry off the list and freeing it.
LEMMA RemoveOwned ==
    ASSUME TypeOK, EntryOwnership, NEW i \in 1 .. Len(list),
           list' = Unlink(list, i), entry' = Freed({list[i]}),
           ctx' = ctx, \A t \in Writers : pc'[t] = pc[t]
    PROVE  EntryOwnership'
<1>1. Inj(list') /\ Listed' = Listed \ {list[i]}
  BY UnlinkSet DEF TypeOK, EntryOwnership, Inj, Listed
<1>2. Live' = Live \ {list[i]}
  BY FreedCells, EntryTypes DEF Live
<1>3. Writers' = Writers
  BY DEF Writers
<1>4. list[i] \in Listed
  BY ListedCells
<1>5. QED
  BY <1>1, <1>2, <1>3, <1>4 DEF EntryOwnership, Inj

\* Freeing the entry a thread fills, or letting go of it.
LEMMA DropOwned ==
    ASSUME TypeOK, EntryOwnership, NEW t \in Threads, t \in Writers,
           list' = list, entry' = Freed({ctx[t]}), Return(t)
    PROVE  EntryOwnership'
<1>1. Live' = Live \ {ctx[t]} /\ Listed' = Listed
  BY FreedCells, EntryTypes DEF Live, Listed
<1>2. /\ Writers' = Writers \ {t}
      /\ \A u \in Writers' : ctx'[u] = ctx[u] /\ pc'[u] = pc[u]
  BY DEF Return, Writers, TypeOK
<1>3. QED
  BY <1>1, <1>2 DEF EntryOwnership

\* The cells that are in use stay in use.
LEMMA SameOwned ==
    ASSUME EntryOwnership, list' = list, ctx' = ctx,
           \A t \in Writers : pc'[t] = pc[t],
           \A e \in Entries : entry'[e].path = entry[e].path
    PROVE  EntryOwnership'
<1>1. Live' = Live /\ Listed' = Listed /\ Writers' = Writers
  BY DEF Live, Listed, Writers
<1>2. QED
  BY <1>1 DEF EntryOwnership

\* A thread that is about to begin has no entry yet.
LEMMA BeginOwned ==
    ASSUME TypeOK, EntryOwnership, NEW t \in Threads, EvictAndBegin(t)
    PROVE  /\ t \notin Writers /\ Inj(Kept) /\ ToSet(Kept) = Listed \ Evicted
           /\ Evicted \subseteq Listed
<1>1. Inj(list) /\ t \notin Writers
  BY DEF EntryOwnership, Inj, EvictAndBegin, StartWrite
<1>2. QED
  BY <1>1, KeptElements DEF EvictAndBegin

LEMMA OwnershipNext == TypeOK /\ Requests /\ EntryOwnership /\ [Next]_vars => EntryOwnership'
<1> SUFFICES ASSUME TypeOK, Requests, EntryOwnership, [Next]_vars PROVE EntryOwnership'
  OBVIOUS
<1>1. CASE Create
  BY <1>1, SameOwned DEF Create
<1>2. CASE Delete
  <2>1. Writers = {}
    BY <1>2 DEF Delete, AllIdle, EntryOwnership, Writers
  <2>2. Writers' = {} /\ Listed' = {} /\ Inj(list')
    BY <1>2, <2>1, EmptySeq DEF Delete, Writers, Listed, ToSet, Inj
  <2>3. Live' = {}
    <3>1. Live = Listed
      BY <2>1 DEF EntryOwnership
    <3>2. QED
      BY <1>2, <3>1, FreedCells, EntryTypes DEF Delete, Live
  <2>4. QED
    BY <2>2, <2>3 DEF EntryOwnership, Inj
<1>3. CASE Tick
  <2>1. \A e \in Entries : entry'[e].path = entry[e].path
    BY <1>3, ChangedEntryTypes DEF Tick, TypeOK
  <2>2. QED
    BY <1>3, <2>1, SameOwned DEF Tick
<1>4. ASSUME NEW t \in Threads, NEW d \in Dirs, ListFiles(t, d) PROVE EntryOwnership'
  <2>0. t \notin Writers
    BY <1>4 DEF ListFiles, ListHit, ListExpired, ListMiss, StartList, EntryOwnership
  <2>1. CASE ListHit(t, d)
    BY <2>1, SameOwned DEF ListHit
  <2>2. CASE ListExpired(t, d)
    BY <2>0, <2>2, RemoveOwned DEF ListExpired, Missed, TypeOK, Writers
  <2>3. CASE ListMiss(t, d)
    BY <2>0, <2>3, SameOwned DEF ListMiss, Missed, TypeOK, Writers
  <2>4. QED
    BY <1>4, <2>1, <2>2, <2>3 DEF ListFiles
<1>5. ASSUME NEW t \in Threads, Fill(t) PROVE EntryOwnership'
  <2>1. CASE BeginNoCache(t)
    <3>1. t \notin Writers
      BY <2>1 DEF BeginNoCache, StartWrite, EntryOwnership
    <3>2. ctx' = ctx /\ \A u \in Writers : pc'[u] = pc[u]
      BY <2>1, <3>1 DEF BeginNoCache, Writing, TypeOK, Writers
    <3>3. QED
      BY <2>1, <3>2, SameOwned DEF BeginNoCache
  <2>2. CASE BeginTrap(t)
    BY <2>2, SameOwned DEF BeginTrap
  <2>3. CASE BeginReuse(t)
    <3>1. PICK i \in 1 .. Len(Kept) :
             /\ list' = Unlink(Kept, i)
             /\ entry' = [Freed(Evicted) EXCEPT ![Kept[i]] = Restarted(@)]
             /\ Writing(t, Kept[i])
      BY <2>3 DEF BeginReuse
    <3>2. /\ t \notin Writers /\ Inj(Kept) /\ ToSet(Kept) = Listed \ Evicted
          /\ Evicted \subseteq Listed /\ Kept \in Seq(Entries)
      BY <2>3, BeginOwned, KeptElements DEF BeginReuse, EvictAndBegin
    <3>3. Kept[i] \in Entries /\ Kept[i] \in ToSet(Kept)
      BY <3>2, ElementOfSeq, LenProperties DEF ToSet
    <3>4. Inj(list') /\ Listed' = (Listed \ Evicted) \ {Kept[i]}
      BY <3>1, <3>2, UnlinkSet DEF Listed
    <3>5. Live' = Live \ Evicted
      <4>1. Freed(Evicted)[Kept[i]] = entry[Kept[i]]
        BY <3>2, <3>3, FreedCells
      <4>2. \A e \in Entries : entry'[e].path = Freed(Evicted)[e].path
        BY <3>1, <3>3, <4>1, FreedCells, ChangedEntryTypes DEF TypeOK
      <4>3. QED
        BY <4>2, FreedCells, EntryTypes DEF Live
    <3>6. /\ Writers' = Writers \cup {t} /\ ctx'[t] = Kept[i] /\ pc'[t] = "writing"
          /\ \A u \in Writers : ctx'[u] = ctx[u] /\ pc'[u] = pc[u]
      BY <3>1, <3>2, <3>3, NullAssumption DEF Writing, Writers, TypeOK
    <3>7. QED
      BY <3>2, <3>3, <3>4, <3>5, <3>6 DEF EntryOwnership, Inj
  <2>4. CASE BeginCreate(t)
    <3>1. PICK e \in Entries \ Live :
             /\ entry' = [Freed(Evicted) EXCEPT ![e] = NewEntry(dir[t])]
             /\ Writing(t, e)
      BY <2>4 DEF BeginCreate
    <3>2. /\ t \notin Writers /\ Inj(list') /\ Listed' = Listed \ Evicted
          /\ Evicted \subseteq Listed
      BY <2>4, BeginOwned DEF BeginCreate, Listed
    <3>3. Live' = (Live \ Evicted) \cup {e}
      <4>1. dir[t] # NULL
        BY <2>4, NullAssumption DEF BeginCreate, EvictAndBegin, StartWrite, Requests
      <4>2. \A x \in Entries : x # e => entry'[x] = Freed(Evicted)[x]
        BY <3>1, FreedCells
      <4>3. entry'[e].path # NULL
        BY <3>1, <4>1, FreedCells DEF NewEntry
      <4>4. QED
        BY <3>1, <4>2, <4>3, FreedCells, EntryTypes DEF Live
    <3>4. /\ Writers' = Writers \cup {t} /\ ctx'[t] = e /\ pc'[t] = "writing"
          /\ \A u \in Writers : ctx'[u] = ctx[u] /\ pc'[u] = pc[u]
      BY <3>1, <3>2, NullAssumption DEF Writing, Writers, TypeOK
    <3>5. QED
      BY <3>1, <3>2, <3>3, <3>4 DEF EntryOwnership, Inj
  <2>5. CASE BeginNoMemory(t) \/ BeginTrapNoPath(t)
    <3>1. /\ t \notin Writers /\ Inj(list') /\ Listed' = Listed \ Evicted
          /\ Evicted \subseteq Listed
      BY <2>5, BeginOwned DEF BeginNoMemory, BeginTrapNoPath, Listed
    <3>2. Live' = Live \ Evicted
      BY <2>5, FreedCells, EntryTypes DEF BeginNoMemory, BeginTrapNoPath, Live
    <3>3. ctx' = ctx /\ Writers' = Writers /\ \A u \in Writers : pc'[u] = pc[u]
      BY <2>5, <3>1 DEF BeginNoMemory, BeginTrapNoPath, Writing, Writers, TypeOK
    <3>4. QED
      BY <3>1, <3>2, <3>3 DEF EntryOwnership, Inj
  <2>6. ASSUME NEW f \in Infos, WriteEntry(t, f) PROVE EntryOwnership'
    <3>1. \A e \in Entries : entry'[e].path = entry[e].path
      BY <2>6 DEF WriteEntry, TypeOK, EntryType
    <3>2. QED
      BY <2>6, <3>1, SameOwned DEF WriteEntry
  <2>7. CASE WriteEntryNoMemory(t)
    <3>1. \A e \in Entries : entry'[e].path = entry[e].path
      BY <2>7 DEF WriteEntryNoMemory, TypeOK, EntryType
    <3>2. QED
      BY <2>7, <3>1, SameOwned DEF WriteEntryNoMemory
  <2>8. CASE WriteEnd(t)
    <3>1. t \in Writers /\ ctx[t] \in Entries /\ ctx[t] \notin Listed /\ Inj(list)
      BY <2>8 DEF WriteEnd, Filling, Writers, TypeOK, EntryOwnership, Inj
    <3>2. Inj(list') /\ Listed' = Listed \cup {ctx[t]}
      <4>1. list \in Seq(Entries) /\ list' = Cons(ctx[t], list)
        BY <2>8 DEF WriteEnd, TypeOK
      <4>2. /\ ToSet(Cons(ctx[t], list)) = ToSet(list) \cup {ctx[t]}
            /\ Inj(Cons(ctx[t], list))
        <5>1. ctx[t] \notin ToSet(list)
          BY <3>1 DEF Listed
        <5>2. QED
          BY <3>1, <4>1, <5>1, ConsSet
      <4>3. QED
        BY <4>1, <4>2 DEF Listed
    <3>3. Live' = Live
      BY <2>8 DEF WriteEnd, Live
    <3>4. /\ Writers' = Writers \ {t}
          /\ \A u \in Writers' : ctx'[u] = ctx[u] /\ pc'[u] = pc[u]
      BY <2>8 DEF WriteEnd, Return, Writers, TypeOK
    <3>5. QED
      BY <3>1, <3>2, <3>3, <3>4 DEF EntryOwnership, Inj
  <2>9. CASE WriteEndInvalid(t)
    BY <2>9, DropOwned DEF WriteEndInvalid, Filling, Writers
  <2>10. CASE WriteEndTrap(t)
    BY <2>10, SameOwned DEF WriteEndTrap
  <2>11. CASE Abandon(t)
    <3>1. CASE ctx[t] = NULL
      <4>1. ctx' = ctx /\ \A u \in Writers : pc'[u] = pc[u]
        BY <2>11, <3>1 DEF Abandon, Return, Writers, TypeOK
      <4>2. \A e \in Entries : entry'[e].path = entry[e].path
        BY <2>11, <3>1, NullAssumption DEF Abandon, Freed
      <4>3. QED
        BY <2>11, <3>1, <4>1, <4>2, SameOwned DEF Abandon
    <3>2. CASE ctx[t] # NULL
      BY <2>11, <3>2, DropOwned DEF Abandon, Writers
    <3>3. QED
      BY <3>1, <3>2
  <2>12. CASE GiveUp(t)
    <3>1. \A u \in Writers : pc'[u] = pc[u]
      BY <2>12 DEF GiveUp, EntryOwnership, Writers, TypeOK
    <3>2. QED
      BY <2>12, <3>1, SameOwned DEF GiveUp
  <2>13. QED
    BY <1>5, <2>1, <2>2, <2>3, <2>4, <2>5, <2>6, <2>7, <2>8, <2>9, <2>10,
       <2>11, <2>12 DEF Fill, WriteBegin
<1>6. ASSUME NEW t \in Threads, Invalidate(t) PROVE EntryOwnership'
  <2>1. ASSUME NEW d \in Dirs, InvalidateStart(t, d) PROVE EntryOwnership'
    <3>1. \A e \in Entries : entry'[e].path = entry[e].path
      BY <2>1 DEF InvalidateStart, TypeOK, EntryType
    <3>2. \A u \in Writers : pc'[u] = pc[u]
      BY <2>1 DEF InvalidateStart, EntryOwnership, Writers, TypeOK
    <3>3. QED
      BY <2>1, <3>1, <3>2, SameOwned DEF InvalidateStart
  <2>2. CASE InvalidateStep(t)
    BY <2>2, RemoveOwned DEF InvalidateStep
  <2>3. CASE InvalidateEnd(t)
    <3>1. t \notin Writers
      BY <2>3 DEF InvalidateEnd, EntryOwnership
    <3>2. ctx' = ctx /\ \A u \in Writers : pc'[u] = pc[u]
      BY <2>3, <3>1 DEF InvalidateEnd, Return, Writers, TypeOK
    <3>3. QED
      BY <2>3, <3>2, SameOwned DEF InvalidateEnd
  <2>4. QED
    BY <1>6, <2>1, <2>2, <2>3 DEF Invalidate
<1>7. ASSUME NEW t \in Threads, NEW d \in Dirs, NEW n \in Names, QueryHit(t, d, n)
      PROVE  EntryOwnership'
  BY <1>7, SameOwned DEF QueryHit
<1>8. CASE UNCHANGED vars
  BY <1>8, SameOwned DEF vars
<1>9. QED
  BY <1>1, <1>2, <1>3, <1>4, <1>5, <1>6, <1>7, <1>8 DEF Next, Step

LEMMA OwnershipInit == Init => EntryOwnership
<1> SUFFICES ASSUME Init PROVE EntryOwnership
  OBVIOUS
<1>1. Listed = {} /\ Live = {} /\ Writers = {} /\ Len(list) = 0
  BY EmptySeq DEF Init, Listed, ToSet, Live, Writers, Unallocated
<1>2. QED
  BY <1>1 DEF EntryOwnership

\* Every entry is on the list once, or with one filling thread, or free.
THEOREM OwnershipHolds == Spec => []EntryOwnership
<1>1. Init => TypeOK /\ Requests /\ EntryOwnership
  BY TypeInit, RequestsInit, OwnershipInit
<1>2. TypeOK /\ Requests /\ EntryOwnership /\ [Next]_vars
         => TypeOK' /\ Requests' /\ EntryOwnership'
  BY TypeNext, RequestsNext, OwnershipNext
<1>3. QED
  BY <1>1, <1>2, PTL DEF Spec

-------------------------------------------------------------------------------
(* The order of the list.                                                  *)

\* The elements of l are elements of m, in the same order.
InOrder(l, m) == \A i, j \in 1 .. Len(l) :
                    i < j => \E k, n \in 1 .. Len(m) :
                                k < n /\ m[k] = l[i] /\ m[n] = l[j]

LEMMA UnlinkOrder ==
    ASSUME NEW S, NEW l \in Seq(S), NEW i \in 1 .. Len(l)
    PROVE  InOrder(Unlink(l, i), l)
<1> DEFINE u == Unlink(l, i)
           at(j) == IF j < i THEN j ELSE j + 1
<1>1. Len(l) \in Nat /\ i \in Int /\ i >= 1 /\ i <= Len(l)
  BY LenProperties
<1>2. /\ Len(u) = Len(l) - 1
      /\ \A j \in 1 .. Len(l) - 1 : u[j] = IF j < i THEN l[j] ELSE l[j + 1]
  BY UnlinkElements
<1> HIDE DEF u
<1>3. \A j \in 1 .. Len(u) : at(j) \in 1 .. Len(l) /\ l[at(j)] = u[j]
  BY <1>1, <1>2
<1>4. \A j, k \in 1 .. Len(u) : j < k => at(j) < at(k)
  BY <1>1, <1>2
<1> HIDE DEF at
<1>5. InOrder(u, l)
  BY <1>3, <1>4 DEF InOrder
<1>6. QED BY <1>5 DEF u

LEMMA InOrderTransitive ==
    ASSUME NEW l, NEW m, NEW o, InOrder(l, m), InOrder(m, o)
    PROVE  InOrder(l, o)
<1>1. SUFFICES ASSUME NEW i \in 1 .. Len(l), NEW j \in 1 .. Len(l), i < j
               PROVE  \E k, n \in 1 .. Len(o) : k < n /\ o[k] = l[i] /\ o[n] = l[j]
  BY DEF InOrder
<1>2. PICK k \in 1 .. Len(m), n \in 1 .. Len(m) : k < n /\ m[k] = l[i] /\ m[n] = l[j]
  BY <1>1 DEF InOrder
<1>3. \E a, b \in 1 .. Len(o) : a < b /\ o[a] = m[k] /\ o[b] = m[n]
  BY <1>2 DEF InOrder
<1>4. QED BY <1>2, <1>3

\* Eviction keeps the order, and so does an expiry after it.
LEMMA KeptOrder ==
    ASSUME TypeOK, ~(Full /\ list = <<>>)
    PROVE  /\ InOrder(Kept, list)
           /\ \A i \in 1 .. Len(Kept) : InOrder(Unlink(Kept, i), list)
<1>1. /\ Kept \in Seq(Entries)
      /\ \A j \in 1 .. Len(Kept) : j \in 1 .. Len(list) /\ Kept[j] = list[j]
  BY KeptElements
<1>2. InOrder(Kept, list)
  BY <1>1 DEF InOrder
<1>3. \A i \in 1 .. Len(Kept) : InOrder(Unlink(Kept, i), Kept)
  BY <1>1, UnlinkOrder
<1>4. ASSUME NEW i \in 1 .. Len(Kept)
      PROVE  InOrder(Unlink(Kept, i), list)
  <2>1. InOrder(Unlink(Kept, i), Kept)
    BY <1>3
  <2>2. QED BY <2>1, <1>2, InOrderTransitive
<1>5. QED BY <1>2, <1>4

-------------------------------------------------------------------------------
(* Whole requests serialised.                                              *)

OneListing == \A d, e \in Live : entry[d].path = entry[e].path => d = e

\* The listing that is being filled was begun after those of the list.
FilledNewest == \A t \in Writers, e \in Listed : entry[ctx[t]].age <= entry[e].age

ListNewest == \A i, j \in 1 .. Len(list) :
                 i < j => entry[list[i]].age <= entry[list[j]].age

\* An entry that is out of date is about to be removed.
OutdatedGoing == \A e \in Live : entry[e].outdated =>
                    \E t \in Threads : pc[t] = "invalidating" /\ dir[t] = entry[e].path

SerialInv == OneListing /\ FilledNewest /\ ListNewest /\ OutdatedGoing

\* What NewestFirst, UniquePaths and AnswersFresh read of an entry.
SameEntry(e) == /\ entry'[e].path = entry[e].path
                /\ entry'[e].age = entry[e].age
                /\ entry'[e].outdated = entry[e].outdated

\* Entries leave the list or the heap, those that stay are as they were, and no
\* request starts to fill or ceases to invalidate.
LEMMA SerialKept ==
    ASSUME TypeOK, TypeOK', EntryOwnership, SerialInv,
           Live' \subseteq Live, Listed' \subseteq Listed, InOrder(list', list),
           Listed' \subseteq Live', \A e \in Live' : SameEntry(e),
           \A t \in Writers' : t \in Writers /\ ctx'[t] = ctx[t] /\ ctx'[t] \in Live',
           \A t \in Threads : pc[t] = "invalidating"
                                 => pc'[t] = "invalidating" /\ dir'[t] = dir[t]
    PROVE  SerialInv'
<1>1. OneListing'
  BY DEF SerialInv, OneListing, SameEntry
<1>2. FilledNewest'
  BY DEF SerialInv, FilledNewest, SameEntry
<1>3. ListNewest'
  <2> SUFFICES ASSUME NEW i \in 1 .. Len(list'), NEW j \in 1 .. Len(list'), i < j
               PROVE  entry'[list'[i]].age <= entry'[list'[j]].age
    BY DEF ListNewest
  <2>1. PICK k \in 1 .. Len(list), n \in 1 .. Len(list) :
           k < n /\ list[k] = list'[i] /\ list[n] = list'[j]
    BY DEF InOrder
  <2>2. list'[i] \in Live' /\ list'[j] \in Live'
    <3>1. list'[i] \in Listed' /\ list'[j] \in Listed'
      BY LenProperties DEF TypeOK, Listed, ToSet
    <3>2. QED BY <3>1
  <2>3. QED
    BY <2>1, <2>2 DEF SerialInv, ListNewest, SameEntry
<1>4. OutdatedGoing'
  BY DEF SerialInv, OutdatedGoing, SameEntry
<1>5. QED BY <1>1, <1>2, <1>3, <1>4 DEF SerialInv

LEMMA FreedKeeps ==
    ASSUME TypeOK, NEW S, entry' = Freed(S)
    PROVE  Live' = Live \ S /\ \A e \in Live' : SameEntry(e)
BY FreedCells, EntryTypes DEF Live, SameEntry

\* Entries are freed, nothing else happens to the heap.
LEMMA SerialFreed ==
    ASSUME TypeOK, TypeOK', EntryOwnership, EntryOwnership', SerialInv,
           NEW S, entry' = Freed(S), Listed' \subseteq Listed, InOrder(list', list),
           \A t \in Writers' : t \in Writers /\ ctx'[t] = ctx[t],
           \A t \in Threads : pc[t] = "invalidating"
                                 => pc'[t] = "invalidating" /\ dir'[t] = dir[t]
    PROVE  SerialInv'
<1>1. Live' \subseteq Live /\ \A e \in Live' : SameEntry(e)
  BY FreedKeeps
<1>2. Listed' \subseteq Live' /\ \A t \in Writers' : ctx'[t] \in Live'
  BY DEF EntryOwnership
<1>3. QED BY <1>1, <1>2, SerialKept

\* The list stays, and of the heap what the invariant reads.
LEMMA SerialSame ==
    ASSUME TypeOK, TypeOK', EntryOwnership, EntryOwnership', SerialInv,
           list' = list, \A e \in Entries : SameEntry(e),
           \A t \in Writers' : t \in Writers /\ ctx'[t] = ctx[t],
           \A t \in Threads : pc[t] = "invalidating"
                                 => pc'[t] = "invalidating" /\ dir'[t] = dir[t]
    PROVE  SerialInv'
<1>1. Live' = Live /\ Listed' = Listed
  BY DEF Live, Listed, SameEntry
<1>2. InOrder(list', list)
  BY DEF InOrder
<1>3. \A e \in Live' : SameEntry(e)
  BY DEF Live
<1>4. Listed' \subseteq Live' /\ \A t \in Writers' : ctx'[t] \in Live'
  BY DEF EntryOwnership
<1>5. QED BY <1>1, <1>2, <1>3, <1>4, SerialKept

LEMMA OrderByAge ==
    ASSUME ListNewest, InOrder(list', list),
           NEW i \in 1 .. Len(list'), NEW j \in 1 .. Len(list'), i < j
    PROVE  entry[list'[i]].age <= entry[list'[j]].age
<1>1. PICK k \in 1 .. Len(list), n \in 1 .. Len(list) :
         k < n /\ list[k] = list'[i] /\ list[n] = list'[j]
  BY DEF InOrder
<1>2. QED BY <1>1 DEF ListNewest

LEMMA SerialNext ==
    ASSUME Serialized, TypeOK, Requests, EntryOwnership, SerialInv,
           [Next]_vars, TypeOK', Requests', EntryOwnership'
    PROVE  SerialInv'
<1>a. \A t, u \in Threads : pc[t] # "idle" /\ pc[u] # "idle" => t = u
  BY DEF Requests
<1>b. \A t \in Writers : pc[t] = "writing" /\ t \in Threads
  BY DEF EntryOwnership, Writers
<1>c. Listed \subseteq Live /\ Listed' \subseteq Live' /\ \A t \in Writers : ctx[t] \in Live
  BY DEF EntryOwnership
<1>1. CASE Create
  BY <1>1, SerialSame DEF Create, SameEntry, Writers
<1>2. CASE Delete
  <2>1. Listed' \subseteq Listed /\ InOrder(list', list)
    BY <1>2, EmptySeq DEF Delete, Listed, ToSet, InOrder
  <2>2. \A t \in Writers' : t \in Writers /\ ctx'[t] = ctx[t]
    BY <1>2 DEF Delete, Writers
  <2>3. QED
    BY <1>2, <2>1, <2>2, SerialFreed DEF Delete
<1>3. CASE Tick
  <2>1. /\ list' = list /\ Listed' = Listed /\ Writers' = Writers /\ ctx' = ctx
        /\ pc' = pc /\ dir' = dir
    BY <1>3 DEF Tick, Listed, Writers
  <2>2. \A e \in Entries : /\ entry'[e].path = entry[e].path
                           /\ entry'[e].outdated = entry[e].outdated
    BY <1>3, ChangedEntryTypes DEF Tick, TypeOK
  <2>3. Live' = Live
    BY <2>2 DEF Live
  <2>4. \A d, e \in Live : entry[d].age <= entry[e].age => entry'[d].age <= entry'[e].age
    <3>1. \A e \in Live : /\ entry[e].age \in 0 .. Horizon
                          /\ entry'[e].age = IF entry[e].age < Horizon
                                             THEN entry[e].age + 1 ELSE entry[e].age
      BY <1>3, ChangedEntryTypes DEF Tick, TypeOK, Live, EntryType
    <3>2. QED BY <3>1, HorizonNat
  <2>5. OneListing' /\ OutdatedGoing'
    BY <2>1, <2>2, <2>3 DEF SerialInv, OneListing, OutdatedGoing, Live
  <2>6. FilledNewest'
    BY <1>c, <2>1, <2>4 DEF SerialInv, FilledNewest
  <2>7. ListNewest'
    BY <1>c, <2>1, <2>4, ListedCells DEF SerialInv, ListNewest
  <2>8. QED BY <2>5, <2>6, <2>7 DEF SerialInv
<1>4. ASSUME NEW t \in Threads, NEW d \in Dirs, ListFiles(t, d) PROVE SerialInv'
  <2>1. CASE ListHit(t, d)
    BY <2>1, SerialSame DEF ListHit, SameEntry, Writers
  <2>2. CASE ListExpired(t, d)
    <3>1. PICK i \in 1 .. Len(list) : list' = Unlink(list, i) /\ entry' = Freed({list[i]})
      BY <2>2 DEF ListExpired
    <3>2. Listed' \subseteq Listed /\ InOrder(list', list)
      BY <3>1, UnlinkSet, UnlinkOrder DEF TypeOK, EntryOwnership, Inj, Listed
    <3>3. \A u \in Threads : pc[u] = "invalidating"
                                => pc'[u] = "invalidating" /\ dir'[u] = dir[u]
      BY <2>2 DEF ListExpired, StartList, CacheMutexFree
    <3>4. QED
      BY <2>2, <3>1, <3>2, <3>3, SerialFreed DEF ListExpired, Writers
  <2>3. CASE ListMiss(t, d)
    <3>1. \A u \in Threads : pc[u] = "invalidating"
                                => pc'[u] = "invalidating" /\ dir'[u] = dir[u]
      BY <2>3 DEF ListMiss, StartList, CacheMutexFree
    <3>2. QED
      BY <2>3, <3>1, SerialSame DEF ListMiss, SameEntry, Writers
  <2>4. QED
    BY <1>4, <2>1, <2>2, <2>3 DEF ListFiles
<1>5. ASSUME NEW t \in Threads, Fill(t) PROVE SerialInv'
  <2>a. /\ pc[t] \in {"missed", "writing"}
        /\ \A u \in Threads : pc[u] # "invalidating"
        /\ \A u \in Writers : u = t
    <3>1. pc[t] \in {"missed", "writing"}
      BY <1>5 DEF Fill, WriteBegin, BeginNoCache, BeginTrap, BeginReuse, BeginCreate,
                  BeginNoMemory, BeginTrapNoPath, EvictAndBegin, StartWrite, Filling,
                  WriteEntry, WriteEntryNoMemory, WriteEnd, WriteEndInvalid,
                  WriteEndTrap, Abandon, GiveUp
    <3>2. QED BY <1>a, <1>b, <3>1
  <2>b. \A e \in Live : ~entry[e].outdated
    BY <2>a DEF SerialInv, OutdatedGoing
  <2>1. CASE BeginNoCache(t)
    <3>1. \A u \in Writers' : u \in Writers /\ ctx'[u] = ctx[u]
      BY <2>1 DEF BeginNoCache, Writing, Writers, TypeOK
    <3>2. QED
      BY <2>1, <2>a, <3>1, SerialSame DEF BeginNoCache, SameEntry
  <2>2. CASE BeginTrap(t)
    BY <2>2, SerialSame DEF BeginTrap, SameEntry, Writers
  <2>3. CASE BeginReuse(t)
    <3>1. PICK i \in 1 .. Len(Kept) :
             /\ list' = Unlink(Kept, i)
             /\ entry' = [Freed(Evicted) EXCEPT ![Kept[i]] = Restarted(@)]
             /\ Writing(t, Kept[i])
      BY <2>3 DEF BeginReuse
    <3>2. PICK r \in Entries : r = Kept[i] /\ r \in ToSet(Kept)
      <4>1. Kept \in Seq(Entries)
        BY <2>3, KeptElements DEF BeginReuse, EvictAndBegin
      <4>2. QED
        BY <4>1, ElementOfSeq, LenProperties DEF ToSet
    <3>3. /\ t \notin Writers /\ Inj(Kept) /\ ToSet(Kept) = Listed \ Evicted
          /\ Evicted \subseteq Listed /\ Kept \in Seq(Entries) /\ InOrder(Unlink(Kept, i), list)
      BY <2>3, BeginOwned, KeptElements, KeptOrder DEF BeginReuse, EvictAndBegin
    <3>4. Listed' = (Listed \ Evicted) \ {r} /\ r \in Listed
      BY <3>1, <3>2, <3>3, UnlinkSet DEF Listed
    <3>5. /\ \A e \in Entries \ {r} : e \notin Evicted => entry'[e] = entry[e]
          /\ \A e \in Evicted \ {r} : entry'[e] = Unallocated
          /\ entry'[r] = Restarted(entry[r])
      <4>1. r \notin Evicted
        BY <3>2, <3>3
      <4>2. QED
        BY <3>1, <3>2, <3>3, <4>1, FreedCells, ListedCells
    <3>6. /\ entry'[r].path = entry[r].path /\ entry'[r].age = 0 /\ ~entry'[r].outdated
      BY <3>5, ChangedEntryTypes DEF TypeOK
    <3>7. Live' \subseteq Live
      BY <3>4, <3>5, <3>6, <1>c, EntryTypes DEF Live
    <3>8. Live' \cap Evicted = {}
      BY <3>2, <3>3, <3>5, EntryTypes DEF Live
    <3>9. \A e \in Live' : entry'[e].path = entry[e].path /\ ~entry'[e].outdated
      BY <2>b, <3>5, <3>6, <3>7, <3>8 DEF Live
    <3>10. OneListing' /\ OutdatedGoing'
      BY <3>7, <3>9 DEF SerialInv, OneListing, OutdatedGoing
    <3>11. Writers' = {t} /\ ctx'[t] = r
      BY <2>a, <3>1, <3>2, <3>3, NullAssumption DEF Writing, Writers, TypeOK
    <3>12. \A e \in Listed' : entry'[e].age = entry[e].age /\ entry[e].age \in Nat
      BY <3>4, <3>5, ListedCells, HorizonNat DEF TypeOK, EntryType
    <3>13. FilledNewest'
      BY <3>6, <3>11, <3>12 DEF FilledNewest
    <3>14. ListNewest'
      <4> SUFFICES ASSUME NEW j \in 1 .. Len(list'), NEW k \in 1 .. Len(list'), j < k
                   PROVE  entry'[list'[j]].age <= entry'[list'[k]].age
        BY DEF ListNewest
      <4>1. list'[j] \in Listed' /\ list'[k] \in Listed'
        BY LenProperties DEF TypeOK, Listed, ToSet
      <4>2. entry[list'[j]].age <= entry[list'[k]].age
        BY <3>1, <3>3, OrderByAge DEF SerialInv
      <4>3. QED
        BY <3>12, <4>1, <4>2
    <3>15. QED
      BY <3>10, <3>13, <3>14 DEF SerialInv
  <2>4. CASE BeginCreate(t)
    <3>1. PICK r \in Entries \ Live :
             /\ entry' = [Freed(Evicted) EXCEPT ![r] = NewEntry(dir[t])]
             /\ Writing(t, r)
      BY <2>4 DEF BeginCreate
    <3>2. /\ t \notin Writers /\ Listed' = Listed \ Evicted /\ ToSet(Kept) = Listed'
          /\ Evicted \subseteq Listed /\ InOrder(list', list) /\ Kept \in Seq(Entries)
      BY <2>4, BeginOwned, KeptOrder, KeptElements DEF BeginCreate, Listed, EvictAndBegin
    <3>3. dir[t] \in Dirs
      BY <2>4 DEF BeginCreate, EvictAndBegin, StartWrite, Requests
    <3>4. /\ \A e \in Entries \ {r} : e \notin Evicted => entry'[e] = entry[e]
          /\ \A e \in Evicted : entry'[e] = Unallocated
          /\ entry'[r] = NewEntry(dir[t])
      BY <3>1, <3>2, <1>c, FreedCells, ListedCells
    <3>5. entry'[r].path = dir[t] /\ entry'[r].age = 0 /\ ~entry'[r].outdated
      BY <3>3, <3>4, EntryTypes
    <3>6. Writers' = {t} /\ ctx'[t] = r
      BY <2>a, <3>1, <3>2, NullAssumption DEF Writing, Writers, TypeOK
    <3>7. Live' = Listed' \cup {r}
      BY <3>6 DEF EntryOwnership
    <3>8. \A e \in Listed' : SameEntry(e) /\ e \in Listed /\ e # r
      BY <3>1, <3>2, <3>4, <1>c, ListedCells DEF SameEntry
    <3>9. \A e \in Listed' : entry[e].path # dir[t]
      <4>1. DOMAIN Kept = 1 .. Len(Kept)
        BY <3>2, LenProperties
      <4>2. QED
        BY <2>4, <3>2, <3>3, <4>1, IsForPath DEF BeginCreate, NoneFor, ToSet
    <3>10. OneListing'
      BY <1>c, <3>5, <3>7, <3>8, <3>9 DEF SerialInv, OneListing, SameEntry
    <3>11. OutdatedGoing'
      BY <1>c, <2>b, <3>5, <3>7, <3>8 DEF OutdatedGoing, SameEntry
    <3>12. \A e \in Listed' : entry'[e].age = entry[e].age /\ entry[e].age \in Nat
      BY <3>8, ListedCells, HorizonNat DEF TypeOK, EntryType, SameEntry
    <3>13. FilledNewest'
      BY <3>5, <3>6, <3>12 DEF FilledNewest
    <3>14. ListNewest'
      <4> SUFFICES ASSUME NEW j \in 1 .. Len(list'), NEW k \in 1 .. Len(list'), j < k
                   PROVE  entry'[list'[j]].age <= entry'[list'[k]].age
        BY DEF ListNewest
      <4>1. list'[j] \in Listed' /\ list'[k] \in Listed'
        BY LenProperties DEF TypeOK, Listed, ToSet
      <4>2. entry[list'[j]].age <= entry[list'[k]].age
        BY <3>2, OrderByAge DEF SerialInv
      <4>3. QED
        BY <3>12, <4>1, <4>2
    <3>15. QED
      BY <3>10, <3>11, <3>13, <3>14 DEF SerialInv
  <2>5. CASE BeginNoMemory(t) \/ BeginTrapNoPath(t)
    <3>1. entry' = Freed(Evicted) /\ list' = Kept /\ EvictAndBegin(t)
      BY <2>5 DEF BeginNoMemory, BeginTrapNoPath
    <3>2. t \notin Writers /\ Listed' \subseteq Listed /\ InOrder(list', list)
      BY <3>1, BeginOwned, KeptOrder DEF Listed, EvictAndBegin
    <3>3. \A u \in Writers' : u \in Writers /\ ctx'[u] = ctx[u]
      BY <2>5 DEF BeginNoMemory, BeginTrapNoPath, Writing, Writers, TypeOK
    <3>4. QED
      BY <2>a, <3>1, <3>2, <3>3, SerialFreed
  <2>6. CASE \/ \E f \in Infos : WriteEntry(t, f)
             \/ WriteEntryNoMemory(t) \/ WriteEndTrap(t) \/ GiveUp(t)
    <3>1. \A e \in Entries : SameEntry(e)
      <4>1. CASE WriteEntryNoMemory(t) \/ WriteEndTrap(t) \/ GiveUp(t)
        BY <4>1 DEF WriteEntryNoMemory, WriteEndTrap, GiveUp, TypeOK, EntryType, SameEntry
      <4>2. CASE \E f \in Infos : WriteEntry(t, f)
        BY <4>2 DEF WriteEntry, TypeOK, EntryType, SameEntry
      <4>3. QED BY <2>6, <4>1, <4>2
    <3>2. list' = list /\ ctx' = ctx
      BY <2>6 DEF WriteEntry, WriteEntryNoMemory, WriteEndTrap, GiveUp
    <3>3. QED
      BY <2>a, <3>1, <3>2, SerialSame DEF Writers
  <2>7. CASE WriteEnd(t)
    <3>1. t \in Writers /\ ctx[t] \in Entries /\ ctx[t] \notin Listed
      BY <2>7 DEF WriteEnd, Filling, Writers, TypeOK, EntryOwnership
    <3>2. /\ list' = Cons(ctx[t], list) /\ entry' = entry
          /\ Writers' = {}
      BY <2>7, <2>a DEF WriteEnd, Return, Writers, TypeOK
    <3>3. OneListing' /\ OutdatedGoing' /\ FilledNewest'
      BY <2>b, <3>2 DEF SerialInv, OneListing, OutdatedGoing, FilledNewest, Live
    <3>4. /\ Len(list') = Len(list) + 1 /\ Len(list) \in Nat
          /\ \A j \in 1 .. Len(list) + 1 :
                list'[j] = IF j = 1 THEN ctx[t] ELSE list[j - 1]
      <4>1. list \in Seq(Entries) /\ Len(list) \in Nat
        BY ListedCells DEF TypeOK
      <4>2. /\ Len(Cons(ctx[t], list)) = Len(list) + 1
            /\ \A j \in 1 .. Len(list) + 1 :
                  Cons(ctx[t], list)[j] = IF j = 1 THEN ctx[t] ELSE list[j - 1]
        BY <3>1, <4>1, ConsAt
      <4>3. QED
        BY <3>2, <4>1, <4>2
    <3>5. ListNewest'
      <4> SUFFICES ASSUME NEW j \in 1 .. Len(list'), NEW k \in 1 .. Len(list'), j < k
                   PROVE  entry[list'[j]].age <= entry[list'[k]].age
        BY <3>2 DEF ListNewest
      <4>1. k - 1 \in 1 .. Len(list) /\ list'[k] = list[k - 1]
        BY <3>4
      <4>2. CASE j = 1
        BY <3>1, <3>4, <4>1, <4>2, ListedCells DEF SerialInv, FilledNewest
      <4>3. CASE j # 1
        <5>1. j - 1 \in 1 .. Len(list) /\ list'[j] = list[j - 1] /\ j - 1 < k - 1
          BY <3>4, <4>3
        <5>2. QED
          BY <4>1, <5>1 DEF SerialInv, ListNewest
      <4>4. QED BY <4>2, <4>3
    <3>6. QED
      BY <3>3, <3>5 DEF SerialInv
  <2>8. CASE WriteEndInvalid(t) \/ Abandon(t)
    <3>1. entry' = Freed({ctx[t]}) /\ list' = list
      BY <2>8 DEF WriteEndInvalid, Abandon
    <3>2. \A u \in Writers' : u \in Writers /\ ctx'[u] = ctx[u]
      BY <2>8 DEF WriteEndInvalid, Abandon, Return, Writers, TypeOK
    <3>3. Listed' \subseteq Listed /\ InOrder(list', list)
      BY <3>1 DEF Listed, InOrder
    <3>4. QED
      BY <2>a, <3>1, <3>2, <3>3, SerialFreed
  <2>9. QED
    BY <1>5, <2>1, <2>2, <2>3, <2>4, <2>5, <2>6, <2>7, <2>8 DEF Fill, WriteBegin
<1>6. ASSUME NEW t \in Threads, Invalidate(t) PROVE SerialInv'
  <2>1. ASSUME NEW d \in Dirs, InvalidateStart(t, d) PROVE SerialInv'
    <3>1. \A u \in Threads : pc[u] # "invalidating"
      BY <2>1 DEF InvalidateStart, CacheMutexFree
    <3>2. \A e \in Live : ~entry[e].outdated
      BY <3>1 DEF SerialInv, OutdatedGoing
    <3>3. \A e \in Entries : /\ entry'[e].path = entry[e].path
                             /\ entry'[e].age = entry[e].age
                             /\ entry'[e].outdated <=> (entry[e].outdated \/ entry[e].path = d)
      BY <2>1 DEF InvalidateStart, TypeOK, EntryType
    <3>4. Live' = Live /\ Listed' = Listed /\ Writers' = Writers
      BY <2>1, <3>3 DEF Live, Listed, Writers, InvalidateStart
    <3>5. list' = list /\ ctx' = ctx /\ pc'[t] = "invalidating" /\ dir'[t] = d
      BY <2>1 DEF InvalidateStart, TypeOK
    <3>6. OneListing'
      BY <3>3, <3>4 DEF SerialInv, OneListing, Live
    <3>7. FilledNewest' /\ ListNewest'
      BY <3>3, <3>4, <3>5, <1>c, ListedCells DEF SerialInv, FilledNewest, ListNewest, Live
    <3>8. OutdatedGoing'
      BY <3>2, <3>3, <3>4, <3>5 DEF OutdatedGoing, Live
    <3>9. QED BY <3>6, <3>7, <3>8 DEF SerialInv
  <2>2. CASE InvalidateStep(t)
    <3>1. PICK i \in 1 .. Len(list) : list' = Unlink(list, i) /\ entry' = Freed({list[i]})
      BY <2>2 DEF InvalidateStep
    <3>2. Listed' \subseteq Listed /\ InOrder(list', list)
      BY <3>1, UnlinkSet, UnlinkOrder DEF TypeOK, EntryOwnership, Inj, Listed
    <3>3. QED
      BY <2>2, <3>1, <3>2, SerialFreed DEF InvalidateStep, Writers
  <2>3. CASE InvalidateEnd(t)
    <3>1. /\ pc[t] = "invalidating" /\ NoneFor(list, dir[t])
          /\ list' = list /\ entry' = entry /\ Return(t)
      BY <2>3 DEF InvalidateEnd
    <3>2. Writers = {} /\ Writers' = {}
      BY <1>a, <1>b, <3>1 DEF Return, Writers, TypeOK
    <3>3. Live = Listed /\ Live' = Live
      BY <3>1, <3>2 DEF EntryOwnership, Live
    <3>4. \A e \in Listed : entry[e].path # dir[t]
      BY <3>1, NoneForPath DEF Requests
    <3>5. \A e \in Live : ~entry[e].outdated
      BY <1>a, <3>1, <3>3, <3>4 DEF SerialInv, OutdatedGoing
    <3>6. QED
      BY <3>1, <3>2, <3>3, <3>5
         DEF SerialInv, OneListing, FilledNewest, ListNewest, OutdatedGoing
  <2>4. QED
    BY <1>6, <2>1, <2>2, <2>3 DEF Invalidate
<1>7. ASSUME NEW t \in Threads, NEW d \in Dirs, NEW n \in Names, QueryHit(t, d, n)
      PROVE  SerialInv'
  BY <1>7, SerialSame DEF QueryHit, SameEntry, Writers
<1>8. CASE UNCHANGED vars
  BY <1>8, SerialSame DEF vars, SameEntry, Writers
<1>9. QED
  BY <1>1, <1>2, <1>3, <1>4, <1>5, <1>6, <1>7, <1>8 DEF Next, Step

LEMMA SerialInit == Init => SerialInv
<1> SUFFICES ASSUME Init PROVE SerialInv
  OBVIOUS
<1>1. Listed = {} /\ Live = {} /\ Writers = {} /\ Len(list) = 0
  BY EmptySeq DEF Init, Listed, ToSet, Live, Writers, Unallocated
<1>2. QED
  BY <1>1 DEF SerialInv, OneListing, FilledNewest, ListNewest, OutdatedGoing

\* What is served is fresh: the age by the test in the call that serves it, the
\* rest because no invalidation is under way.
LEMMA ServedFresh ==
    ASSUME TypeOK, Serialized => SerialInv, EntryOwnership, AnswersFresh, [Next]_vars
    PROVE  AnswersFresh'
<1>a. ASSUME Serialized, CacheMutexFree PROVE \A e \in Listed : ~entry[e].outdated
  BY <1>a DEF SerialInv, OutdatedGoing, CacheMutexFree, EntryOwnership
<1>1. CASE answer' = NoAnswer
  BY <1>1 DEF NoAnswer, AnswersFresh
<1>2. ASSUME NEW t \in Threads, NEW d \in Dirs, ListHit(t, d) PROVE AnswersFresh'
  <2>1. PICK i \in 1 .. Len(list) :
           /\ ~Expired(list[i])
           /\ answer' = [by |-> "list", age |-> entry[list[i]].age,
                         outdated |-> entry[list[i]].outdated]
    BY <1>2 DEF ListHit
  <2>2. entry[list[i]].age < ulExpirationTime
    BY <2>1, ListedCells, BoundsAssumption, HorizonNat DEF Expired, TypeOK, EntryType
  <2>3. Serialized => ~entry[list[i]].outdated
    BY <1>2, <1>a, ListedCells DEF ListHit, StartList
  <2>4. QED
    BY <2>1, <2>2, <2>3 DEF AnswersFresh
<1>3. ASSUME NEW t \in Threads, NEW d \in Dirs, NEW n \in Names, QueryHit(t, d, n)
      PROVE  AnswersFresh'
  <2>1. PICK i \in 1 .. Len(list) :
           /\ entry[list[i]].age <= QueryAge
           /\ answer' = [by |-> "query", age |-> entry[list[i]].age,
                         outdated |-> entry[list[i]].outdated]
    BY <1>3 DEF QueryHit
  <2>2. Serialized => ~entry[list[i]].outdated
    BY <1>3, <1>a, ListedCells DEF QueryHit, StartList
  <2>3. QED
    BY <2>1, <2>2 DEF AnswersFresh
<1>4. ASSUME NEW t \in Threads, Fill(t) PROVE answer' = NoAnswer
  BY <1>4 DEF Fill, WriteBegin, BeginNoCache, BeginTrap, BeginReuse, BeginCreate,
              BeginNoMemory, BeginTrapNoPath, Writing, WriteEntry, WriteEntryNoMemory,
              WriteEnd, WriteEndInvalid, WriteEndTrap, Abandon, GiveUp, Return
<1>5. CASE UNCHANGED vars
  BY <1>5 DEF vars, AnswersFresh
<1>6. QED
  BY <1>1, <1>2, <1>3, <1>4, <1>5
     DEF Next, Step, Create, Delete, Tick, ListFiles, ListExpired, ListMiss, Missed,
         Invalidate, InvalidateStart, InvalidateStep, InvalidateEnd, Return

\* A null context or a null cache is the work of a failed allocation.
NullsExplained ==
    ~MayFail => pdc # "null" /\ \A t \in Threads : pc[t] = "writing" => ctx[t] # NULL

LEMMA NullsNext ==
    ASSUME TypeOK, NullsExplained, [Next]_vars
    PROVE  NullsExplained'
<1> SUFFICES ASSUME ~MayFail PROVE NullsExplained'
  BY DEF NullsExplained
<1>1. CASE UNCHANGED <<pdc, pc, ctx>>
  BY <1>1 DEF NullsExplained
<1>2. CASE Create \/ Delete \/ Tick
  BY <1>2 DEF Create, Delete, Tick, NullsExplained
<1>3. ASSUME NEW t \in Threads, NEW d \in Dirs, ListFiles(t, d) PROVE NullsExplained'
  BY <1>3 DEF ListFiles, ListHit, ListExpired, ListMiss, Missed, TypeOK, NullsExplained
<1>4. ASSUME NEW t \in Threads, Fill(t) PROVE NullsExplained'
  <2>1. CASE BeginNoCache(t) \/ BeginTrap(t) \/ BeginNoMemory(t) \/ BeginTrapNoPath(t)
    BY <2>1 DEF BeginNoCache, BeginTrap, BeginNoMemory, BeginTrapNoPath, NullsExplained
  <2>2. CASE BeginReuse(t)
    <3>1. PICK i \in 1 .. Len(Kept) : Writing(t, Kept[i])
      BY <2>2 DEF BeginReuse
    <3>2. Kept[i] \in Entries
      BY <2>2, KeptElements, ElementOfSeq DEF BeginReuse, EvictAndBegin
    <3>3. QED
      BY <2>2, <3>1, <3>2, NullAssumption DEF BeginReuse, Writing, TypeOK, NullsExplained
  <2>3. CASE BeginCreate(t)
    BY <2>3, NullAssumption DEF BeginCreate, Writing, TypeOK, NullsExplained
  <2>4. CASE ~WriteBegin(t)
    BY <1>4, <2>4
       DEF Fill, WriteEntry, WriteEntryNoMemory, WriteEnd, WriteEndInvalid,
           WriteEndTrap, Abandon, GiveUp, Return, TypeOK, NullsExplained
  <2>5. QED
    BY <2>1, <2>2, <2>3, <2>4 DEF WriteBegin
<1>5. ASSUME NEW t \in Threads, Invalidate(t) PROVE NullsExplained'
  BY <1>5 DEF Invalidate, InvalidateStart, InvalidateStep, InvalidateEnd, Return,
              TypeOK, NullsExplained
<1>6. QED
  BY <1>1, <1>2, <1>3, <1>4, <1>5 DEF Next, Step, QueryHit, vars

LEMMA TrapsNext ==
    ASSUME TypeOK, NullsExplained, TrapsExplained, [Next]_vars
    PROVE  TrapsExplained'
<1>1. ASSUME NEW t \in Threads, BeginTrap(t) PROVE TrapsExplained'
  <2>1. Len(list) = 0 /\ cMaxEntries \in Nat
    BY <1>1, EmptySeq DEF BeginTrap, TypeOK
  <2>2. QED
    BY <1>1, <2>1 DEF BeginTrap, Full, TrapsExplained
<1>2. ASSUME NEW t \in Threads, BeginTrapNoPath(t) \/ WriteEndTrap(t) PROVE MayFail
  BY <1>2 DEF BeginTrapNoPath, WriteEndTrap, NullsExplained
<1>3. ASSUME NEW t \in Threads, Fill(t) PROVE TrapsExplained'
  <2>1. CASE trapped' = trapped
    BY <1>3, <2>1
       DEF Fill, WriteBegin, BeginNoCache, BeginTrap, BeginReuse, BeginCreate,
           BeginNoMemory, BeginTrapNoPath, WriteEntry, WriteEntryNoMemory, WriteEnd,
           WriteEndInvalid, WriteEndTrap, Abandon, GiveUp, TrapsExplained
  <2>2. CASE trapped' # trapped
    BY <1>1, <1>2, <1>3, <2>2
       DEF Fill, WriteBegin, BeginNoCache, BeginReuse, BeginCreate, BeginNoMemory,
           WriteEntry, WriteEntryNoMemory, WriteEnd, WriteEndInvalid, Abandon, GiveUp,
           TrapsExplained
  <2>3. QED BY <2>1, <2>2
<1>4. CASE UNCHANGED <<pdc, cMaxEntries, trapped>>
  BY <1>4 DEF TrapsExplained
<1>5. CASE Create \/ Delete
  BY <1>5 DEF Create, Delete, Running, TrapsExplained
<1>6. QED
  BY <1>3, <1>4, <1>5
     DEF Next, Step, Tick, ListFiles, ListHit, ListExpired, ListMiss, Missed, QueryHit,
         Invalidate, InvalidateStart, InvalidateStep, InvalidateEnd, vars

-------------------------------------------------------------------------------
(* The capacity.                                                           *)

Capacity == /\ IF pdc = "none" THEN cMaxEntries = 0 ELSE cMaxEntries \in CacheListings
            /\ CapacityBound

LEMMA WritersFinite ==
    ASSUME TypeOK
    PROVE  /\ IsFiniteSet(Writers) /\ Cardinality(Writers) \in Nat
           /\ Cardinality(Threads) \in Nat /\ Cardinality(Threads) >= 1
           /\ MaxWriters \in Nat /\ MaxWriters >= 1
<1>1. Writers \subseteq Threads
  BY DEF Writers
<1>2. IsFiniteSet(Writers)
  BY <1>1, FS_Subset, ThreadsAssumption
<1>3. Cardinality(Writers) \in Nat /\ Cardinality(Threads) \in Nat
  BY <1>2, FS_CardinalityType, ThreadsAssumption
<1>4. Cardinality(Threads) # 0
  BY FS_EmptySet, ThreadsAssumption
<1>5. QED
  BY <1>2, <1>3, <1>4 DEF MaxWriters

\* A further thread fits as long as the requests of the others do.
LEMMA OneMoreWriter ==
    ASSUME TypeOK, Requests, EntryOwnership, NEW t \in Threads,
           t \notin Writers, pc[t] # "idle"
    PROVE  /\ Cardinality(Writers \cup {t}) = Cardinality(Writers) + 1
           /\ Cardinality(Writers) + 1 <= MaxWriters
<1>1. Cardinality(Writers \cup {t}) = Cardinality(Writers) + 1
  BY WritersFinite, FS_AddElement
<1>2. CASE Serialized
  <2>1. Writers = {}
    BY <1>2 DEF Requests, EntryOwnership, Writers
  <2>2. QED
    BY <1>1, <1>2, <2>1, FS_EmptySet DEF MaxWriters
<1>3. CASE ~Serialized
  <2>1. Writers \cup {t} \subseteq Threads
    BY DEF Writers
  <2>2. Cardinality(Writers \cup {t}) <= Cardinality(Threads)
    BY <2>1, FS_Subset, ThreadsAssumption
  <2>3. QED
    BY <1>1, <1>3, <2>2 DEF MaxWriters
<1>4. QED BY <1>1, <1>2, <1>3

LEMMA FewerWriters ==
    ASSUME TypeOK, Writers' \subseteq Writers, Len(list') <= Len(list),
           list' \in Seq(Entries), cMaxEntries' = cMaxEntries, CapacityBound
    PROVE  CapacityBound'
<1>1. Cardinality(Writers') \in Nat /\ Cardinality(Writers') <= Cardinality(Writers)
  BY WritersFinite, FS_Subset, FS_CardinalityType
<1>2. Len(list) \in Nat /\ Len(list') \in Nat /\ MaxWriters' = MaxWriters
  BY LenProperties DEF TypeOK, MaxWriters
<1>3. QED
  BY <1>1, <1>2, WritersFinite DEF CapacityBound, TypeOK

LEMMA CapacityNext ==
    ASSUME TypeOK, TypeOK', Requests, EntryOwnership, Capacity, [Next]_vars
    PROVE  Capacity'
<1>a. Len(list) \in Nat /\ list' \in Seq(Entries) /\ cMaxEntries \in Nat
  BY ListedCells DEF TypeOK
<1>1. CASE Create
  <2>1. Len(list') = Len(list) /\ Writers' = Writers /\ MaxWriters' = MaxWriters
    BY <1>1 DEF Create, Writers, MaxWriters
  <2>2. cMaxEntries = 0 /\ cMaxEntries' \in Nat /\ cMaxEntries' \in CacheListings
    BY <1>1, BoundsAssumption DEF Create, Capacity
  <2>3. pdc' # "none"
    BY <1>1 DEF Create
  <2>4. QED
    BY <1>a, <2>1, <2>2, <2>3, WritersFinite DEF Capacity, CapacityBound
<1>2. CASE Delete
  <2>1. Writers' = {}
    BY <1>2 DEF Delete, AllIdle, EntryOwnership, Writers
  <2>2. Len(list') = 0 /\ cMaxEntries' = 0 /\ pdc' = "none" /\ MaxWriters' = MaxWriters
    BY <1>2, EmptySeq DEF Delete, MaxWriters
  <2>3. QED
    BY <2>1, <2>2, FS_EmptySet, WritersFinite DEF Capacity, CapacityBound
<1>3. ASSUME NEW t \in Threads, BeginReuse(t) \/ BeginCreate(t) PROVE Capacity'
  <2>1. EvictAndBegin(t) /\ t \notin Writers /\ pc[t] # "idle" /\ cMaxEntries' = cMaxEntries
        /\ pdc' = pdc
    BY <1>3, BeginOwned DEF BeginReuse, BeginCreate, EvictAndBegin, StartWrite
  <2>2. /\ Len(Kept) = IF Full THEN Len(list) - 1 ELSE Len(list)
        /\ Kept \in Seq(Entries) /\ Len(Kept) \in Nat
    <3>1. Kept \in Seq(Entries) /\ Len(Kept) = IF Full THEN Len(list) - 1 ELSE Len(list)
      BY <2>1, KeptElements DEF EvictAndBegin
    <3>2. QED
      BY <3>1, LenProperties
  <2>3. Len(list') <= Len(Kept)
    <3>1. CASE BeginReuse(t)
      <4>1. PICK i \in 1 .. Len(Kept) : list' = Unlink(Kept, i)
        BY <3>1 DEF BeginReuse
      <4>2. Len(list') = Len(Kept) - 1
        BY <2>2, <4>1, UnlinkElements
      <4>3. QED BY <2>2, <4>2
    <3>2. CASE BeginCreate(t)
      BY <2>2, <3>2 DEF BeginCreate
    <3>3. QED BY <1>3, <3>1, <3>2
  <2>4. Writers' \subseteq Writers \cup {t}
    BY <1>3 DEF BeginReuse, BeginCreate, Writing, Writers, TypeOK
  <2>5. /\ Cardinality(Writers \cup {t}) = Cardinality(Writers) + 1
        /\ Cardinality(Writers) + 1 <= MaxWriters
    BY <2>1, OneMoreWriter
  <2>6. Cardinality(Writers') <= Cardinality(Writers) + 1 /\ Cardinality(Writers') \in Nat
    <3>1. IsFiniteSet(Writers \cup {t})
      BY WritersFinite, FS_AddElement
    <3>2. IsFiniteSet(Writers') /\ Cardinality(Writers') <= Cardinality(Writers \cup {t})
      BY <2>4, <3>1, FS_Subset
    <3>3. QED BY <2>5, <3>2, FS_CardinalityType
  <2>7. Len(Kept) <= cMaxEntries - 1 \/ Len(Kept) = Len(list) - 1
    BY <1>a, <2>2 DEF Full
  <2>8. Len(list') \in Nat /\ MaxWriters' = MaxWriters
    BY <1>a, LenProperties DEF MaxWriters
  <2>9. CapacityBound'
    <3>1. Len(list') + Cardinality(Writers') <= Len(Kept) + (Cardinality(Writers) + 1)
      BY <2>2, <2>3, <2>6, <2>8, WritersFinite
    <3>2. Len(Kept) + (Cardinality(Writers) + 1) <= cMaxEntries - 1 + MaxWriters
      <4>1. CASE Len(Kept) <= cMaxEntries - 1
        BY <1>a, <2>2, <2>5, <4>1, WritersFinite
      <4>2. CASE Len(Kept) = Len(list) - 1
        BY <1>a, <2>2, <4>2, WritersFinite DEF Capacity, CapacityBound
      <4>3. QED BY <2>7, <4>1, <4>2
    <3>3. QED
      BY <1>a, <2>1, <2>2, <2>6, <2>8, <3>1, <3>2, WritersFinite DEF CapacityBound
  <2>10. QED
    BY <2>1, <2>9 DEF Capacity
<1>4. ASSUME NEW t \in Threads, WriteEnd(t) PROVE Capacity'
  <2>1. t \in Writers /\ ctx[t] \in Entries /\ Writers' = Writers \ {t}
    BY <1>4 DEF WriteEnd, Filling, Return, Writers, TypeOK
  <2>2. Cardinality(Writers') = Cardinality(Writers) - 1
    BY <2>1, WritersFinite, FS_RemoveElement
  <2>3. Len(list') = Len(list) + 1
    <3>1. list' = Cons(ctx[t], list) /\ list \in Seq(Entries)
      BY <1>4 DEF WriteEnd, TypeOK
    <3>2. QED BY <2>1, <3>1, ConsAt
  <2>4. cMaxEntries' = cMaxEntries /\ pdc' = pdc /\ MaxWriters' = MaxWriters
    BY <1>4 DEF WriteEnd, MaxWriters
  <2>5. QED
    BY <1>a, <2>2, <2>3, <2>4, WritersFinite DEF Capacity, CapacityBound
<1>5. CASE /\ Writers' \subseteq Writers /\ Len(list') <= Len(list)
           /\ cMaxEntries' = cMaxEntries /\ pdc' = pdc
  BY <1>5, <1>a, FewerWriters DEF Capacity
<1>6. Len(list) <= Len(list)
  BY <1>a
<1>7. ASSUME NEW i \in 1 .. Len(list) PROVE Len(Unlink(list, i)) <= Len(list)
  <2>1. Len(Unlink(list, i)) = Len(list) - 1
    BY UnlinkElements DEF TypeOK
  <2>2. QED BY <1>a, <2>1
<1>8. CASE UNCHANGED vars \/ Tick
  BY <1>5, <1>6, <1>8 DEF vars, Tick, Writers
<1>9. ASSUME NEW t \in Threads, NEW d \in Dirs, ListFiles(t, d) PROVE Capacity'
  <2>1. Writers' \subseteq Writers /\ cMaxEntries' = cMaxEntries /\ pdc' = pdc
    BY <1>9 DEF ListFiles, ListHit, ListExpired, ListMiss, Writers
  <2>2. Len(list') <= Len(list)
    BY <1>6, <1>7, <1>9 DEF ListFiles, ListHit, ListExpired, ListMiss
  <2>3. QED BY <1>5, <2>1, <2>2
<1>10. ASSUME NEW t \in Threads, Fill(t), ~BeginReuse(t), ~BeginCreate(t), ~WriteEnd(t)
       PROVE  Capacity'
  <2>1. cMaxEntries' = cMaxEntries /\ pdc' = pdc /\ Writers' \subseteq Writers
    BY <1>10
       DEF Fill, WriteBegin, BeginNoCache, BeginTrap, BeginNoMemory, BeginTrapNoPath,
           Writing, WriteEntry, WriteEntryNoMemory, WriteEndInvalid, WriteEndTrap,
           Abandon, GiveUp, Return, Writers, TypeOK
  <2>2. Len(list') <= Len(list)
    <3>1. CASE BeginNoMemory(t) \/ BeginTrapNoPath(t)
      <4>1. list' = Kept /\ Len(Kept) = IF Full THEN Len(list) - 1 ELSE Len(list)
        BY <3>1, KeptElements DEF BeginNoMemory, BeginTrapNoPath, EvictAndBegin
      <4>2. QED BY <1>a, <4>1
    <3>2. CASE ~(BeginNoMemory(t) \/ BeginTrapNoPath(t))
      BY <1>6, <1>10, <3>2
         DEF Fill, WriteBegin, BeginNoCache, BeginTrap, WriteEntry, WriteEntryNoMemory,
             WriteEndInvalid, WriteEndTrap, Abandon, GiveUp
    <3>3. QED BY <3>1, <3>2
  <2>3. QED BY <1>5, <2>1, <2>2
<1>11. ASSUME NEW t \in Threads, Invalidate(t) PROVE Capacity'
  <2>1. cMaxEntries' = cMaxEntries /\ pdc' = pdc /\ Writers' \subseteq Writers
    BY <1>11 DEF Invalidate, InvalidateStart, InvalidateStep, InvalidateEnd, Return,
                 Writers, TypeOK
  <2>2. Len(list') <= Len(list)
    BY <1>6, <1>7, <1>11 DEF Invalidate, InvalidateStart, InvalidateStep, InvalidateEnd
  <2>3. QED BY <1>5, <2>1, <2>2
<1>12. ASSUME NEW t \in Threads, NEW d \in Dirs, NEW n \in Names, QueryHit(t, d, n)
       PROVE  Capacity'
  BY <1>5, <1>6, <1>12 DEF QueryHit, Writers
<1>13. QED
  BY <1>1, <1>2, <1>3, <1>4, <1>8, <1>9, <1>10, <1>11, <1>12 DEF Next, Step

-------------------------------------------------------------------------------
(* The inductive invariant.                                                *)

CacheInv == /\ TypeOK
            /\ Requests
            /\ EntryOwnership
            /\ Capacity
            /\ NullsExplained
            /\ TrapsExplained
            /\ Serialized => SerialInv
            /\ AnswersFresh

LEMMA CacheInit == Init => CacheInv
<1> SUFFICES ASSUME Init PROVE CacheInv
  OBVIOUS
<1>1. TypeOK /\ Requests /\ EntryOwnership /\ SerialInv
  BY TypeInit, RequestsInit, OwnershipInit, SerialInit
<1>2. Capacity
  <2>1. Writers = {} /\ Len(list) = 0 /\ cMaxEntries = 0 /\ pdc = "none"
    BY EmptySeq DEF Init, Writers
  <2>2. QED
    BY <1>1, <2>1, WritersFinite, FS_EmptySet DEF Capacity, CapacityBound
<1>3. NullsExplained /\ TrapsExplained /\ AnswersFresh
  BY DEF Init, NullsExplained, TrapsExplained, AnswersFresh, NoAnswer
<1>4. QED BY <1>1, <1>2, <1>3 DEF CacheInv

LEMMA CacheNext == CacheInv /\ [Next]_vars => CacheInv'
<1> SUFFICES ASSUME CacheInv, [Next]_vars PROVE CacheInv'
  OBVIOUS
<1>1. TypeOK' /\ Requests' /\ EntryOwnership'
  BY TypeNext, RequestsNext, OwnershipNext DEF CacheInv
<1>2. Capacity'
  BY <1>1, CapacityNext DEF CacheInv
<1>3. NullsExplained' /\ TrapsExplained'
  BY NullsNext, TrapsNext DEF CacheInv
<1>4. Serialized => SerialInv'
  BY <1>1, SerialNext DEF CacheInv
<1>5. AnswersFresh'
  BY ServedFresh DEF CacheInv
<1>6. QED BY <1>1, <1>2, <1>3, <1>4, <1>5 DEF CacheInv

LEMMA CacheHolds == Spec => []CacheInv
BY CacheInit, CacheNext, PTL DEF Spec

\* dircache_write_begin evicts before it inserts: "cache listings" bounds the
\* list and the listings under way together.
THEOREM CapacityKept == Spec => []CapacityBound
<1>1. CacheInv => CapacityBound
  BY DEF CacheInv, Capacity
<1>2. QED BY <1>1, CacheHolds, PTL

\* dcCreateDirPath, dircache_write_end: where the cache can take the process down.
THEOREM TrapsAccounted == Spec => []TrapsExplained
<1>1. CacheInv => TrapsExplained
  BY DEF CacheInv
<1>2. QED BY <1>1, CacheHolds, PTL

\* dcFindDirCache and dcFindPath: one listing per directory.
THEOREM PathsUnique == Spec => []UniquePaths
<1>1. CacheInv => UniquePaths
  BY DEF CacheInv, UniquePaths, SerialInv, OneListing, EntryOwnership
<1>2. QED BY <1>1, CacheHolds, PTL

\* dircache_write_begin: the tail is the oldest listing.
THEOREM TailIsOldest == Spec => []NewestFirst
<1>1. CacheInv => NewestFirst
  BY DEF CacheInv, NewestFirst, SerialInv, ListNewest
<1>2. QED BY <1>1, CacheHolds, PTL

\* dircache_list_files and NdpQueryPathInfo: nothing stale is served.
THEOREM FreshAnswers == Spec => []AnswersFresh
<1>1. CacheInv => AnswersFresh
  BY DEF CacheInv
<1>2. QED BY <1>1, CacheHolds, PTL

-------------------------------------------------------------------------------
(* What a step may not do.                                                 *)

\* Only dcInvalidate's own last turn ends an invalidation.
LEMMA InvalidationEnds ==
    ASSUME TypeOK, [Next]_vars, NEW t \in Threads, pc[t] = "invalidating",
           pc'[t] = "idle"
    PROVE  InvalidateEnd(t)
<1>1. ASSUME NEW u \in Threads, Fill(u) PROVE pc[u] \in {"missed", "writing"}
  BY <1>1 DEF Fill, WriteBegin, BeginNoCache, BeginTrap, BeginReuse, BeginCreate,
              BeginNoMemory, BeginTrapNoPath, EvictAndBegin, StartWrite, Filling,
              WriteEntry, WriteEntryNoMemory, WriteEnd, WriteEndInvalid,
              WriteEndTrap, Abandon, GiveUp
<1>2. ASSUME NEW u \in Threads, Fill(u) PROVE \E s : pc' = [pc EXCEPT ![u] = s]
  <2>1. pc' = pc => pc' = [pc EXCEPT ![u] = pc[u]]
    BY DEF TypeOK
  <2>2. QED
    BY <1>2, <2>1
       DEF Fill, WriteBegin, BeginNoCache, BeginTrap, BeginReuse, BeginCreate,
           BeginNoMemory, BeginTrapNoPath, Writing, WriteEntry, WriteEntryNoMemory,
           WriteEnd, WriteEndInvalid, WriteEndTrap, Abandon, GiveUp, Return
<1>3. ASSUME NEW u \in Threads, Fill(u) PROVE pc'[t] = pc[t]
  BY <1>1, <1>2, <1>3 DEF TypeOK
<1>4. ASSUME NEW u \in Threads, NEW d \in Dirs, ListFiles(u, d) PROVE pc'[t] = pc[t]
  BY <1>4 DEF ListFiles, ListHit, ListExpired, ListMiss, StartList, Missed, TypeOK
<1>5. ASSUME NEW u \in Threads, Invalidate(u) PROVE InvalidateEnd(t)
  BY <1>5 DEF Invalidate, InvalidateStart, InvalidateStep, InvalidateEnd, Return, TypeOK
<1>6. QED
  BY <1>3, <1>4, <1>5 DEF Next, Step, Create, Delete, Tick, QueryHit, vars

\* dircache_invalidate: nothing of the directory is left when it returns.
THEOREM InvalidationComplete == Spec => InvalidateRemovesAll
<1>1. ASSUME CacheInv, [Next]_vars
      PROVE  [\A t \in Threads : pc[t] = "invalidating" /\ pc'[t] = "idle"
                             => \A e \in Listed : entry[e].path # dir[t]]_vars
  <2>1. ASSUME NEW t \in Threads, pc[t] = "invalidating", pc'[t] = "idle"
        PROVE  \A e \in Listed : entry[e].path # dir[t]
    <3>1. TypeOK /\ InvalidateEnd(t)
      BY <1>1, <2>1, InvalidationEnds DEF CacheInv
    <3>2. QED
      BY <1>1, <2>1, <3>1, NoneForPath DEF InvalidateEnd, CacheInv, Requests
  <2>2. QED BY <2>1
<1>2. QED BY <1>1, CacheHolds, PTL DEF Spec, InvalidateRemovesAll

\* A cell that is freed leaves the list.
LEMMA FreedUntouched ==
    ASSUME TypeOK, EntryOwnership', NEW S, entry' = Freed(S), NEW e \in Listed,
           e \in Listed'
    PROVE  entry'[e] = entry[e]
<1>1. e \in Live' /\ e \in Entries
  BY DEF EntryOwnership, Live
<1>2. QED BY <1>1, FreedCells, EntryTypes DEF Live

\* What a reader of a listed entry sees.
Immutable(e) == /\ entry'[e].path = entry[e].path
                /\ entry'[e].infos = entry[e].infos
                /\ entry'[e].age >= entry[e].age

LEMMA ImmutableNext ==
    ASSUME CacheInv, CacheInv', [Next]_vars, NEW e \in Listed, e \in Listed'
    PROVE  Immutable(e)
<1>a. TypeOK /\ EntryOwnership /\ EntryOwnership' /\ TypeOK'
  BY DEF CacheInv
<1>b. e \in Entries /\ entry[e] \in EntryType /\ entry[e].age \in Nat
  BY <1>a, ListedCells, HorizonNat DEF TypeOK, EntryType
<1>1. CASE entry'[e] = entry[e]
  BY <1>b, <1>1 DEF Immutable
<1>2. ASSUME NEW S, entry' = Freed(S) PROVE Immutable(e)
  BY <1>a, <1>1, <1>2, FreedUntouched
<1>3. CASE Create \/ Delete
  BY <1>1, <1>2, <1>3 DEF Create, Delete
<1>4. CASE Tick
  <2>1. entry'[e] = entry[e] \/ entry'[e] = Older(entry[e])
    BY <1>4, <1>b DEF Tick
  <2>2. CASE entry'[e] = Older(entry[e])
    BY <1>b, <2>2, ChangedEntryTypes DEF Immutable
  <2>3. QED BY <1>1, <2>1, <2>2
<1>5. ASSUME NEW t \in Threads, NEW d \in Dirs, ListFiles(t, d) PROVE Immutable(e)
  BY <1>1, <1>2, <1>5 DEF ListFiles, ListHit, ListExpired, ListMiss
<1>6. ASSUME NEW t \in Threads, Fill(t) PROVE Immutable(e)
  <2>1. CASE BeginReuse(t)
    <3>1. PICK i \in 1 .. Len(Kept) :
             /\ list' = Unlink(Kept, i)
             /\ entry' = [Freed(Evicted) EXCEPT ![Kept[i]] = Restarted(@)]
      BY <2>1 DEF BeginReuse
    <3>2. /\ Inj(Kept) /\ ToSet(Kept) = Listed \ Evicted /\ Kept \in Seq(Entries)
      BY <1>a, <2>1, BeginOwned, KeptElements DEF BeginReuse, EvictAndBegin
    <3>3. Listed' = (Listed \ Evicted) \ {Kept[i]}
      BY <3>1, <3>2, UnlinkSet DEF Listed
    <3>4. entry'[e] = entry[e]
      BY <1>a, <1>b, <3>1, <3>3, FreedCells
    <3>5. QED BY <1>1, <3>4
  <2>2. CASE BeginCreate(t)
    <3>1. PICK r \in Entries \ Live :
             entry' = [Freed(Evicted) EXCEPT ![r] = NewEntry(dir[t])]
      BY <2>2 DEF BeginCreate
    <3>2. Listed' = Listed \ Evicted /\ e # r
      BY <1>a, <2>2, <3>1, BeginOwned DEF BeginCreate, Listed, EntryOwnership
    <3>3. entry'[e] = entry[e]
      BY <1>a, <1>b, <3>1, <3>2, FreedCells
    <3>4. QED BY <1>1, <3>3
  <2>3. CASE \E f \in Infos : WriteEntry(t, f)
    <3>1. ctx[t] # e
      BY <1>a, <2>3 DEF WriteEntry, Filling, EntryOwnership, Writers
    <3>2. QED
      BY <1>1, <1>a, <1>b, <2>3, <3>1 DEF WriteEntry, TypeOK
  <2>4. CASE WriteEntryNoMemory(t)
    <3>1. ctx[t] # e
      BY <1>a, <2>4 DEF WriteEntryNoMemory, Filling, EntryOwnership, Writers
    <3>2. QED
      BY <1>1, <1>a, <1>b, <2>4, <3>1 DEF WriteEntryNoMemory, TypeOK
  <2>5. CASE entry' = entry \/ \E S : entry' = Freed(S)
    BY <1>1, <1>2, <2>5
  <2>6. QED
    BY <1>6, <2>1, <2>2, <2>3, <2>4, <2>5
       DEF Fill, WriteBegin, BeginNoCache, BeginTrap, BeginNoMemory, BeginTrapNoPath,
           WriteEnd, WriteEndInvalid, WriteEndTrap, Abandon, GiveUp
<1>7. ASSUME NEW t \in Threads, Invalidate(t) PROVE Immutable(e)
  <2>1. CASE \E d \in Dirs : InvalidateStart(t, d)
    <3>1. /\ entry'[e].path = entry[e].path
          /\ entry'[e].infos = entry[e].infos
          /\ entry'[e].age = entry[e].age
      BY <1>b, <2>1 DEF InvalidateStart, EntryType
    <3>2. QED BY <1>b, <3>1 DEF Immutable
  <2>2. CASE InvalidateStep(t) \/ InvalidateEnd(t)
    BY <1>1, <1>2, <2>2 DEF InvalidateStep, InvalidateEnd
  <2>3. QED BY <1>7, <2>1, <2>2 DEF Invalidate
<1>8. QED
  BY <1>1, <1>3, <1>4, <1>5, <1>6, <1>7 DEF Next, Step, QueryHit, vars

\* dircache_list_files hands out entries without a copy: what is on the list
\* does not change.
THEOREM ListedStays == Spec => ListedImmutable
<1>1. ASSUME CacheInv, CacheInv', [Next]_vars
      PROVE  [\A e \in Listed \cap Listed' :
                 /\ entry'[e].path = entry[e].path
                 /\ entry'[e].infos = entry[e].infos
                 /\ entry'[e].age >= entry[e].age]_vars
  BY <1>1, ImmutableNext DEF Immutable
<1>2. QED BY <1>1, CacheHolds, PTL DEF Spec, ListedImmutable

-------------------------------------------------------------------------------
(* The cache as its users see it.                                          *)

AbstractCached == [d \in Dirs |-> Visible(d)]

VisibleIsListed ==
    \A d \in Dirs :
       /\ \A e \in Listed : entry[e].path = d => Visible(d) = entry[e].infos
       /\ (\A e \in Listed : entry[e].path # d) => Visible(d) = NULL

\* What dcFindDirCache finds when a directory has one listing at most.
LEMMA VisibleListing == TypeOK /\ EntryOwnership /\ OneListing => VisibleIsListed
<1> SUFFICES ASSUME TypeOK, EntryOwnership, OneListing, NEW d \in Dirs
             PROVE  /\ \A e \in Listed : entry[e].path = d => Visible(d) = entry[e].infos
                    /\ (\A e \in Listed : entry[e].path # d) => Visible(d) = NULL
  BY DEF VisibleIsListed
<1> DEFINE found == {i \in 1 .. Len(list) : FirstFor(list, d, i)}
<1>1. ASSUME NEW e \in Listed, entry[e].path = d PROVE Visible(d) = entry[e].infos
  <2>1. PICK k \in 1 .. Len(list) : list[k] = e
    BY ListedCells DEF Listed, ToSet
  <2>2. \A i \in 1 .. Len(list) : entry[list[i]].path = d => i = k
    BY <1>1, <2>1, ListedCells DEF OneListing, EntryOwnership
  <2>3. \A j \in 1 .. k - 1 : j \in 1 .. Len(list) /\ j # k
    BY <2>1, ListedCells
  <2>4. FirstFor(list, d, k)
    BY <1>1, <2>1, <2>2, <2>3, IsForPath DEF FirstFor
  <2>5. \A i \in 1 .. Len(list) : FirstFor(list, d, i) => i = k
    BY <2>2, IsForPath DEF FirstFor
  <2>6. found = {k}
    BY <2>4, <2>5
  <2>7. (CHOOSE i \in found : TRUE) = k
    BY <2>6
  <2>8. QED
    BY <2>1, <2>6, <2>7 DEF Visible
<1>2. ASSUME \A e \in Listed : entry[e].path # d PROVE Visible(d) = NULL
  <2>1. found = {}
    BY <1>2, ListedCells, IsForPath DEF FirstFor
  <2>2. QED BY <2>1 DEF Visible
<1>3. QED BY <1>1, <1>2

\* Whatever happens to the list, if nothing is inserted, hides listings.
LEMMA ForgetStep ==
    ASSUME CacheInv, CacheInv', Serialized, Listed' \subseteq Listed, [Next]_vars
    PROVE  \E D \in SUBSET Dirs : Abstract!Forget(D)
<1> DEFINE D == {d \in Dirs : \A e \in Listed' : entry'[e].path # d}
<1>1. TypeOK /\ EntryOwnership /\ OneListing
  BY DEF CacheInv, SerialInv
<1>2. TypeOK' /\ EntryOwnership' /\ OneListing'
  BY DEF CacheInv, SerialInv
<1>3. VisibleIsListed /\ VisibleIsListed'
  BY <1>1, <1>2, VisibleListing, PTL
<1>4. \A d \in D : Visible(d)' = NULL
  BY <1>3 DEF VisibleIsListed
<1>5. ASSUME NEW d \in Dirs \ D PROVE Visible(d)' = Visible(d)
  <2>1. PICK e \in Listed' : entry'[e].path = d
    OBVIOUS
  <2>2. Visible(d)' = entry'[e].infos
    BY <1>3, <2>1 DEF VisibleIsListed
  <2>3. entry[e].path = d /\ entry[e].infos = entry'[e].infos
    BY <2>1, ImmutableNext DEF Immutable
  <2>4. Visible(d) = entry[e].infos
    BY <1>3, <2>1, <2>3 DEF VisibleIsListed
  <2>5. QED BY <2>2, <2>3, <2>4
<1> HIDE DEF D
<1>6. [d \in Dirs |-> Visible(d)]'
         = [d \in Dirs |-> IF d \in D THEN NULL ELSE [c \in Dirs |-> Visible(c)][d]]
  BY <1>4, <1>5
<1>7. D \in SUBSET Dirs
  BY DEF D
<1>8. QED
  BY <1>6, <1>7 DEF Abstract!Forget

LEMMA OnlyWriteEndInserts ==
    ASSUME CacheInv, [Next]_vars, \A t \in Threads : ~WriteEnd(t)
    PROVE  Listed' \subseteq Listed
<1>a. TypeOK /\ EntryOwnership /\ Inj(list)
  BY DEF CacheInv, EntryOwnership, Inj
<1>1. CASE list' = list
  BY <1>1 DEF Listed
<1>2. ASSUME NEW i \in 1 .. Len(list), list' = Unlink(list, i)
      PROVE  Listed' \subseteq Listed
  BY <1>a, <1>2, UnlinkSet DEF Listed, TypeOK
<1>3. CASE Delete
  BY <1>3, EmptySeq DEF Delete, Listed, ToSet
<1>4. ASSUME NEW t \in Threads, NEW d \in Dirs, ListFiles(t, d)
      PROVE  Listed' \subseteq Listed
  BY <1>1, <1>2, <1>4 DEF ListFiles, ListHit, ListExpired, ListMiss
<1>5. ASSUME NEW t \in Threads, Fill(t) PROVE Listed' \subseteq Listed
  <2>1. CASE BeginReuse(t)
    <3>1. PICK i \in 1 .. Len(Kept) : list' = Unlink(Kept, i)
      BY <2>1 DEF BeginReuse
    <3>2. Inj(Kept) /\ ToSet(Kept) = Listed \ Evicted /\ Kept \in Seq(Entries)
      BY <1>a, <2>1, BeginOwned, KeptElements DEF BeginReuse, EvictAndBegin
    <3>3. QED
      BY <3>1, <3>2, UnlinkSet DEF Listed
  <2>2. CASE BeginCreate(t) \/ BeginNoMemory(t) \/ BeginTrapNoPath(t)
    BY <1>a, <2>2, BeginOwned DEF BeginCreate, BeginNoMemory, BeginTrapNoPath, Listed
  <2>3. CASE list' = list
    BY <1>1, <2>3
  <2>4. QED
    BY <1>5, <2>1, <2>2, <2>3
       DEF Fill, WriteBegin, BeginNoCache, BeginTrap, WriteEntry, WriteEntryNoMemory,
           WriteEndInvalid, WriteEndTrap, Abandon, GiveUp
<1>6. ASSUME NEW t \in Threads, Invalidate(t) PROVE Listed' \subseteq Listed
  BY <1>1, <1>2, <1>6 DEF Invalidate, InvalidateStart, InvalidateStep, InvalidateEnd
<1>7. QED
  BY <1>1, <1>3, <1>4, <1>5, <1>6 DEF Next, Step, Create, Tick, QueryHit, vars

\* ListingCache counts as this module does.
LEMMA SameCount == \A S : Abstract!Cardinality(S) = Cardinality(S)
BY DEF Abstract!Cardinality, Cardinality, Abstract!IsFiniteSet, IsFiniteSet

\* No more directories have a listing than the list has entries.
LEMMA ListingsCounted ==
    ASSUME CacheInv, Serialized
    PROVE  /\ IsFiniteSet(Abstract!Cached) /\ Cardinality(Abstract!Cached) \in Nat
           /\ Cardinality(Abstract!Cached) <= Len(list)
<1> DEFINE path == [i \in 1 .. Len(list) |-> entry[list[i]].path]
           P == {path[i] : i \in 1 .. Len(list)}
<1>1. TypeOK /\ EntryOwnership /\ OneListing
  BY DEF CacheInv, SerialInv
<1>2. Len(list) \in Nat
  BY <1>1, ListedCells
<1>3. IsFiniteSet(1 .. Len(list)) /\ Cardinality(1 .. Len(list)) = Len(list)
  BY <1>2, FS_Interval, SMTT(30)
<1>4. path \in Surjection(1 .. Len(list), P)
  BY DEF Surjection
<1>5. Abstract!Cached \subseteq P
  <2> SUFFICES ASSUME NEW d \in Dirs, [c \in Dirs |-> Visible(c)][d] # NULL
               PROVE  d \in P
    BY DEF Abstract!Cached
  <2>1. PICK e \in Listed : entry[e].path = d
    BY <1>1, VisibleListing DEF VisibleIsListed
  <2>2. PICK i \in 1 .. Len(list) : list[i] = e
    BY <1>1, ListedCells DEF Listed, ToSet
  <2>3. QED
    BY <2>1, <2>2
<1> HIDE DEF path, P
<1>6. IsFiniteSet(P) /\ Cardinality(P) <= Len(list)
  BY <1>3, <1>4, FS_Surjection
<1>7. /\ IsFiniteSet(Abstract!Cached)
      /\ Cardinality(Abstract!Cached) <= Cardinality(P)
  BY <1>5, <1>6, FS_Subset
<1>8. Cardinality(Abstract!Cached) \in Nat /\ Cardinality(P) \in Nat
  BY <1>6, <1>7, FS_CardinalityType
<1>9. QED
  BY <1>2, <1>6, <1>7, <1>8

\* The values of "cache listings" have an upper end.
HasLargest == \E m \in CacheListings : \A n \in CacheListings : n <= m

LEMMA InsertStep ==
    ASSUME CacheInv, CacheInv', Serialized, HasLargest, NEW t \in Threads, WriteEnd(t)
    PROVE  \E d \in Dirs, l \in SUBSET Infos : Abstract!Insert(d, l)
<1> DEFINE e == ctx[t]
           Largest == CHOOSE m \in CacheListings : \A n \in CacheListings : n <= m
<1>1. TypeOK /\ EntryOwnership /\ OneListing /\ CapacityBound
  BY DEF CacheInv, SerialInv, Capacity
<1>2. TypeOK' /\ EntryOwnership' /\ OneListing'
  BY DEF CacheInv, SerialInv
<1>3. /\ e \in Entries /\ e \in Live /\ e \notin Listed /\ t \in Writers
      /\ entry' = entry /\ list' = Cons(e, list)
  BY <1>1 DEF WriteEnd, Filling, Writers, TypeOK, EntryOwnership
<1>4. Listed' = Listed \cup {e}
  BY <1>1, <1>3, ConsSet DEF TypeOK, Listed, EntryOwnership, Inj
<1>5. PICK d \in Dirs : d = entry[e].path
  BY <1>1, <1>3 DEF Live, TypeOK, EntryType
<1>6. PICK l \in SUBSET Infos : l = entry[e].infos
  BY <1>1, <1>3 DEF TypeOK, EntryType
<1> HIDE DEF e
<1>7. Listed \subseteq Live
  BY <1>1 DEF EntryOwnership
<1>8. \A x \in Listed : entry[x].path # d
  BY <1>1, <1>3, <1>5, <1>7 DEF OneListing
<1>9. VisibleIsListed /\ VisibleIsListed'
  BY <1>1, <1>2, VisibleListing, PTL
<1>10. Visible(d) = NULL
  BY <1>8, <1>9 DEF VisibleIsListed
<1>11. Visible(d)' = l
  BY <1>3, <1>4, <1>5, <1>6, <1>9 DEF VisibleIsListed
<1>12. ASSUME NEW c \in Dirs, c # d PROVE Visible(c)' = Visible(c)
  <2>1. CASE \A x \in Listed : entry[x].path # c
    <3>1. \A x \in Listed' : entry'[x].path # c
      BY <1>3, <1>4, <1>5, <1>12, <2>1
    <3>2. QED
      BY <1>9, <2>1, <3>1 DEF VisibleIsListed
  <2>2. CASE \E x \in Listed : entry[x].path = c
    BY <1>3, <1>4, <1>9, <2>2 DEF VisibleIsListed
  <2>3. QED BY <2>1, <2>2
<1>13. [c \in Dirs |-> Visible(c)]' = [[c \in Dirs |-> Visible(c)] EXCEPT ![d] = l]
  BY <1>11, <1>12
<1>14. Cardinality(Abstract!Cached) < Largest
  <2>1. Len(list) \in Nat /\ cMaxEntries \in Nat
    BY <1>1, ListedCells DEF TypeOK
  <2>2. Cardinality(Writers) >= 1
    <3>1. Cardinality(Writers) # 0
      BY <1>1, <1>3, WritersFinite, FS_EmptySet
    <3>2. QED BY <1>1, <3>1, WritersFinite
  <2>3. Len(list) + 1 <= cMaxEntries
    BY <1>1, <2>1, <2>2, WritersFinite DEF CapacityBound, MaxWriters
  <2>4. cMaxEntries \in CacheListings
    BY <2>1, <2>3 DEF CacheInv, Capacity
  <2>5. Largest \in CacheListings /\ \A n \in CacheListings : n <= Largest
    BY DEF HasLargest
  <2> HIDE DEF Largest
  <2>6. cMaxEntries <= Largest /\ Largest \in Nat
    BY <2>4, <2>5, BoundsAssumption
  <2>7. QED
    BY <2>1, <2>3, <2>6, ListingsCounted
<1>15. Abstract!Insert(d, l)
  BY <1>10, <1>13, <1>14, SameCount DEF Abstract!Insert
<1>16. QED BY <1>15

LEMMA ImplementsInit == Init => Abstract!CacheInit
<1> SUFFICES ASSUME Init PROVE Abstract!CacheInit
  OBVIOUS
<1>1. CacheInv
  BY CacheInit
<1>2. Listed = {} /\ Live = {}
  BY EmptySeq DEF Init, Listed, ToSet, Live, Unallocated
<1>3. VisibleIsListed
  BY <1>1, <1>2, VisibleListing DEF CacheInv, OneListing
<1>4. \A d \in Dirs : Visible(d) = NULL
  BY <1>2, <1>3 DEF VisibleIsListed
<1>5. QED
  BY <1>4 DEF Abstract!CacheInit

LEMMA ImplementsNext ==
    ASSUME CacheInv, CacheInv', [Next]_vars, Serialized, HasLargest
    PROVE  Abstract!CacheNext
<1>1. CASE \E t \in Threads : WriteEnd(t)
  BY <1>1, InsertStep DEF Abstract!CacheNext
<1>2. CASE \A t \in Threads : ~WriteEnd(t)
  BY <1>2, OnlyWriteEndInserts, ForgetStep DEF Abstract!CacheNext
<1>3. QED BY <1>1, <1>2

\* dircache.c as a whole: a map from directories to complete listings, that
\* grows by one listing at a time up to "cache listings" and otherwise forgets.
THEOREM ImplementsMap ==
    ASSUME Serialized, HasLargest
    PROVE  Spec => ImplementsListingCache
<1>1. Init => Abstract!CacheInit
  BY ImplementsInit
<1>2. CacheInv /\ CacheInv' /\ [Next]_vars
         => [Abstract!CacheNext]_[d \in Dirs |-> Visible(d)]
  BY ImplementsNext
<1>3. QED
  BY <1>1, <1>2, CacheHolds, PTL DEF Spec, ImplementsListingCache, Abstract!CacheSpec

===============================================================================
