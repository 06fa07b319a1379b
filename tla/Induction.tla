------------------------------- MODULE Induction -------------------------------
(***************************************************************************)
(* Induction over the natural numbers, in the form that the proofs about   *)
(* recursive functions need: the induction hypothesis is membership in a   *)
(* set.  From it, what flattening a sequence of sequences does, and which  *)
(* elements the selections and sums of the model have.                     *)
(***************************************************************************)
EXTENDS Integers, SequencesExt, SequenceTheorems, WellFoundedInduction, TLAPS

-------------------------------------------------------------------------------
(* Natural numbers.                                                        *)

LEMMA Least ==
    ASSUME NEW T, T \subseteq Nat, T # {}
    PROVE  \E x \in T : \A y \in T : ~(y < x)
<1> DEFINE R == OpToRel(<, Nat)
<1>1. IsWellFoundedOn(R, Nat)
  BY NatLessThanWellFounded
<1>2. \A x, y \in Nat : x < y => <<x, y>> \in R
  BY DEF OpToRel
<1> HIDE DEF R
<1>3. \E x \in T : \A y \in T : ~(<<y, x>> \in R)
  BY <1>1, WFMin
<1>4. QED BY <1>2, <1>3

LEMMA SetInduction ==
    ASSUME NEW T, 0 \in T, \A n \in Nat : n \in T => n + 1 \in T
    PROVE  \A n \in Nat : n \in T
<1> DEFINE B == {n \in Nat : n \notin T}
<1>1. SUFFICES ASSUME B # {} PROVE FALSE
  OBVIOUS
<1>2. B \subseteq Nat
  OBVIOUS
<1>3. PICK x \in B : \A y \in B : ~(y < x)
  <2> HIDE DEF B
  <2>1. QED BY <1>1, <1>2, Least
<1>4. x \in Nat /\ x # 0 /\ x - 1 \in Nat /\ x - 1 < x
  OBVIOUS
<1>5. x - 1 \in T
  BY <1>3, <1>4
<1>6. (x - 1) + 1 = x
  BY <1>4
<1>7. QED BY <1>3, <1>4, <1>5, <1>6

\* A bounded set of numbers has a greatest element.
LEMMA Greatest ==
    ASSUME NEW n \in Nat, NEW S, S \subseteq 1 .. n, S # {}
    PROVE  Max(S) \in S /\ \A y \in S : Max(S) >= y
<1> DEFINE T == {n - x : x \in S}
<1>1. T \subseteq Nat /\ T # {}
  <2>1. \A x \in S : n - x \in Nat
    OBVIOUS
  <2>2. QED BY <2>1
<1>2. PICK z \in T : \A y \in T : ~(y < z)
  <2> HIDE DEF T
  <2>1. QED BY <1>1, Least
<1>3. PICK x \in S : z = n - x
  BY <1>2
<1>4. \A y \in S : x >= y
  <2> SUFFICES ASSUME NEW y \in S PROVE x >= y
    OBVIOUS
  <2>1. n - y \in T /\ x \in Int /\ y \in Int
    OBVIOUS
  <2>2. ~(n - y < n - x)
    BY <2>1, <1>2, <1>3
  <2>3. QED BY <2>1, <2>2
<1>5. QED BY <1>4 DEF Max

-------------------------------------------------------------------------------
(* FlattenSeq.                                                             *)

\* The recursive function that FlattenSeq defines.
IsFlat(g, seqs) ==
    g = [i \in 1 .. Len(seqs) |-> IF i = 1 THEN seqs[i] ELSE g[i - 1] \o seqs[i]]

LEMMA FlatAt ==
    ASSUME NEW seqs, NEW g, IsFlat(g, seqs), NEW i \in 1 .. Len(seqs)
    PROVE  g[i] = IF i = 1 THEN seqs[i] ELSE g[i - 1] \o seqs[i]
  BY Zenon DEF IsFlat

LEMMA FlatUnique ==
    ASSUME NEW S, NEW seqs \in Seq(Seq(S)), NEW g, NEW h, IsFlat(g, seqs), IsFlat(h, seqs)
    PROVE  g = h
<1> DEFINE T == {n \in Nat : n \in 1 .. Len(seqs) => g[n] = h[n]}
<1>1. 0 \in T
  OBVIOUS
<1>2. ASSUME NEW n \in Nat, n \in T PROVE n + 1 \in T
  <2>1. SUFFICES ASSUME n + 1 \in 1 .. Len(seqs) PROVE g[n + 1] = h[n + 1]
    OBVIOUS
  <2>2. CASE n = 0
    BY <2>1, <2>2, FlatAt
  <2>3. CASE n # 0
    <3>1. n \in 1 .. Len(seqs) /\ (n + 1) - 1 = n /\ n + 1 # 1
      BY <2>1, <2>3
    <3>2. g[n] = h[n]
      BY <1>2, <3>1
    <3>3. g[n + 1] = g[(n + 1) - 1] \o seqs[n + 1] /\ h[n + 1] = h[(n + 1) - 1] \o seqs[n + 1]
      BY <2>1, <3>1, FlatAt, Zenon
    <3>4. QED BY <3>1, <3>2, <3>3
  <2>4. QED BY <2>2, <2>3
<1> HIDE DEF T
<1>3. \A n \in Nat : n \in T
  BY <1>1, <1>2, SetInduction
<1> USE DEF T
<1>4. \A n \in 1 .. Len(seqs) : g[n] = h[n]
  BY <1>3
<1>5. QED BY <1>4 DEF IsFlat

LEMMA FlatExists ==
    ASSUME NEW S, NEW seqs \in Seq(Seq(S))
    PROVE  \E g \in [1 .. Len(seqs) -> Seq(S)] : IsFlat(g, seqs)
<1> DEFINE Step(g, i) == IF i = 1 THEN seqs[i] ELSE g[i - 1] \o seqs[i]
           T == {n \in Nat : n <= Len(seqs) =>
                    \E g \in [1 .. n -> Seq(S)] : \A i \in 1 .. n : g[i] = Step(g, i)}
<1>1. 0 \in T
  <2>1. [i \in 1 .. 0 |-> <<>>] \in [1 .. 0 -> Seq(S)]
    OBVIOUS
  <2>2. \A i \in 1 .. 0 : FALSE
    OBVIOUS
  <2> HIDE DEF Step
  <2>3. \E g \in [1 .. 0 -> Seq(S)] : \A i \in 1 .. 0 : g[i] = Step(g, i)
    BY <2>1, <2>2, Zenon
  <2>4. QED BY <2>3
<1>2. ASSUME NEW n \in Nat, n \in T PROVE n + 1 \in T
  <2>1. SUFFICES ASSUME n + 1 <= Len(seqs)
                 PROVE  \E g \in [1 .. n + 1 -> Seq(S)] : \A i \in 1 .. n + 1 : g[i] = Step(g, i)
    <3>1. n + 1 \in Nat
      OBVIOUS
    <3> HIDE DEF Step
    <3>2. QED BY <3>1, Zenon
  <2>2. PICK f \in [1 .. n -> Seq(S)] : \A i \in 1 .. n : f[i] = Step(f, i)
    <3>1. n <= Len(seqs)
      BY <2>1
    <3> HIDE DEF Step
    <3>2. QED BY <1>2, <3>1, Zenon
  <2>3. seqs[n + 1] \in Seq(S)
    BY <2>1
  <2>4. Step(f, n + 1) \in Seq(S)
    <3>1. CASE n = 0
      BY <2>3, <3>1
    <3>2. CASE n # 0
      <4>1. f[n] \in Seq(S) /\ (n + 1) - 1 = n /\ n + 1 # 1
        BY <3>2
      <4>2. f[n] \o seqs[n + 1] \in Seq(S)
        BY <4>1, <2>3, ConcatProperties
      <4>3. QED BY <4>1, <4>2
    <3>3. QED BY <3>1, <3>2
  <2> DEFINE g == [i \in 1 .. n + 1 |-> IF i = n + 1 THEN Step(f, n + 1) ELSE f[i]]
  <2>5. g \in [1 .. n + 1 -> Seq(S)]
    <3> HIDE DEF Step
    <3>1. QED BY <2>2, <2>4
  <2>6. ASSUME NEW i \in 1 .. n + 1 PROVE g[i] = Step(g, i)
    <3>1. i = 1 \/ (i - 1 \in 1 .. n /\ g[i - 1] = f[i - 1])
      OBVIOUS
    <3>2. Step(g, i) = Step(f, i)
      BY <3>1
    <3> HIDE DEF Step
    <3>3. QED BY <2>2, <3>2
  <2> HIDE DEF g, Step
  <2>7. QED BY <2>5, <2>6
<1>3. \A n \in Nat : n \in T
  <2> HIDE DEF T
  <2>1. QED BY <1>1, <1>2, SetInduction
<1>4. PICK g \in [1 .. Len(seqs) -> Seq(S)] : \A i \in 1 .. Len(seqs) : g[i] = Step(g, i)
  <2>1. Len(seqs) \in Nat /\ Len(seqs) <= Len(seqs)
    OBVIOUS
  <2> HIDE DEF Step
  <2>2. QED BY <1>3, <2>1, Zenon
<1>5. g = [i \in 1 .. Len(seqs) |-> Step(g, i)]
  <2> HIDE DEF Step
  <2>1. QED BY <1>4
<1>6. QED BY <1>5, Zenon DEF IsFlat

LEMMA Flattened ==
    ASSUME NEW S, NEW seqs \in Seq(Seq(S)), seqs # <<>>, NEW g, IsFlat(g, seqs)
    PROVE  FlattenSeq(seqs) = g[Len(seqs)] /\ FlattenSeq(seqs) \in Seq(S)
<1>1. Len(seqs) \in Nat /\ Len(seqs) # 0
  OBVIOUS
<1> DEFINE h == CHOOSE h : IsFlat(h, seqs)
<1>2. IsFlat(h, seqs)
  OBVIOUS
<1>3. FlattenSeq(seqs) = h[Len(seqs)]
  BY <1>1 DEF FlattenSeq, IsFlat
<1> HIDE DEF h
<1>4. h = g
  BY <1>2, FlatUnique
<1>5. PICK f \in [1 .. Len(seqs) -> Seq(S)] : IsFlat(f, seqs)
  BY FlatExists
<1>6. f = g
  BY <1>5, FlatUnique
<1>7. g[Len(seqs)] \in Seq(S)
  <2>1. Len(seqs) \in 1 .. Len(seqs)
    BY <1>1
  <2>2. f[Len(seqs)] \in Seq(S)
    BY <1>5, <2>1, Zenon
  <2>3. QED BY <1>6, <2>2, Zenon
<1>8. QED BY <1>3, <1>4, <1>7

LEMMA FlattenEmpty == FlattenSeq(<<>>) = <<>>
  BY DEF FlattenSeq

LEMMA FlattenIsSeq ==
    ASSUME NEW S, NEW seqs \in Seq(Seq(S))
    PROVE  FlattenSeq(seqs) \in Seq(S)
<1>1. CASE seqs = <<>>
  <2>1. FlattenSeq(seqs) = <<>>
    BY <1>1, FlattenEmpty
  <2>2. QED BY <2>1
<1>2. CASE seqs # <<>>
  BY <1>2, FlatExists, Flattened
<1>3. QED BY <1>1, <1>2

LEMMA FlattenAppend ==
    ASSUME NEW S, NEW seqs \in Seq(Seq(S)), NEW e \in Seq(S)
    PROVE  FlattenSeq(Append(seqs, e)) = FlattenSeq(seqs) \o e
<1> DEFINE n == Len(seqs)
           longer == Append(seqs, e)
<1>1. /\ longer \in Seq(Seq(S)) /\ longer # <<>> /\ Len(longer) = n + 1 /\ n \in Nat
      /\ longer[n + 1] = e /\ \A i \in 1 .. n : longer[i] = seqs[i]
  BY AppendProperties
<1>2. seqs = <<>> <=> n = 0
  OBVIOUS
<1> HIDE DEF n, longer
<1>3. PICK g \in [1 .. Len(longer) -> Seq(S)] : IsFlat(g, longer)
  BY <1>1, FlatExists
<1>4. FlattenSeq(longer) = g[n + 1]
  BY <1>1, <1>3, Flattened
<1>5. CASE n = 0
  <2>1. g[n + 1] = e
    <3>1. n + 1 = 1 /\ 1 \in 1 .. Len(longer)
      BY <1>1, <1>5
    <3>2. g[1] = longer[1]
      BY <1>3, <3>1, FlatAt, Zenon
    <3>3. QED BY <1>1, <3>1, <3>2
  <2>2. FlattenSeq(seqs) = <<>> /\ <<>> \o e = e
    BY <1>2, <1>5, FlattenEmpty, ConcatEmptySeq
  <2>3. QED BY <1>4, <2>1, <2>2 DEF longer
<1>6. CASE n # 0
  <2> DEFINE f == [i \in 1 .. n |-> g[i]]
  <2>1. ASSUME NEW i \in 1 .. n
        PROVE  f[i] = IF i = 1 THEN seqs[i] ELSE f[i - 1] \o seqs[i]
    <3>1. i \in 1 .. Len(longer) /\ longer[i] = seqs[i]
      BY <1>1
    <3>2. g[i] = IF i = 1 THEN longer[i] ELSE g[i - 1] \o longer[i]
      BY <1>3, <3>1, FlatAt, Zenon
    <3>3. i # 1 => f[i - 1] = g[i - 1]
      BY <1>1
    <3>4. f[i] = g[i]
      OBVIOUS
    <3> HIDE DEF f
    <3>5. QED BY <3>1, <3>2, <3>3, <3>4, Zenon
  <2>2. DOMAIN f = 1 .. n /\ f[n] = g[n]
    BY <1>1, <1>6
  <2>3. f = [i \in 1 .. n |-> f[i]]
    OBVIOUS
  <2> HIDE DEF f
  <2>4. [i \in 1 .. n |-> f[i]]
          = [i \in 1 .. n |-> IF i = 1 THEN seqs[i] ELSE f[i - 1] \o seqs[i]]
    BY <2>1, Zenon
  <2>5. IsFlat(f, seqs)
    BY <2>3, <2>4, Zenon DEF IsFlat, n
  <2>6. FlattenSeq(seqs) = g[n]
    BY <1>2, <1>6, <2>2, <2>5, Flattened DEF n
  <2>7. (n + 1) - 1 = n /\ n + 1 # 1 /\ n + 1 \in 1 .. Len(longer)
    BY <1>1, <1>6
  <2>8. g[n + 1] = g[(n + 1) - 1] \o longer[n + 1]
    BY <1>3, <2>7, FlatAt, Zenon
  <2>9. QED BY <1>1, <1>4, <2>6, <2>7, <2>8 DEF longer
<1>7. QED BY <1>5, <1>6

LEMMA FlattenConcat ==
    ASSUME NEW S, NEW s \in Seq(Seq(S)), NEW t \in Seq(Seq(S))
    PROVE  FlattenSeq(s \o t) = FlattenSeq(s) \o FlattenSeq(t)
<1> DEFINE Holds(u) == FlattenSeq(s \o u) = FlattenSeq(s) \o FlattenSeq(u)
           T == {n \in Nat : \A u \in Seq(Seq(S)) : Len(u) = n => Holds(u)}
<1>1. 0 \in T
  <2>1. ASSUME NEW u \in Seq(Seq(S)), Len(u) = 0 PROVE Holds(u)
    <3>1. u = <<>>
      BY <2>1
    <3>2. s \o u = s /\ FlattenSeq(s) \o <<>> = FlattenSeq(s)
      BY <3>1, ConcatEmptySeq, FlattenIsSeq
    <3>3. QED BY <3>1, <3>2, FlattenEmpty
  <2> HIDE DEF Holds
  <2>2. QED BY <2>1
<1>2. ASSUME NEW n \in Nat, n \in T PROVE n + 1 \in T
  <2>1. ASSUME NEW u \in Seq(Seq(S)), Len(u) = n + 1 PROVE Holds(u)
    <3>1. u # <<>>
      BY <2>1
    <3>2. PICK v \in Seq(Seq(S)), e \in Seq(S) : u = Append(v, e)
      BY <3>1, SequenceEmptyOrAppend
    <3>3. Len(v) = n
      BY <2>1, <3>2
    <3>4. FlattenSeq(s \o v) = FlattenSeq(s) \o FlattenSeq(v)
      BY <1>2, <3>3
    <3>5. s \o v \in Seq(Seq(S)) /\ s \o Append(v, e) = Append(s \o v, e)
      <4> DEFINE D == Seq(S)
      <4>0. s \in Seq(D) /\ v \in Seq(D) /\ e \in D
        OBVIOUS
      <4> HIDE DEF D
      <4>1. s \o v \in Seq(D) /\ Append(v, e) = v \o <<e>> /\ <<e>> \in Seq(D)
        <5>1. s \o v \in Seq(D)
          BY <4>0, ConcatProperties
        <5>2. Append(v, e) = v \o <<e>>
          BY <4>0, AppendIsConcat
        <5>3. QED BY <4>0, <5>1, <5>2
      <4>2. s \o (v \o <<e>>) = (s \o v) \o <<e>>
        BY <4>0, <4>1, ConcatAssociative
      <4>3. Append(s \o v, e) = (s \o v) \o <<e>>
        BY <4>0, <4>1, AppendIsConcat
      <4>4. QED BY <4>1, <4>2, <4>3 DEF D
    <3>6. FlattenSeq(s \o u) = (FlattenSeq(s) \o FlattenSeq(v)) \o e
      BY <3>2, <3>4, <3>5, FlattenAppend
    <3>7. FlattenSeq(u) = FlattenSeq(v) \o e
      BY <3>2, FlattenAppend
    <3>8. (FlattenSeq(s) \o FlattenSeq(v)) \o e = FlattenSeq(s) \o (FlattenSeq(v) \o e)
      <4>1. FlattenSeq(s) \in Seq(S) /\ FlattenSeq(v) \in Seq(S)
        BY FlattenIsSeq
      <4> DEFINE a == FlattenSeq(s)
                 b == FlattenSeq(v)
      <4> HIDE DEF a, b
      <4>2. a \in Seq(S) /\ b \in Seq(S) /\ e \in Seq(S)
        BY <4>1 DEF a, b
      <4>3. (a \o b) \o e = a \o (b \o e)
        BY <4>2, ConcatAssociative, SMTT(30)
      <4>4. QED BY <4>3 DEF a, b
    <3>9. QED BY <3>6, <3>7, <3>8
  <2>2. n + 1 \in Nat
    OBVIOUS
  <2> HIDE DEF Holds
  <2>3. QED BY <2>1, <2>2
<1>3. \A n \in Nat : n \in T
  <2> HIDE DEF T
  <2>1. QED BY <1>1, <1>2, SetInduction
<1>4. Len(t) \in Nat
  OBVIOUS
<1> HIDE DEF Holds
<1>5. Holds(t)
  BY <1>3, <1>4
<1>6. QED BY <1>5 DEF Holds

-------------------------------------------------------------------------------
(* Least elements, and functions defined by recursion on 0 .. n.           *)

LEMMA MinOfNats ==
    ASSUME NEW S, S \subseteq Nat, S # {}
    PROVE  Min(S) \in S /\ \A y \in S : Min(S) <= y
<1>1. PICK x \in S : \A y \in S : ~(y < x)
  BY Least
<1>2. \A y \in S : x <= y
  BY <1>1
<1>3. QED BY <1>2 DEF Min

LEMMA MinOfTwo == ASSUME NEW a \in Int, NEW b \in Int PROVE Min({a, b}) = IF a <= b THEN a ELSE b
<1> DEFINE m == IF a <= b THEN a ELSE b
<1>1. m \in {a, b} /\ \A y \in {a, b} : m <= y
  OBVIOUS
<1>2. \A x \in {a, b} : (\A y \in {a, b} : x <= y) => x = m
  OBVIOUS
<1>3. QED BY <1>1, <1>2 DEF Min

LEMMA MaxOfTwo == ASSUME NEW a \in Int, NEW b \in Int PROVE Max({a, b}) = IF a >= b THEN a ELSE b
<1> DEFINE m == IF a >= b THEN a ELSE b
<1>1. m \in {a, b} /\ \A y \in {a, b} : m >= y
  OBVIOUS
<1>2. \A x \in {a, b} : (\A y \in {a, b} : x >= y) => x = m
  OBVIOUS
<1>3. QED BY <1>1, <1>2 DEF Max

LEMMA TimesAtLeast ==
    ASSUME NEW g \in Nat \ {0}, NEW n \in Nat
    PROVE  g * n \in Nat /\ g * n >= n
<1>1. PICK h \in Nat : g = 1 + h
  <2>1. g - 1 \in Nat /\ g = 1 + (g - 1)
    OBVIOUS
  <2>2. QED BY <2>1
<1>2. h * n \in Nat
  OBVIOUS
<1>3. g * n = n + h * n
  BY <1>1
<1>4. QED BY <1>2, <1>3

\* Two functions that begin and go on alike are the same.
Alike(g, h, n) == g[0] = h[0] /\ \A i \in 1 .. n : g[i - 1] = h[i - 1] => g[i] = h[i]

LEMMA SameByInduction ==
    ASSUME NEW n \in Nat, NEW g, NEW h, Alike(g, h, n)
    PROVE  \A i \in 0 .. n : g[i] = h[i]
<1> DEFINE T == {i \in Nat : i <= n => g[i] = h[i]}
<1>1. 0 \in T
  BY DEF Alike
<1>2. ASSUME NEW i \in Nat, i \in T PROVE i + 1 \in T
  <2>1. ASSUME i + 1 <= n PROVE g[i + 1] = h[i + 1]
    <3>1. i + 1 \in 1 .. n /\ (i + 1) - 1 = i /\ i <= n
      BY <2>1
    <3>2. g[i] = h[i]
      BY <1>2, <3>1
    <3>3. g[(i + 1) - 1] = h[(i + 1) - 1]
      BY <3>1, <3>2
    <3>4. QED BY <3>1, <3>3, Zenon DEF Alike
  <2>2. QED BY <2>1
<1> HIDE DEF T
<1>3. \A i \in Nat : i \in T
  BY <1>1, <1>2, SetInduction
<1> USE DEF T
<1>4. QED BY <1>3

\* A step of a recursion on 1 .. n: from a number and what there is before it.
IsStep(step, n, D) == step \in [(1 .. n) \X D -> D]

\* The function that the recursion defines.
Follows(g, n, base, step) == g[0] = base /\ \A i \in 1 .. n : g[i] = step[<<i, g[i - 1]>>]

LEMMA RecursionExists ==
    ASSUME NEW n \in Nat, NEW D, NEW base \in D, NEW step, IsStep(step, n, D)
    PROVE  \E g \in [0 .. n -> D] : Follows(g, n, base, step)
<1> DEFINE Good(g, m) == g[0] = base /\ \A i \in 1 .. m : g[i] = step[<<i, g[i - 1]>>]
           T == {m \in Nat : m <= n => \E g \in [0 .. m -> D] : Good(g, m)}
<1>1. 0 \in T
  <2> DEFINE g == [i \in 0 .. 0 |-> base]
  <2>1. g \in [0 .. 0 -> D] /\ Good(g, 0)
    OBVIOUS
  <2> HIDE DEF g, Good
  <2>2. QED BY <2>1
<1>2. ASSUME NEW m \in Nat, m \in T PROVE m + 1 \in T
  <2>1. ASSUME m + 1 <= n PROVE \E g \in [0 .. m + 1 -> D] : Good(g, m + 1)
    <3>1. m <= n
      BY <2>1
    <3>2. PICK f \in [0 .. m -> D] : Good(f, m)
      <4> HIDE DEF Good
      <4>1. QED BY <1>2, <3>1, Zenon
    <3> DEFINE e == step[<<m + 1, f[m]>>]
               g == [i \in 0 .. m + 1 |-> IF i = m + 1 THEN e ELSE f[i]]
    <3>3. e \in D
      <4>1. m + 1 \in 1 .. n /\ f[m] \in D
        BY <2>1
      <4>2. QED BY <4>1 DEF IsStep
    <3> HIDE DEF e
    <3>4. g \in [0 .. m + 1 -> D]
      BY <3>3
    <3>5. g[0] = base
      BY <3>2
    <3>6. ASSUME NEW i \in 1 .. m + 1 PROVE g[i] = step[<<i, g[i - 1]>>]
      <4>1. g[i - 1] = f[i - 1]
        OBVIOUS
      <4>2. CASE i = m + 1
        <5>1. g[i] = e /\ i - 1 = m
          BY <4>2
        <5> HIDE DEF g
        <5>2. QED BY <4>1, <4>2, <5>1 DEF e
      <4>3. CASE i # m + 1
        <5>1. g[i] = f[i] /\ i \in 1 .. m
          BY <4>3
        <5>2. f[i] = step[<<i, f[i - 1]>>]
          BY <3>2, <5>1
        <5> HIDE DEF g
        <5>3. QED BY <4>1, <5>1, <5>2
      <4>4. QED BY <4>2, <4>3
    <3>7. Good(g, m + 1)
      <4> HIDE DEF g
      <4>1. QED BY <3>5, <3>6, Zenon
    <3> HIDE DEF g, Good
    <3>8. QED BY <3>4, <3>7, Zenon
  <2>2. m + 1 \in Nat
    OBVIOUS
  <2> HIDE DEF Good
  <2>3. QED BY <2>1, <2>2
<1>3. \A m \in Nat : m \in T
  <2> HIDE DEF T
  <2>1. QED BY <1>1, <1>2, SetInduction
<1>4. n <= n
  OBVIOUS
<1> HIDE DEF Good
<1>5. \E g \in [0 .. n -> D] : Good(g, n)
  BY <1>3, <1>4, Zenon
<1>6. QED BY <1>5, Zenon DEF Good, Follows

===============================================================================
