---------------------------- MODULE DirEntryProofs ----------------------------
(***************************************************************************)
(* The bounds of the listing buffer for directories of every size and      *)
(* every first allocation of at least 2.                                   *)
(***************************************************************************)
EXTENDS DirEntry, TLAPS

\* Why dceAdjust never shrinks a buffer to nothing: an SMB2 listing has at
\* least its first allocation, an SMB1 listing exactly what it will write.
Sized ==
    stage = "filling" =>
        /\ cInfos <= seen
        /\ toCome = Unknown => cInfosAllocated >= Smb2Size
        /\ toCome # Unknown => cInfosAllocated = cFiles /\ cFiles = seen + toCome

\* Types of all but the build.
Typed == /\ stage \in {"none", "filling", "listed"}
         /\ cInfos \in Nat /\ cInfosAllocated \in Nat
         /\ block \in Nat \cup {Dangling}
         /\ fInvalid \in BOOLEAN
         /\ cFiles \in Nat
         /\ toCome \in Nat \cup {Unknown}
         /\ seen \in 0 .. MaxFiles

InBounds == stage # "none" => block = cInfosAllocated /\ cInfos <= block

\* What holds of the build that serialises requests.
Inv == Typed /\ InBounds /\ CompleteOrInvalid /\ Sized

LEMMA HalfNat == \A n \in Nat : /\ n \div 2 \in Nat
                                /\ 2 * (n \div 2) <= n
                                /\ n <= 2 * (n \div 2) + 1
OBVIOUS

\* A finished listing that fits is never adjusted to nothing.
LEMMA NeverNothing ==
    ASSUME Inv, Finished, ~fInvalid, TooBig
    PROVE  Adjusted \in Nat /\ Adjusted >= cInfos /\ Adjusted # 0
<1>1. /\ cInfos \in Nat /\ cInfosAllocated \in Nat /\ cInfos = seen
      /\ cFree \in Nat /\ cInfos \div 2 \in Nat /\ cFree \div 2 \in Nat
      /\ cFree <= 2 * (cFree \div 2) + 1
  BY HalfNat DEF Inv, Typed, InBounds, CompleteOrInvalid, Finished, cFree
<1>2. cInfosAllocated >= 2 \/ cInfosAllocated = cInfos
  <2>1. CASE toCome = Unknown
    BY <1>1, <2>1, SizesAssumption DEF Inv, Sized, Finished
  <2>2. CASE toCome = 0
    BY <1>1, <2>2 DEF Inv, Sized, Finished, Unknown, Typed
  <2>3. QED
    BY <2>1, <2>2 DEF Finished
<1>3. QED
  BY <1>1, <1>2 DEF Adjusted, TooBig, cFree

LEMMA InvNext == serialized /\ Inv /\ [EntryNext]_entryVars => Inv'
<1> SUFFICES ASSUME serialized, Inv, [EntryNext]_entryVars PROVE Inv'
  OBVIOUS
<1> DEFINE Rest == InBounds /\ CompleteOrInvalid /\ Sized
<1> USE DEF Inv, Typed, InBounds, CompleteOrInvalid, Sized
<1>0. /\ 0 \in 0 .. MaxFiles /\ Unknown \notin Nat /\ Unknown + 1 = 0
      /\ Smb2Size \in Nat /\ Smb2Size >= 2
  BY SizesAssumption DEF Unknown
<1>1. CASE CreateSmb2
  <2>1. Typed'
    BY <1>0, <1>1 DEF CreateSmb2, Create
  <2>2. Rest'
    BY <1>0, <1>1 DEF CreateSmb2, Create
  <2>3. QED
    BY <2>1, <2>2 DEF Inv
<1>2. CASE CreateSmb1
  <2>1. PICK n \in 0 .. MaxFiles : Create(n, n)
    BY <1>2 DEF CreateSmb1
  <2>2. n \in Nat
    BY SizesAssumption
  <2>3. Typed'
    BY <1>0, <2>1, <2>2 DEF Create
  <2>4. Rest'
    BY <1>0, <2>1, <2>2 DEF Create
  <2>5. QED
    BY <2>3, <2>4 DEF Inv
<1>3. CASE WriteFits
  BY <1>3, SizesAssumption DEF WriteFits, NextFile, NeedsRoom, Unknown
<1>4. CASE GrowAndWrite
  <2>1. cInfosAllocated \div 2 \in Nat
    BY HalfNat
  <2>2. Grown(cInfosAllocated) \in Nat /\ Grown(cInfosAllocated) > cInfosAllocated
    BY <2>1 DEF Grown
  <2>3. CASE toCome = Unknown
    BY <1>4, <2>2, <2>3, SizesAssumption DEF GrowAndWrite, NextFile, NeedsRoom, Unknown
  <2>4. CASE toCome # Unknown
    <3>1. /\ stage = "filling" /\ toCome # 0 /\ toCome \in Nat
          /\ cInfosAllocated = cFiles /\ cFiles = seen + toCome
          /\ cInfos >= cInfosAllocated /\ cInfos <= seen /\ seen \in Nat
      BY <1>4, <2>4, SizesAssumption DEF GrowAndWrite, NextFile, NeedsRoom
    <3>2. QED
      BY <3>1
  <2>5. QED
    BY <2>3, <2>4
<1>5. CASE GrowFails
  BY <1>5, SizesAssumption DEF GrowFails, NextFile, NeedsRoom, Unknown
<1>6. CASE EndAsIs
  BY <1>6 DEF EndAsIs, Finished
<1>7. CASE EndAdjusted
  <2>1. Adjusted \in Nat /\ Adjusted >= cInfos
    BY <1>7, NeverNothing DEF EndAdjusted
  <2>2. QED
    BY <1>7, <2>1 DEF EndAdjusted, Finished
<1>8. CASE EndNotAdjusted
  <2>1. block' = block
    BY <1>8, NeverNothing DEF EndNotAdjusted
  <2>2. QED
    BY <1>8, <2>1 DEF EndNotAdjusted, Finished
<1>9. CASE EndInvalid \/ Delete
  <2>1. Blank
    BY <1>9 DEF EndInvalid, Delete
  <2>2. Typed'
    BY <1>0, <2>1 DEF Blank
  <2>3. Rest'
    BY <2>1 DEF Blank
  <2>4. QED
    BY <2>2, <2>3 DEF Inv
<1>10. CASE UNCHANGED entryVars
  BY <1>10 DEF entryVars
<1>11. ~Reuse
  BY DEF Reuse
<1>12. QED
  BY <1>11, <1>1, <1>2, <1>3, <1>4, <1>5, <1>6, <1>7, <1>8, <1>9, <1>10 DEF EntryNext

LEMMA InvInit == EntryInit => Inv
<1>1. 0 \in 0 .. MaxFiles
  BY SizesAssumption
<1>2. EntryInit => Typed
  <2>0. EntryInit => stage \in {"none", "filling", "listed"} /\ fInvalid \in BOOLEAN
    BY DEF EntryInit
  <2>1. EntryInit => cInfos \in Nat /\ cInfosAllocated \in Nat /\ cFiles \in Nat
    BY DEF EntryInit
  <2>2. EntryInit => /\ block \in Nat \cup {Dangling} /\ toCome \in Nat \cup {Unknown}
                /\ seen \in 0 .. MaxFiles
    BY <1>1 DEF EntryInit
  <2>3. QED
    BY <2>0, <2>1, <2>2 DEF Typed
<1>3. EntryInit => InBounds /\ CompleteOrInvalid /\ Sized
  BY DEF EntryInit, InBounds, CompleteOrInvalid, Sized
<1>4. QED
  BY <1>2, <1>3 DEF Inv

\* For directories of any size and any pattern of failing reallocs, no write
\* and no read leaves the buffer, and realloc is never asked for nothing, as
\* long as requests are serialised.
THEOREM BufferSafe == EntrySpec => []BufferInBounds
<1> DEFINE BuildInv == ~serialized \/ Inv
<1>1. [EntryNext]_entryVars => serialized' = serialized
  BY DEF EntryNext, entryVars
<1>2. BuildInv /\ [EntryNext]_entryVars => BuildInv'
  BY <1>1, InvNext
<1>3. BuildInv => BufferInBounds
  BY DEF Inv, InBounds, BufferInBounds
<1>4. EntryInit => BuildInv
  BY InvInit
<1>5. QED
  BY <1>2, <1>3, <1>4, PTL DEF EntrySpec

-------------------------------------------------------------------------------

\* What completeness needs of the types.
Counts == cInfos \in Nat /\ seen \in 0 .. MaxFiles

LEMMA CompleteNext == Counts /\ CompleteOrInvalid /\ [EntryNext]_entryVars
                         => Counts' /\ CompleteOrInvalid'
<1> SUFFICES ASSUME Counts, CompleteOrInvalid, [EntryNext]_entryVars
             PROVE  Counts' /\ CompleteOrInvalid'
  OBVIOUS
<1> USE DEF Counts, CompleteOrInvalid
<1>0. MaxFiles \in Nat /\ 0 \in 0 .. MaxFiles
  BY SizesAssumption
<1>1. CASE CreateSmb2 \/ CreateSmb1
  BY <1>0, <1>1 DEF CreateSmb2, CreateSmb1, Create
<1>2. CASE Reuse
  BY <1>0, <1>2 DEF Reuse
<1>3. CASE WriteFits
  BY <1>0, <1>3 DEF WriteFits, NextFile
<1>4. CASE GrowAndWrite
  BY <1>0, <1>4 DEF GrowAndWrite, NextFile
<1>5. CASE GrowFails
  BY <1>0, <1>5 DEF GrowFails, NextFile
<1>6. CASE EndAsIs \/ EndAdjusted \/ EndNotAdjusted
  BY <1>6 DEF EndAsIs, EndAdjusted, EndNotAdjusted, Finished
<1>7. CASE EndInvalid \/ Delete
  BY <1>0, <1>7 DEF EndInvalid, Delete, Blank
<1>8. CASE UNCHANGED entryVars
  BY <1>8 DEF entryVars
<1>9. QED
  BY <1>1, <1>2, <1>3, <1>4, <1>5, <1>6, <1>7, <1>8 DEF EntryNext

\* For directories of any size, what gets into the cache is all that was
\* seen, also when entries are filled again.
THEOREM NothingLost == EntrySpec => []CompleteOrInvalid
<1>1. EntryInit => Counts /\ CompleteOrInvalid
  BY SizesAssumption DEF EntryInit, Counts, CompleteOrInvalid
<1>2. QED
  BY <1>1, CompleteNext, PTL DEF EntrySpec
===============================================================================
