----------------------------- MODULE ArrayProofs -----------------------------
(***************************************************************************)
(* Proofs about the growable array of Array.tla (datastructures.hpp:87-179) *)
(* for every bound MaxN and every set of values.                           *)
(*                                                                         *)
(* TypeOK /\ ArraySafe is inductive: every growth keeps the first          *)
(* capacity_ elements, and count_ <= capacity_ puts the exposed ones among *)
(* them.  The same two facts make each step of the array a step of the    *)
(* abstract sequence of ElementSequence, or a stutter of it.               *)
(***************************************************************************)
EXTENDS Array, SequenceTheorems, TLAPS

USE ValuesAssumption, MaxNAssumption

IInv == TypeOK /\ ArraySafe

(* The sources append_n is given are the value sequences of length 1 or 2. *)
Sources == UNION {[1 .. k -> Values] : k \in 1 .. 2}

(* A source of append_n is a sequence of values whose length is the size   *)
(* of its domain.                                                          *)
LEMMA SourceLen ==
  ASSUME NEW src \in Sources
  PROVE  /\ src \in Seq(Values)
         /\ Len(src) \in 1 .. 2
         /\ DOMAIN src = 1 .. Len(src)
         /\ \A k \in 1 .. Len(src) : src[k] \in Values
<1>1. PICK k \in 1 .. 2 : src \in [1 .. k -> Values]
  BY DEF Sources
<1>2. src \in Seq(Values) /\ Len(src) = k
  BY <1>1
<1>. QED
  BY <1>1, <1>2

LEMMA InitIInv == Init => IInv
BY DEF Init, IInv, TypeOK, ArraySafe, Idx

LEMMA ReserveIInv ==
  ASSUME NEW n \in 1 .. MaxN
  PROVE  IInv /\ reserve(n) => IInv'
BY DEF IInv, TypeOK, ArraySafe, reserve, Grown, Idx

LEMMA PushIInv ==
  ASSUME NEW v \in Values
  PROVE  IInv /\ push_back_reserved(v) => IInv'
BY DEF IInv, TypeOK, ArraySafe, push_back_reserved, Idx

LEMMA PopIInv ==
  ASSUME NEW n \in 1 .. MaxN
  PROVE  IInv /\ pop_back(n) => IInv'
BY DEF IInv, TypeOK, ArraySafe, pop_back, Idx

LEMMA AppendIInv ==
  ASSUME NEW src \in Sources
  PROVE  IInv /\ append_n(src) => IInv'
<1>. SUFFICES ASSUME IInv, append_n(src) PROVE IInv'
  OBVIOUS
<1>1. /\ Len(src) \in 1 .. 2
      /\ \A k \in 1 .. Len(src) : src[k] \in Values
  BY SourceLen
<1>. DEFINE n == Len(src)
<1>2. /\ count + n <= MaxN
      /\ count' = count + n
      /\ capacity' = IF count + n <= capacity THEN capacity ELSE count + n
  BY DEF append_n
<1>3. elements' = [i \in Idx |-> IF i >= count /\ i < count + n
                                   THEN src[i - count + 1]
                                   ELSE IF count + n <= capacity
                                          THEN elements[i]
                                          ELSE Grown(count + n)[i]]
  BY DEF append_n
<1>4. TypeOK'
  BY <1>1, <1>2, <1>3 DEF IInv, TypeOK, Grown, Idx
<1>5. ArraySafe'
  BY <1>1, <1>2, <1>3 DEF IInv, TypeOK, ArraySafe, Grown, Idx
<1>. QED
  BY <1>4, <1>5 DEF IInv

LEMMA ResetIInv == IInv /\ reset => IInv'
BY DEF IInv, TypeOK, ArraySafe, reset, Idx

LEMMA NextIInv == IInv /\ [Next]_vars => IInv'
<1>. SUFFICES ASSUME IInv, [Next]_vars PROVE IInv'
  OBVIOUS
<1>1. CASE \E n \in 1 .. MaxN : reserve(n)
  BY <1>1, ReserveIInv
<1>2. CASE \E v \in Values : push_back_reserved(v)
  BY <1>2, PushIInv
<1>3. CASE \E n \in 1 .. MaxN : pop_back(n)
  BY <1>3, PopIInv
<1>4. CASE \E src \in Sources : append_n(src)
  BY <1>4, AppendIInv
<1>5. CASE reset
  BY <1>5, ResetIInv
<1>6. CASE UNCHANGED vars
  BY <1>6 DEF vars, IInv, TypeOK, ArraySafe
<1>. QED
  BY <1>1, <1>2, <1>3, <1>4, <1>5, <1>6 DEF Next, Sources

(* Whatever sequence of reserve, push_back_reserved, pop_back, append_n    *)
(* and reset the owner makes, size() never exceeds capacity() and every    *)
(* element below size() holds a value that was written there: no          *)
(* reallocation (datastructures.hpp:123-136) loses one and none exposes    *)
(* indeterminate memory.                                                   *)
THEOREM ArraySafety == Spec => [](TypeOK /\ ArraySafe)
<1>1. Init => IInv
  BY InitIInv
<1>2. IInv /\ [Next]_vars => IInv'
  BY NextIInv
<1>. QED
  BY <1>1, <1>2, PTL DEF Spec, IInv

-----------------------------------------------------------------------------
(* The refinement: Contents, the first count_ elements as a sequence,     *)
(* follows the abstract sequence step by step.                            *)

(* Contents is a sequence of values under the invariant.                   *)
LEMMA ContentsSeq == IInv => Contents \in Seq(Values) /\ Len(Contents) = count
<1>. SUFFICES ASSUME IInv PROVE Contents \in Seq(Values) /\ Len(Contents) = count
  OBVIOUS
<1>1. count \in Nat /\ \A k \in 1 .. count : elements[k - 1] \in Values
  BY DEF IInv, TypeOK, ArraySafe, Idx
<1>. QED
  BY <1>1 DEF Contents

LEMMA InitRefines == Init => Elements!Init
BY DEF Init, Elements!Init, Contents

LEMMA ReserveRefines ==
  ASSUME NEW n \in 1 .. MaxN
  PROVE  IInv /\ reserve(n) => Contents' = Contents
BY DEF IInv, TypeOK, ArraySafe, reserve, Grown, Idx, Contents

LEMMA PushRefines ==
  ASSUME NEW v \in Values
  PROVE  IInv /\ push_back_reserved(v) => Elements!Push(v)
<1>. SUFFICES ASSUME IInv, push_back_reserved(v)
              PROVE  Contents' = Append(Contents, v)
  BY DEF Elements!Push
<1>1. /\ count' = count + 1
      /\ elements' = [elements EXCEPT ![count] = v]
      /\ count < capacity
  BY DEF push_back_reserved
<1>2. Contents \in Seq(Values) /\ Len(Contents) = count
  BY ContentsSeq
<1>3. count \in 0 .. MaxN - 1
  BY <1>1 DEF IInv, TypeOK
<1>. QED
  BY <1>1, <1>2, <1>3 DEF Contents, IInv, TypeOK, Idx

LEMMA PopRefines ==
  ASSUME NEW n \in 1 .. MaxN
  PROVE  IInv /\ pop_back(n) => Elements!Pop(n)
<1>. SUFFICES ASSUME IInv, pop_back(n)
              PROVE  n \in 1 .. Len(Contents)
                     /\ Contents' = SubSeq(Contents, 1, Len(Contents) - n)
  BY DEF Elements!Pop
<1>1. /\ count' = count - n
      /\ elements' = elements
      /\ n <= count
  BY DEF pop_back
<1>2. Contents \in Seq(Values) /\ Len(Contents) = count
  BY ContentsSeq
<1>. QED
  BY <1>1, <1>2 DEF Contents, IInv, TypeOK

LEMMA AppendRefines ==
  ASSUME NEW src \in Sources
  PROVE  IInv /\ append_n(src) => Elements!AppendAll(src)
<1>. SUFFICES ASSUME IInv, append_n(src)
              PROVE  Contents' = Contents \o src
  BY DEF Elements!AppendAll
<1>1. /\ src \in Seq(Values)
      /\ Len(src) \in 1 .. 2
      /\ DOMAIN src = 1 .. Len(src)
  BY SourceLen
<1>. DEFINE n == Len(src)
<1>2. /\ count + n <= MaxN
      /\ count' = count + n
  BY DEF append_n
<1>3. \A i \in 0 .. count + n - 1 :
        elements'[i] = IF i >= count THEN src[i - count + 1] ELSE elements[i]
  BY <1>1, <1>2 DEF append_n, IInv, TypeOK, ArraySafe, Grown, Idx
<1>4. Contents \in Seq(Values) /\ Len(Contents) = count
  BY ContentsSeq
<1>5. count \in Nat /\ count' \in Nat
  BY <1>1, <1>2 DEF IInv, TypeOK
<1>6. /\ Contents \o src \in Seq(Values)
      /\ Len(Contents \o src) = count + n
      /\ \A k \in 1 .. count + n :
           (Contents \o src)[k] = IF k <= count THEN Contents[k] ELSE src[k - count]
  BY <1>1, <1>4, ConcatProperties
<1>8. \A k \in 1 .. count + n : Contents'[k] = (Contents \o src)[k]
  <2>. SUFFICES ASSUME NEW k \in 1 .. count + n
                PROVE  Contents'[k] = (Contents \o src)[k]
    OBVIOUS
  <2>1. Contents'[k] = elements'[k - 1]
    BY <1>2, <1>5 DEF Contents
  <2>2. CASE k <= count
    <3>1. Contents[k] = elements[k - 1]
      BY <2>2, <1>5 DEF Contents
    <3>. QED
      BY <1>3, <1>5, <1>6, <2>1, <2>2, <3>1
  <2>3. CASE k > count
    BY <1>3, <1>5, <1>6, <2>1, <2>3
  <2>4. k <= count \/ k > count
    BY <1>1, <1>5
  <2>. QED
    BY <2>2, <2>3, <2>4, Zenon
<1>9. IInv'
  BY AppendIInv
<1>10. Contents' \in Seq(Values) /\ Len(Contents') = count + n
  BY <1>2, <1>9 DEF IInv, TypeOK, ArraySafe, Idx, Contents
<1>. QED
  BY <1>6, <1>8, <1>10, SeqEqual
  
LEMMA ResetRefines == IInv /\ reset => Elements!Clear
BY DEF reset, Elements!Clear, Contents

LEMMA NextRefines == IInv /\ [Next]_vars => [Elements!Next]_Contents
<1>. SUFFICES ASSUME IInv, [Next]_vars PROVE [Elements!Next]_Contents
  OBVIOUS
<1>1. CASE \E n \in 1 .. MaxN : reserve(n)
  BY <1>1, ReserveRefines
<1>2. CASE \E v \in Values : push_back_reserved(v)
  BY <1>2, PushRefines DEF Elements!Next
<1>3. CASE \E n \in 1 .. MaxN : pop_back(n)
  BY <1>3, PopRefines DEF Elements!Next
<1>4. CASE \E src \in Sources : append_n(src)
  <2>1. PICK src \in Sources : append_n(src)
    BY <1>4
  <2>2. src \in Seq(Values) /\ Len(src) \in 1 .. 2
    BY <2>1, SourceLen
  <2>3. Len(src) <= MaxN
    BY <2>1, <2>2 DEF append_n, IInv, TypeOK
  <2>4. src \in [1 .. Len(src) -> Values]
    BY <2>2
  <2>5. Len(src) \in 1 .. MaxN
    BY <2>2, <2>3
  <2>6. \E k \in 1 .. MaxN : src \in [1 .. k -> Values]
    BY <2>4, <2>5
  <2>7. src \in UNION {[1 .. k -> Values] : k \in 1 .. MaxN}
    BY <2>6, Zenon
  <2>. QED
    BY <2>1, <2>7, AppendRefines DEF Elements!Next
<1>5. CASE reset
  BY <1>5, ResetRefines DEF Elements!Next
<1>6. CASE UNCHANGED vars
  BY <1>6 DEF vars, Contents
<1>. QED
  BY <1>1, <1>2, <1>3, <1>4, <1>5, <1>6 DEF Next, Sources

(* The array is the sequence its owner built: reserve and every            *)
(* reallocation of datastructures.hpp:123-136 leave the exposed elements  *)
(* unchanged, push_back_reserved and append_n add exactly their values at *)
(* the end, pop_back removes the last n and reset clears it.               *)
THEOREM ArrayRefinesSequence == Spec => SequenceRefinement
<1>1. Init => Elements!Init
  BY InitRefines
<1>2. IInv /\ [Next]_vars => [Elements!Next]_Contents
  BY NextRefines
<1>3. Init => IInv
  BY InitIInv
<1>4. IInv /\ [Next]_vars => IInv'
  BY NextIInv
<1>. QED
  BY <1>1, <1>2, <1>3, <1>4, PTL DEF Spec, SequenceRefinement, Elements!Spec

(* Every member of array_gt keeps its modelled range: size() and          *)
(* capacity() stay within the bound, and every element is a value or      *)
(* indeterminate memory (datastructures.hpp:87-179).                       *)
THEOREM ArrayTypeCorrect == Spec => []TypeOK
BY ArraySafety, PTL
=============================================================================
