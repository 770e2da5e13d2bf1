----------------------------- MODULE PoolProofs -----------------------------
(***************************************************************************)
(* Proofs that the slab pool of Pool.tla (datastructures.hpp:185-258)      *)
(* keeps its type and keeps the free stack and the owner's offsets a       *)
(* partition of the pool, for every pool size N.                           *)
(*                                                                         *)
(* PoolConsistent is not inductive by itself: release writes               *)
(* free_offsets_[free_count_] and increments free_count_, which stays in   *)
(* the block only if some offset is held whenever the stack is not full.   *)
(* The strengthening counts: on a reserved pool the free offsets and the   *)
(* held ones add up to N, and on an unreserved pool nothing is free or     *)
(* held.                                                                   *)
(***************************************************************************)
EXTENDS Pool, FiniteSetTheorems, TLAPS

USE NAssumption

(* The unreserved pool is empty, and the reserved one accounts for every   *)
(* offset once.                                                            *)
Unreserved == capacity = 0 => free_count = 0 /\ held = {}
Counted == capacity = N => free_count + Cardinality(held) = N

IInv == TypeOK /\ PoolConsistent /\ Unreserved /\ Counted

(* Any set of offsets is finite.                                           *)
LEMMA OffsetsFinite ==
  ASSUME NEW S \in SUBSET Offsets
  PROVE  IsFiniteSet(S) /\ Cardinality(S) \in Nat
<1>1. IsFiniteSet(Offsets)
  BY FS_Interval DEF Offsets
<1>2. IsFiniteSet(S)
  BY <1>1, FS_Subset
<1>. QED
  BY <1>2, FS_CardinalityType

LEMMA InitIInv == Init => IInv
<1>. SUFFICES ASSUME Init PROVE IInv
  OBVIOUS
<1>1. TypeOK
  BY DEF Init, TypeOK, Offsets, Null
<1>2. PoolConsistent
  BY DEF Init, PoolConsistent, FreeDistinct, FreeDisjointHeld, NoOffsetLost, Free
<1>3. Unreserved /\ Counted
  BY DEF Init, Unreserved, Counted
<1>. QED
  BY <1>1, <1>2, <1>3 DEF IInv

LEMMA ReserveIInv == IInv /\ reserve => IInv'
<1>. SUFFICES ASSUME IInv, reserve PROVE IInv'
  OBVIOUS
<1>1. held = {} /\ free_count' = N /\ capacity' = N
  BY DEF IInv, Unreserved, reserve
<1>2. TypeOK'
  <2>1. free_offsets' \in [Offsets -> Offsets]
    BY DEF reserve
  <2>2. held' = held /\ allocated' = allocated
    BY DEF reserve
  <2>. QED
    BY <1>1, <2>1, <2>2 DEF IInv, TypeOK
<1>3. Free' = Offsets
  BY DEF reserve, Free, Offsets
<1>4. PoolConsistent'
  <2>1. FreeDistinct'
    BY <1>1 DEF reserve, FreeDistinct, Offsets
  <2>2. held' = {}
    BY <1>1 DEF reserve
  <2>3. FreeDisjointHeld' /\ NoOffsetLost'
    BY <1>3, <2>2 DEF FreeDisjointHeld, NoOffsetLost
  <2>. QED
    BY <2>1, <2>3 DEF PoolConsistent
<1>5. Unreserved' /\ Counted'
  BY <1>1, FS_EmptySet DEF reserve, Unreserved, Counted
<1>. QED
  BY <1>2, <1>4, <1>5 DEF IInv

LEMMA AllocIInv == IInv /\ alloc => IInv'
<1>. SUFFICES ASSUME IInv, alloc PROVE IInv'
  OBVIOUS
<1>. USE DEF IInv
<1>1. CASE free_count = 0
  BY <1>1 DEF alloc, TypeOK, PoolConsistent, FreeDistinct, FreeDisjointHeld,
              NoOffsetLost, Free, Unreserved, Counted
<1>2. CASE free_count > 0
  <2>. DEFINE top == free_offsets[free_count - 1]
  <2>1. /\ free_count' = free_count - 1
        /\ allocated' = top
        /\ held' = held \cup {top}
        /\ capacity' = capacity
        /\ free_offsets' = free_offsets
    BY <1>2 DEF alloc
  <2>2. capacity = N
    BY <1>2 DEF Unreserved, TypeOK
  <2>3. free_count - 1 \in Offsets /\ free_count - 1 \in 0 .. free_count - 1
    BY <1>2 DEF TypeOK, Offsets
  <2>4. top \in Offsets /\ top \in Free
    BY <2>3 DEF TypeOK, Free
  <2>5. top \notin held
    BY <2>4 DEF PoolConsistent, FreeDisjointHeld
  <2>6. Free' = Free \ {top}
    <3>1. ASSUME NEW x \in Free' PROVE x \in Free \ {top}
      <4>1. PICK i \in 0 .. free_count - 2 : x = free_offsets[i]
        BY <1>2, <2>1 DEF Free, TypeOK
      <4>2. i \in 0 .. free_count - 1 /\ i # free_count - 1
        BY <1>2 DEF TypeOK
      <4>. QED
        BY <2>3, <4>1, <4>2 DEF TypeOK, Free, PoolConsistent, FreeDistinct
    <3>2. ASSUME NEW x \in Free \ {top} PROVE x \in Free'
      <4>1. PICK i \in 0 .. free_count - 1 : x = free_offsets[i]
        BY DEF Free
      <4>2. i \in 0 .. free_count - 2
        BY <4>1, <1>2 DEF TypeOK
      <4>3. i \in 0 .. free_count' - 1 /\ x = free_offsets'[i]
        BY <2>1, <4>1, <4>2
      <4>. QED
        BY <4>3 DEF Free
    <3>. QED
      BY <3>1, <3>2
  <2>7. TypeOK'
    BY <1>2, <2>1, <2>4 DEF TypeOK
  <2>8. FreeDistinct'
    BY <1>2, <2>1 DEF TypeOK, PoolConsistent, FreeDistinct
  <2>9. FreeDisjointHeld' /\ NoOffsetLost'
    BY <2>1, <2>2, <2>4, <2>6 DEF PoolConsistent, FreeDisjointHeld, NoOffsetLost
  <2>10. Cardinality(held') = Cardinality(held) + 1
    BY <2>1, <2>5, OffsetsFinite, FS_AddElement DEF TypeOK
  <2>11. Unreserved' /\ Counted'
    BY <2>1, <2>2, <2>10, OffsetsFinite DEF Unreserved, Counted, TypeOK
  <2>. QED
    BY <2>7, <2>8, <2>9, <2>11 DEF PoolConsistent
<1>. QED
  BY <1>1, <1>2 DEF TypeOK

LEMMA ReleaseIInv ==
  ASSUME NEW p \in Offsets
  PROVE  IInv /\ release(p) => IInv'
<1>. SUFFICES ASSUME IInv, release(p) PROVE IInv'
  OBVIOUS
<1>. USE DEF IInv
<1>1. /\ p \in held
      /\ free_offsets' = [free_offsets EXCEPT ![free_count] = p]
      /\ free_count' = free_count + 1
      /\ held' = held \ {p}
      /\ capacity' = capacity
      /\ allocated' = allocated
  BY DEF release
<1>2. capacity = N
  BY <1>1 DEF Unreserved, TypeOK
<1>3. Cardinality(held) \in Nat /\ Cardinality(held) >= 1
      /\ Cardinality(held') = Cardinality(held) - 1
  BY <1>1, OffsetsFinite, FS_RemoveElement, FS_EmptySet DEF TypeOK
<1>4. free_count < N
  BY <1>2, <1>3 DEF Counted, TypeOK
<1>5. free_offsets'[free_count] = p
  BY <1>1, <1>4 DEF TypeOK, Offsets
<1>6. \A k \in 0 .. free_count - 1 : free_offsets'[k] = free_offsets[k]
  BY <1>1 DEF TypeOK, Offsets
<1>7. TypeOK'
  <2>1. free_offsets' \in [Offsets -> Offsets]
    BY <1>1 DEF TypeOK
  <2>. QED
    BY <1>1, <1>4, <2>1 DEF TypeOK
<1>8. Free' = Free \cup {p}
  <2>1. ASSUME NEW x \in Free' PROVE x \in Free \cup {p}
    <3>1. PICK i \in 0 .. free_count : x = free_offsets'[i]
      BY <1>1 DEF Free, TypeOK
    <3>2. CASE i = free_count
      BY <1>5, <3>1, <3>2
    <3>3. CASE i # free_count
      <4>1. i \in 0 .. free_count - 1
        BY <3>3 DEF TypeOK
      <4>. QED
        BY <1>6, <3>1, <4>1 DEF Free
    <3>. QED
      BY <3>2, <3>3
  <2>2. ASSUME NEW x \in Free \cup {p} PROVE x \in Free'
    <3>1. CASE x = p
      <4>1. free_count \in 0 .. free_count'- 1
        BY <1>1 DEF TypeOK
      <4>. QED
        BY <1>5, <3>1, <4>1 DEF Free
    <3>2. CASE x \in Free
      <4>1. PICK i \in 0 .. free_count - 1 : x = free_offsets[i]
        BY <3>2 DEF Free
      <4>2. i \in 0 .. free_count' - 1
        BY <1>1, <4>1 DEF TypeOK
      <4>. QED
        BY <1>6, <4>1, <4>2 DEF Free
    <3>. QED
      BY <2>2, <3>1, <3>2
  <2>. QED
    BY <2>1, <2>2
<1>9. \A k \in 0 .. free_count - 1 : free_offsets[k] # p
  BY <1>1 DEF PoolConsistent, FreeDisjointHeld, Free
<1>10. FreeDistinct'
  <2>. SUFFICES ASSUME NEW i \in 0 .. free_count, NEW j \in 0 .. free_count,
                       i # j
                PROVE  free_offsets'[i] # free_offsets'[j]
    BY <1>1 DEF FreeDistinct, TypeOK
  <2>. QED
    BY <1>5, <1>6, <1>9 DEF PoolConsistent, FreeDistinct, TypeOK
<1>11. FreeDisjointHeld' /\ NoOffsetLost'
  BY <1>1, <1>8 DEF PoolConsistent, FreeDisjointHeld, NoOffsetLost
<1>12. Unreserved' /\ Counted'
  BY <1>1, <1>2, <1>3 DEF Unreserved, Counted, TypeOK
<1>. QED
  BY <1>7, <1>10, <1>11, <1>12 DEF PoolConsistent

LEMMA NextIInv == IInv /\ [Next]_vars => IInv'
<1>. SUFFICES ASSUME IInv, [Next]_vars PROVE IInv'
  OBVIOUS
<1>1. CASE reserve
  BY <1>1, ReserveIInv
<1>2. CASE alloc
  BY <1>2, AllocIInv
<1>3. CASE \E p \in Offsets : release(p)
  BY <1>3, ReleaseIInv
<1>4. CASE UNCHANGED vars
  BY <1>4 DEF vars, IInv, TypeOK, PoolConsistent, FreeDistinct,
              FreeDisjointHeld, NoOffsetLost, Free, Unreserved, Counted
<1>. QED
  BY <1>1, <1>2, <1>3, <1>4 DEF Next

(* Whatever sequence of reserve, alloc and release the owner makes, every  *)
(* offset of the reserved pool is either on the free stack exactly once or *)
(* held by the owner, never both: alloc never hands out an offset twice    *)
(* and none is lost (datastructures.hpp:236 and 243).                      *)
THEOREM PoolPartition == Spec => [](TypeOK /\ PoolConsistent)
<1>1. Init => IInv
  BY InitIInv
<1>2. IInv /\ [Next]_vars => IInv'
  BY NextIInv
<1>3. IInv => TypeOK /\ PoolConsistent
  BY DEF IInv
<1>. QED
  BY <1>1, <1>2, <1>3, PTL DEF Spec

-----------------------------------------------------------------------------
(* On a reserved pool alloc returns null exactly when every offset is held *)
(* by the owner: the counting part of the invariant ties the free stack's *)
(* height to the number of offsets handed out.                            *)
LEMMA AllocNullIffExhausted ==
  IInv => (alloc /\ capacity = N => (allocated' = Null <=> Cardinality(held) = N))
<1>. SUFFICES ASSUME IInv, alloc, capacity = N
              PROVE  allocated' = Null <=> Cardinality(held) = N
  OBVIOUS
<1>. USE DEF IInv
<1>1. free_count + Cardinality(held) = N /\ Cardinality(held) \in Nat
  BY OffsetsFinite DEF Counted, TypeOK
<1>2. CASE free_count > 0
  <2>1. allocated' = free_offsets[free_count - 1]
    BY <1>2 DEF alloc
  <2>2. allocated' \in Offsets
    BY <1>2, <2>1 DEF TypeOK, Offsets
  <2>3. allocated' # Null
    BY <2>2 DEF Offsets, Null
  <2>4. Cardinality(held) # N
    BY <1>1, <1>2 DEF TypeOK
  <2>. QED
    BY <2>3, <2>4
<1>3. CASE free_count = 0
  <2>1. allocated' = Null
    BY <1>3 DEF alloc, TypeOK
  <2>. QED
    BY <1>1, <1>3, <2>1
<1>. QED
  BY <1>2, <1>3 DEF TypeOK

(* Whatever the owner has allocated and released, alloc on a reserved pool *)
(* returns nullptr exactly when all N offsets are handed out              *)
(* (datastructures.hpp:233-239): never while one is free, and never a     *)
(* stale offset once all are taken.                                       *)
THEOREM PoolNullOnlyWhenExhausted == Spec => NullOnlyWhenExhausted
<1>1. Init => IInv
  BY InitIInv
<1>2. IInv /\ [Next]_vars => IInv'
  BY NextIInv
<1>3. IInv => (alloc /\ capacity = N => (allocated' = Null <=> Cardinality(held) = N))
  BY AllocNullIffExhausted
<1>. QED
  BY <1>1, <1>2, <1>3, PTL DEF Spec, NullOnlyWhenExhausted

(* Every member of pool_gt keeps its modelled range: capacity_ is 0 or N, *)
(* free_count_ stays within 0 .. N, the free stack holds offsets of the   *)
(* pool, and alloc returns an offset or nullptr (datastructures.hpp:      *)
(* 185-258).                                                               *)
THEOREM PoolTypeCorrect == Spec => []TypeOK
BY PoolPartition, PTL
-----------------------------------------------------------------------------
(* The refinement: each step of the pool is a step of the abstract        *)
(* allocator under ready <- capacity = N, inuse <- held and               *)
(* result <- allocated.  alloc needs the whole invariant: the popped      *)
(* offset is free and so not held (FreeDisjointHeld), the stack is only   *)
(* non-empty on a reserved pool (Unreserved), and an empty stack on a     *)
(* reserved pool means every offset is held (NoOffsetLost).               *)

LEMMA InitRefines == Init => Allocator!Init
BY DEF Init, Allocator!Init

LEMMA ReserveRefines == IInv /\ reserve => Allocator!Reserve
BY DEF IInv, TypeOK, reserve, Allocator!Reserve

LEMMA AllocRefines == IInv /\ alloc => Allocator!Alloc
<1>. SUFFICES ASSUME IInv, alloc PROVE Allocator!Alloc
  OBVIOUS
<1>. USE DEF IInv
<1>1. capacity' = capacity
  BY DEF alloc
<1>2. CASE free_count > 0
  <2>. DEFINE top == free_offsets[free_count - 1]
  <2>1. allocated' = top /\ held' = held \cup {top}
    BY <1>2 DEF alloc
  <2>2. capacity = N
    BY <1>2 DEF Unreserved, TypeOK
  <2>3. top \in Free
    <3>1. free_count - 1 \in 0 .. free_count - 1
      BY <1>2 DEF TypeOK
    <3>. QED
      BY <3>1 DEF Free
  <2>4. top \in Offsets \ held
    BY <2>3 DEF TypeOK, PoolConsistent, FreeDisjointHeld, Free, Offsets
  <2>. QED
    BY <1>1, <2>1, <2>2, <2>4 DEF Allocator!Alloc
<1>3. CASE free_count = 0
  <2>1. allocated' = Null /\ held' = held
    BY <1>3 DEF alloc, TypeOK
  <2>2. capacity = N => held = Offsets
    <3>1. Free = {}
      BY <1>3 DEF Free
    <3>. QED
      BY <3>1 DEF TypeOK, PoolConsistent, NoOffsetLost
  <2>. QED
    BY <1>1, <2>1, <2>2 DEF Allocator!Alloc
<1>. QED
  BY <1>2, <1>3 DEF TypeOK

LEMMA ReleaseRefines ==
  ASSUME NEW p \in Offsets
  PROVE  release(p) => Allocator!GiveBack(p)
BY DEF release, Allocator!GiveBack

LEMMA NextRefines ==
  IInv /\ [Next]_vars => [Allocator!Next]_<<capacity = N, held, allocated>>
<1>. SUFFICES ASSUME IInv, [Next]_vars
              PROVE  [Allocator!Next]_<<capacity = N, held, allocated>>
  OBVIOUS
<1>1. CASE reserve
  BY <1>1, ReserveRefines DEF Allocator!Next
<1>2. CASE alloc
  BY <1>2, AllocRefines DEF Allocator!Next
<1>3. CASE \E p \in Offsets : release(p)
  BY <1>3, ReleaseRefines DEF Allocator!Next
<1>4. CASE UNCHANGED vars
  BY <1>4 DEF vars
<1>. QED
  BY <1>1, <1>2, <1>3, <1>4 DEF Next

(* Whatever sequence of reserve, alloc and release the owner makes, the   *)
(* pool behaves as the abstract allocator (datastructures.hpp:212-243):   *)
(* alloc hands out an offset the owner does not hold, and returns nullptr *)
(* only on a pool that is unreserved or has every offset in use.          *)
THEOREM PoolRefinesAllocator == Spec => AllocatorRefinement
<1>1. Init => IInv /\ Allocator!Init
  BY InitIInv, InitRefines
<1>2. IInv /\ [Next]_vars => IInv'
  BY NextIInv
<1>3. IInv /\ [Next]_vars => [Allocator!Next]_<<capacity = N, held, allocated>>
  BY NextRefines
<1>. QED
  BY <1>1, <1>2, <1>3, PTL DEF Spec, AllocatorRefinement, Allocator!Spec
=============================================================================
