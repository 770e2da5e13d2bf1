---------------------------- MODULE MCPoolProofs ----------------------------
(***************************************************************************)
(* Proof that pool_gt reuses offsets last-released-first, for every pool   *)
(* size N: after release(p) the free stack's top is p, so the next alloc   *)
(* (datastructures.hpp:233-239) pops it.  The history variable released    *)
(* of MCPool records the offset the previous step released.                *)
(***************************************************************************)
EXTENDS MCPool, PoolProofs

(* The offset the last step released is on top of the free stack.         *)
LastReleasedOnTop ==
  released # Null => free_count > 0 /\ free_offsets[free_count - 1] = released

MCIInv == IInv /\ LastReleasedOnTop /\ released \in Offsets \cup {Null}

LEMMA MCInitIInv == MCInit => MCIInv
BY InitIInv DEF MCInit, MCIInv, LastReleasedOnTop

LEMMA MCNextIInv == MCIInv /\ [MCNext]_mcvars => MCIInv'
<1>. SUFFICES ASSUME MCIInv, [MCNext]_mcvars PROVE MCIInv'
  OBVIOUS
<1>1. CASE (reserve \/ alloc) /\ released' = Null
  <2>1. IInv'
    BY <1>1, ReserveIInv, AllocIInv DEF MCIInv
  <2>. QED
    BY <1>1, <2>1 DEF MCIInv, LastReleasedOnTop
<1>2. CASE \E p \in Offsets : release(p) /\ released' = p
  <2>1. PICK p \in Offsets : release(p) /\ released' = p
    BY <1>2
  <2>2. IInv'
    BY <2>1, ReleaseIInv DEF MCIInv
  <2>3. /\ free_offsets' = [free_offsets EXCEPT ![free_count] = p]
        /\ free_count' = free_count + 1
    BY <2>1 DEF release
  <2>4. free_count \in Offsets
    BY <2>2, <2>3 DEF MCIInv, IInv, TypeOK, Offsets
  <2>5. free_count' > 0 /\ free_offsets'[free_count' - 1] = p
    BY <2>3, <2>4 DEF MCIInv, IInv, TypeOK, Offsets
  <2>. QED
    BY <2>1, <2>2, <2>5 DEF MCIInv, LastReleasedOnTop
<1>3. CASE UNCHANGED mcvars
  BY <1>3 DEF mcvars, vars, MCIInv, IInv, TypeOK, PoolConsistent, FreeDistinct,
              FreeDisjointHeld, NoOffsetLost, Free, Unreserved, Counted,
              LastReleasedOnTop
<1>. QED
  BY <1>1, <1>2, <1>3 DEF MCNext

(* An alloc right after release(p) pops p: the free stack is LIFO.         *)
LEMMA AllocReusesReleased ==
  MCIInv => (released # Null /\ alloc => allocated' = released)
<1>. SUFFICES ASSUME MCIInv, released # Null, alloc PROVE allocated' = released
  OBVIOUS
<1>1. free_count > 0 /\ free_offsets[free_count - 1] = released
  BY DEF MCIInv, LastReleasedOnTop
<1>. QED
  BY <1>1 DEF alloc

(* Whatever the owner did before, an alloc right after release(p) returns  *)
(* p again, for every pool size: release pushes on top of the free stack   *)
(* and alloc pops from it (datastructures.hpp:236 and 243).                *)
THEOREM PoolReuseLastReleased == MCSpec => ReuseLastReleased
<1>1. MCInit => MCIInv
  BY MCInitIInv
<1>2. MCIInv /\ [MCNext]_mcvars => MCIInv'
  BY MCNextIInv
<1>3. MCIInv => (released # Null /\ alloc => allocated' = released)
  BY AllocReusesReleased
<1>. QED
  BY <1>1, <1>2, <1>3, PTL DEF MCSpec, ReuseLastReleased
=============================================================================
