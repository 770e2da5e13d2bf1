---------------------------- MODULE BufferProofs ----------------------------
(***************************************************************************)
(* Proof that the buffers of Buffer.tla (datastructures.hpp:35-81) never   *)
(* point at freed memory, never share a block and never report more       *)
(* elements than their block holds, for any number of buffer objects and  *)
(* of addresses.  OwnershipSafe is inductive together with the type        *)
(* invariant: a fresh block is one the heap does not hold, so no live      *)
(* buffer can point at it, and the destructor frees a block no other live  *)
(* buffer points at.                                                       *)
(***************************************************************************)
EXTENDS Buffer, TLAPS

USE NullAssumption, SizesAssumption

IInv == TypeOK /\ OwnershipSafe

LEMMA InitIInv == Init => IInv
BY DEF Init, IInv, TypeOK, OwnershipSafe

LEMMA ResizeOkIInv ==
  ASSUME NEW b \in Buffers, NEW n \in Sizes
  PROVE  IInv /\ resize_ok(b, n) => IInv'
<1>. SUFFICES ASSUME IInv, resize_ok(b, n) PROVE IInv'
  OBVIOUS
<1>1. PICK p \in Blocks \ heap :
        /\ elements' = [elements EXCEPT ![b] = p]
        /\ heap' = heap \cup {p}
        /\ blocksize' = [blocksize EXCEPT ![p] = n]
  BY DEF resize_ok
<1>2. /\ b \in alive
      /\ capacity' = [capacity EXCEPT ![b] = n]
      /\ alive' = alive
      /\ result' = TRUE
  BY DEF resize_ok
<1>3. TypeOK'
  BY <1>1, <1>2 DEF IInv, TypeOK
<1>4. \A c \in alive \ {b} : elements[c] # Null => elements[c] # p
  BY <1>1 DEF IInv, OwnershipSafe
<1>5. OwnershipSafe'
  BY <1>1, <1>2, <1>4 DEF IInv, TypeOK, OwnershipSafe
<1>. QED
  BY <1>3, <1>5 DEF IInv

LEMMA ResizeFailedIInv ==
  ASSUME NEW b \in Buffers
  PROVE  IInv /\ resize_failed(b) => IInv'
BY DEF IInv, resize_failed, TypeOK, OwnershipSafe

LEMMA MoveAssignIInv ==
  ASSUME NEW b \in Buffers, NEW other \in Buffers
  PROVE  IInv /\ move_assign(b, other) => IInv'
<1>. SUFFICES ASSUME IInv, move_assign(b, other) PROVE IInv'
  OBVIOUS
<1>1. CASE b = other
  <2>1. elements' = elements /\ capacity' = capacity
    BY <1>1 DEF move_assign, IInv, TypeOK
  <2>. QED
    BY <2>1 DEF move_assign, IInv, TypeOK, OwnershipSafe
<1>2. CASE b # other
  <2>1. /\ elements' = [elements EXCEPT ![b] = elements[other], ![other] = elements[b]]
        /\ capacity' = [capacity EXCEPT ![b] = capacity[other], ![other] = capacity[b]]
        /\ b \in alive /\ other \in alive
        /\ UNCHANGED <<alive, heap, blocksize, result>>
    BY DEF move_assign
  <2>2. TypeOK'
    BY <2>1 DEF IInv, TypeOK
  <2>3. OwnershipSafe'
    BY <1>2, <2>1 DEF IInv, TypeOK, OwnershipSafe
  <2>. QED
    BY <2>2, <2>3 DEF IInv
<1>. QED
  BY <1>1, <1>2

LEMMA DestroyIInv ==
  ASSUME NEW b \in Buffers
  PROVE  IInv /\ destroy(b) => IInv'
<1>. SUFFICES ASSUME IInv, destroy(b) PROVE IInv'
  OBVIOUS
<1>1. /\ b \in alive
      /\ heap' = heap \ {elements[b]}
      /\ elements' = [elements EXCEPT ![b] = Null]
      /\ alive' = alive \ {b}
      /\ UNCHANGED <<capacity, blocksize, result>>
  BY DEF destroy
<1>2. TypeOK'
  BY <1>1 DEF IInv, TypeOK
<1>3. OwnershipSafe'
  BY <1>1 DEF IInv, TypeOK, OwnershipSafe
<1>. QED
  BY <1>2, <1>3 DEF IInv

LEMMA NextIInv == IInv /\ [Next]_vars => IInv'
<1>. SUFFICES ASSUME IInv, [Next]_vars PROVE IInv'
  OBVIOUS
<1>1. CASE Next
  BY <1>1, ResizeOkIInv, ResizeFailedIInv, MoveAssignIInv, DestroyIInv DEF Next
<1>2. CASE UNCHANGED vars
  BY <1>2 DEF vars, IInv, TypeOK, OwnershipSafe
<1>. QED
  BY <1>1, <1>2

(* However resize, the move-assignment and the destructor of several       *)
(* buffers interleave, a live buffer's pointer is either null or a block   *)
(* still allocated, owned by no other live buffer and at least size()      *)
(* elements long: no use after free, no double free, and data()..end()     *)
(* stays in bounds (datastructures.hpp:51-71).                             *)
THEOREM BufferOwnership == Spec => [](TypeOK /\ OwnershipSafe)
<1>1. Init => IInv
  BY InitIInv
<1>2. IInv /\ [Next]_vars => IInv'
  BY NextIInv
<1>. QED
  BY <1>1, <1>2, PTL DEF Spec, IInv
=============================================================================
