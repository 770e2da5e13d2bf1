------------------------------- MODULE Buffer -------------------------------
(***************************************************************************)
(* The scratch buffer `buffer_gt` of src/src/datastructures.hpp:35-81: an  *)
(* owning pointer and a size.  resize(n) mallocs a fresh block and stores  *)
(* the result straight into elements_; the destructor frees elements_;     *)
(* move-assignment swaps both members with the other buffer.               *)
(*                                                                         *)
(* Several buffer objects share one heap, so that the move-assignment and  *)
(* the ownership of blocks can be followed.  A block is an address; the    *)
(* heap records which addresses malloc has handed out and not taken back, *)
(* and the size each was requested with.  malloc may fail on any call, and *)
(* fails when no address is free.  An object is used only between its      *)
(* construction (Init) and its destructor, the owner's contract.           *)
(***************************************************************************)
EXTENDS Naturals

CONSTANTS
  Buffers,   \* the buffer_gt objects of the program
  Blocks,    \* the addresses malloc may return
  Null,      \* nullptr
  Sizes      \* the n passed to resize(n)

ASSUME NullAssumption == Null \notin Blocks
ASSUME SizesAssumption == Sizes \subseteq Nat

VARIABLES
  elements,   \* elements_ of each object
  capacity,   \* capacity_ of each object
  alive,      \* the objects whose destructor has not run
  heap,       \* the addresses malloc has returned and free has not released
  blocksize,  \* the n each address in the heap was requested with
  result      \* what the last resize returned

vars == <<elements, capacity, alive, heap, blocksize, result>>

(* Default member initialisers: null pointer, size zero.                   *)
Init ==
  /\ elements = [b \in Buffers |-> Null]
  /\ capacity = [b \in Buffers |-> 0]
  /\ alive = Buffers
  /\ heap = {}
  /\ blocksize = [p \in Blocks |-> 0]
  /\ result = TRUE

(* resize(n): the malloc result overwrites elements_ before it is checked; *)
(* on success capacity_ becomes n and the elements are default-            *)
(* constructed in place (their values are not modelled).                   *)
resize_ok(b, n) ==
  /\ b \in alive
  /\ \E p \in Blocks \ heap :
       /\ elements' = [elements EXCEPT ![b] = p]
       /\ heap' = heap \cup {p}
       /\ blocksize' = [blocksize EXCEPT ![p] = n]
  /\ capacity' = [capacity EXCEPT ![b] = n]
  /\ result' = TRUE
  /\ UNCHANGED alive

resize_failed(b) ==
  /\ b \in alive
  /\ elements' = [elements EXCEPT ![b] = Null]
  /\ result' = FALSE
  /\ UNCHANGED <<capacity, alive, heap, blocksize>>

(* A plausible slip in the move-assignment: the pointer swapped, the size  *)
(* left behind.                                                            *)
move_assign_pointer_only(b, other) ==
  /\ b \in alive /\ other \in alive
  /\ elements' = [elements EXCEPT ![b] = elements[other], ![other] = elements[b]]
  /\ UNCHANGED <<capacity, alive, heap, blocksize, result>>

(* operator=(buffer_gt&&): swap both members with the other object.        *)
move_assign(b, other) ==
  /\ b \in alive /\ other \in alive
  /\ elements' = [elements EXCEPT ![b] = elements[other], ![other] = elements[b]]
  /\ capacity' = [capacity EXCEPT ![b] = capacity[other], ![other] = capacity[b]]
  /\ UNCHANGED <<alive, heap, blocksize, result>>

(* ~buffer_gt(): destroy the capacity_ elements (a no-op for the trivially *)
(* destructible types), free elements_ (a no-op on nullptr) and null it.   *)
destroy(b) ==
  /\ b \in alive
  /\ heap' = heap \ {elements[b]}
  /\ elements' = [elements EXCEPT ![b] = Null]
  /\ alive' = alive \ {b}
  /\ UNCHANGED <<capacity, blocksize, result>>

Next ==
  \E b \in Buffers :
    \/ \E n \in Sizes : resize_ok(b, n)
    \/ resize_failed(b)
    \/ \E other \in Buffers : move_assign(b, other)
    \/ destroy(b)

Spec == Init /\ [][Next]_vars

-----------------------------------------------------------------------------
(* Every variable holds a value of its modelled type.                      *)
TypeOK ==
  /\ elements \in [Buffers -> Blocks \cup {Null}]
  /\ capacity \in [Buffers -> Nat]
  /\ alive \subseteq Buffers
  /\ heap \subseteq Blocks
  /\ blocksize \in [Blocks -> Nat]
  /\ result \in BOOLEAN

(* No use after free and no double free, whatever resizes, moves and       *)
(* destructions interleave: the block a live buffer points to is still     *)
(* allocated, no other live buffer points to it, and the buffer's size     *)
(* never exceeds what that block was allocated with, so begin()..end()     *)
(* stays inside it.                                                        *)
OwnershipSafe ==
  \A b \in alive :
    elements[b] # Null =>
      /\ elements[b] \in heap
      /\ capacity[b] <= blocksize[elements[b]]
      /\ \A c \in alive \ {b} : elements[c] # elements[b]

(* A buffer that holds no block reports size zero (spec section 7: an      *)
(* allocation failure leaves "no partial state corruption"), so a loop to  *)
(* size() never walks a null data().                                       *)
NullMeansEmpty == \A b \in alive : elements[b] = Null => capacity[b] = 0

(* Every allocated block is owned by some live buffer: resize discards the *)
(* old contents (spec section 4.1), and the memory that held them is given *)
(* back, so no sequence of resizes leaks.                                  *)
NoLeak == \A p \in heap : \E b \in alive : elements[b] = p
=============================================================================
