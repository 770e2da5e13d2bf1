-------------------------------- MODULE Array --------------------------------
(***************************************************************************)
(* The growable array `array_gt` of src/src/datastructures.hpp:87-179: a   *)
(* block of capacity_ elements, of which the first count_ are the array.   *)
(* Growth is by malloc or realloc to exactly the requested size; the new   *)
(* tail is default-initialised, which for the trivially-copyable element   *)
(* types it is used with leaves it indeterminate (Garbage).                *)
(*                                                                         *)
(* The owner's side of the contract is part of the guards: it calls        *)
(* push_back_reserved only with room reserved and pop_back(n) only with    *)
(* n <= size() (spec 4.1, 7).  A failed malloc or realloc returns false    *)
(* and changes nothing, so it is a stutter step.                           *)
(***************************************************************************)
EXTENDS Naturals, Sequences

CONSTANTS
  Values,    \* element values
  Garbage,   \* the content of memory nothing has written
  MaxN       \* the largest capacity the owner reserves

ASSUME ValuesAssumption == Garbage \notin Values
ASSUME MaxNAssumption == MaxN \in Nat \ {0}

VARIABLES
  elements,  \* elements_[i] for i in 0 .. MaxN - 1
  count,     \* count_
  capacity   \* capacity_

vars == <<elements, count, capacity>>

Idx == 0 .. MaxN - 1

(* The elements the array exposes, as a sequence. *)
Contents == [k \in 1 .. count |-> elements[k - 1]]

Init ==
  /\ elements = [i \in Idx |-> Garbage]
  /\ count = 0
  /\ capacity = 0

(* The block after malloc/realloc to n elements: the first capacity_       *)
(* elements are carried over, the rest are indeterminate.                  *)
Grown(n) == [i \in Idx |-> IF i < capacity THEN elements[i] ELSE Garbage]

(* Plausible slips in reserve: capacity_ set one past the block, and a     *)
(* fresh malloc on every growth that drops the old contents.               *)
reserve_capacity_off_by_one(n) ==
  /\ n > capacity
  /\ elements' = Grown(n)
  /\ capacity' = n + 1
  /\ UNCHANGED count

reserve_without_copy(n) ==
  /\ n > capacity
  /\ elements' = [i \in Idx |-> Garbage]
  /\ capacity' = n
  /\ UNCHANGED count

(* reserve(n): nothing when n <= capacity_, otherwise grow to exactly n.   *)
reserve(n) ==
  /\ n > capacity
  /\ elements' = Grown(n)
  /\ capacity' = n
  /\ UNCHANGED count

(* push_back_reserved(v): construct v at end(), no check of the capacity.  *)
push_back_reserved(v) ==
  /\ count < capacity
  /\ elements' = [elements EXCEPT ![count] = v]
  /\ count' = count + 1
  /\ UNCHANGED capacity

(* pop_back(n): forget the last n elements. *)
pop_back(n) ==
  /\ n <= count
  /\ count' = count - n
  /\ UNCHANGED <<elements, capacity>>

(* A plausible slip in append_n: reserve(n) instead of reserve(size() + n).*)
append_n_reserve_n(src) ==
  LET n == Len(src)
      block == IF n <= capacity THEN elements ELSE Grown(n)
  IN  /\ count + n <= MaxN
      /\ elements' = [i \in Idx |-> IF i >= count /\ i < count + n
                                      THEN src[i - count + 1]
                                      ELSE block[i]]
      /\ capacity' = IF n <= capacity THEN capacity ELSE n
      /\ count' = count + n

(* append_n(src, n): reserve(size() + n), then memcpy src to end().        *)
append_n(src) ==
  LET n == Len(src)
      block == IF count + n <= capacity THEN elements ELSE Grown(count + n)
  IN  /\ count + n <= MaxN
      /\ elements' = [i \in Idx |-> IF i >= count /\ i < count + n
                                      THEN src[i - count + 1]
                                      ELSE block[i]]
      /\ capacity' = IF count + n <= capacity THEN capacity ELSE count + n
      /\ count' = count + n

(* reset(): free the block; nothing of it is readable any more. *)
reset ==
  /\ elements' = [i \in Idx |-> Garbage]
  /\ count' = 0
  /\ capacity' = 0

Next ==
  \/ \E n \in 1 .. MaxN : reserve(n)
  \/ \E v \in Values : push_back_reserved(v)
  \/ \E n \in 1 .. MaxN : pop_back(n)
  \/ \E src \in UNION {[1 .. k -> Values] : k \in 1 .. 2} : append_n(src)
  \/ reset

Spec == Init /\ [][Next]_vars

-----------------------------------------------------------------------------
(* Every variable holds a value of its modelled type. *)
TypeOK ==
  /\ elements \in [Idx -> Values \cup {Garbage}]
  /\ count \in 0 .. MaxN
  /\ capacity \in 0 .. MaxN

(* The array never exposes memory it does not own or that nothing wrote:   *)
(* size() stays within capacity() through reserve, append_n and            *)
(* push_back_reserved, and every element below size() holds a value that  *)
(* was stored there, across every reallocation.                            *)
ArraySafe ==
  /\ count <= capacity
  /\ \A i \in 0 .. count - 1 : elements[i] # Garbage

(* The array is the sequence its owner built: reserve and every            *)
(* reallocation leave the elements bit-identical (spec section 8), and     *)
(* append_n appends exactly its source.                                    *)
Elements == INSTANCE ElementSequence WITH contents <- Contents, MaxLen <- MaxN
SequenceRefinement == Elements!Spec
=============================================================================
