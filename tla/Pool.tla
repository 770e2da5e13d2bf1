-------------------------------- MODULE Pool --------------------------------
(***************************************************************************)
(* The slab pool `pool_gt` of src/src/datastructures.hpp:185-258: one      *)
(* block of n elements followed by a stack of n free offsets, of which the *)
(* first free_count_ are free.  alloc pops the top offset, release pushes  *)
(* one back.  The elements themselves are default-constructed and never    *)
(* read by the pool, so they are left out; an element is its offset.       *)
(*                                                                         *)
(* The owner of the pool is the only caller and holds the offsets it got;  *)
(* `held` is that owner's set.  release is only called with an offset the  *)
(* owner holds: the code does not check it (spec 4.1), it is the caller's  *)
(* contract, so it is the guard.                                           *)
(***************************************************************************)
EXTENDS Integers, FiniteSets

CONSTANT N   \* the n passed to reserve(n)

ASSUME NAssumption == N \in Nat \ {0}

VARIABLES
  capacity,      \* capacity_
  free_count,    \* free_count_
  free_offsets,  \* free_offsets_[i] for i in 0 .. N - 1
  held,          \* offsets handed out by alloc and not yet released
  allocated      \* what alloc() returned last: an offset, or Null

vars == <<capacity, free_count, free_offsets, held, allocated>>

Offsets == 0 .. N - 1
Null == -1   \* nullptr

(* The offsets on the free stack. *)
Free == { free_offsets[i] : i \in 0 .. free_count - 1 }

(* Value-initialised members; the free-offset block does not exist yet and *)
(* its contents are modelled as offset 0.                                  *)
Init ==
  /\ capacity = 0
  /\ free_count = 0
  /\ free_offsets = [i \in Offsets |-> 0]
  /\ held = {}
  /\ allocated = Null

(* A plausible slip in reserve: std::iota started at 1.                   *)
reserve_iota_from_one ==
  /\ capacity = 0
  /\ capacity' = N
  /\ free_count' = N
  /\ free_offsets' = [i \in Offsets |-> i + 1]
  /\ UNCHANGED <<held, allocated>>

(* reserve(n): one malloc for the elements and the stack, every offset     *)
(* free, pushed by std::iota in increasing order.  Called once; its        *)
(* failure branch changes nothing.                                         *)
reserve ==
  /\ capacity = 0
  /\ capacity' = N
  /\ free_count' = N
  /\ free_offsets' = [i \in Offsets |-> i]
  /\ UNCHANGED <<held, allocated>>

(* Plausible slips in alloc: the top read without popping it, and the      *)
(* emptiness test off by one.                                              *)
alloc_no_pop ==
  /\ IF free_count > 0
       THEN /\ allocated' = free_offsets[free_count - 1]
            /\ held' = held \cup {allocated'}
            /\ UNCHANGED free_count
       ELSE /\ allocated' = Null
            /\ UNCHANGED <<free_count, held>>
  /\ UNCHANGED <<capacity, free_offsets>>

alloc_off_by_one ==
  /\ IF free_count > 1
       THEN /\ free_count' = free_count - 1
            /\ allocated' = free_offsets[free_count - 1]
            /\ held' = held \cup {allocated'}
       ELSE /\ allocated' = Null
            /\ UNCHANGED <<free_count, held>>
  /\ UNCHANGED <<capacity, free_offsets>>

(* A plausible slip in alloc: the offset read from the bottom of the free *)
(* stack, free_offsets_[0], while the count still shrinks.                *)
alloc_from_bottom ==
  /\ IF free_count > 0
       THEN /\ free_count' = free_count - 1
            /\ allocated' = free_offsets[0]
            /\ held' = held \cup {allocated'}
       ELSE /\ allocated' = Null
            /\ UNCHANGED <<free_count, held>>
  /\ UNCHANGED <<capacity, free_offsets>>

(* alloc(): pop the top free offset, or return nullptr when none is left, *)
(* as on a pool that was never reserved.                                   *)
alloc ==
  /\ IF free_count > 0
       THEN /\ free_count' = free_count - 1
            /\ allocated' = free_offsets[free_count - 1]
            /\ held' = held \cup {allocated'}
       ELSE /\ allocated' = Null
            /\ UNCHANGED <<free_count, held>>
  /\ UNCHANGED <<capacity, free_offsets>>

(* A plausible slip in release: free_offsets_[++free_count_] = ...          *)
release_pre_increment(p) ==
  /\ p \in held
  /\ free_offsets' = [free_offsets EXCEPT ![free_count + 1] = p]
  /\ free_count' = free_count + 1
  /\ held' = held \ {p}
  /\ UNCHANGED <<capacity, allocated>>

(* release(p): push p's offset on the free stack. *)
release(p) ==
  /\ p \in held
  /\ free_offsets' = [free_offsets EXCEPT ![free_count] = p]
  /\ free_count' = free_count + 1
  /\ held' = held \ {p}
  /\ UNCHANGED <<capacity, allocated>>

Next ==
  \/ reserve
  \/ alloc
  \/ \E p \in Offsets : release(p)

Spec == Init /\ [][Next]_vars

-----------------------------------------------------------------------------
(* Every variable holds a value of its modelled type. *)
TypeOK ==
  /\ capacity \in {0, N}
  /\ free_count \in 0 .. N
  /\ free_offsets \in [Offsets -> Offsets]
  /\ held \subseteq Offsets
  /\ allocated \in Offsets \cup {Null}

(* The parts of PoolConsistent: the free stack holds no offset twice, no   *)
(* offset is both free and handed out, and every offset of a reserved pool *)
(* is one or the other.                                                    *)
FreeDistinct ==
  \A i, j \in 0 .. free_count - 1 : i # j => free_offsets[i] # free_offsets[j]
FreeDisjointHeld == Free \cap held = {}
NoOffsetLost == capacity = N => Free \cup held = Offsets

(* Through every sequence of alloc and release the free stack and the      *)
(* owner's offsets partition the pool: alloc never hands out an offset     *)
(* that is already in use, and no offset leaks out of both.                *)
PoolConsistent == FreeDistinct /\ FreeDisjointHeld /\ NoOffsetLost

(* On a reserved pool alloc returns nullptr exactly when all N offsets are *)
(* handed out (spec section 8: after N successful allocs the next returns  *)
(* null, and it succeeds again after any release).                         *)
NullOnlyWhenExhausted ==
  [][ alloc /\ capacity = N => (allocated' = Null <=> Cardinality(held) = N) ]_vars

(* The pool implements the abstract allocator of PoolAllocator: a slot is *)
(* in use when the owner holds its offset, the pool is ready once         *)
(* reserve succeeded, and alloc's result is the allocator's.  So alloc    *)
(* never hands out an offset in use and fails only on a pool that is      *)
(* unreserved or exhausted, whatever the order of allocs and releases.    *)
Allocator == INSTANCE PoolAllocator
               WITH Slots <- Offsets, NoSlot <- Null,
                    ready <- (capacity = N), inuse <- held, result <- allocated
AllocatorRefinement == Allocator!Spec

=============================================================================
