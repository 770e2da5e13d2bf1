----------------------------- MODULE RoundRobin -----------------------------
(***************************************************************************)
(* The connection ring `round_robin_gt` of src/src/datastructures.hpp      *)
(* (an identical copy lives in src/src/shared.hpp): a fixed-capacity       *)
(* circular array of connection records with three cursors, the oldest     *)
(* slot, the next slot to write and the next slot to poll, and a live      *)
(* count.  One reactor thread drives it, so every operation is one atomic  *)
(* step.  The reactor's side of the contract (no push on a full ring, no   *)
(* drop or poll on an empty one, no descriptor pushed twice while it is    *)
(* open) is part of each guard; everything else is the code's.             *)
(*                                                                         *)
(* A connection record is abstracted to its descriptor: push_ahead also    *)
(* zeroes the record's skipped-cycle and response counters, which no       *)
(* property here tells apart.                                              *)
(***************************************************************************)
EXTENDS Naturals, Sequences

CONSTANTS
  Capacity,       \* the n passed to alloc(n)
  Descriptors,    \* descriptors the reactor may hand to push_ahead
  BadDescriptor,  \* bad_descriptor_k, the sentinel -1
  SizeMax         \* the largest std::size_t, for the wrap of idx_newest_ - 1

ASSUME CapacityAssumption == Capacity \in Nat \ {0}
ASSUME BadDescriptorAssumption == BadDescriptor \notin Descriptors
ASSUME SizeMaxAssumption == SizeMax \in Nat /\ SizeMax >= Capacity

VARIABLES
  capacity,     \* capacity_: 0 until alloc succeeds
  circle,       \* circle_[i].descriptor for every slot i
  count,        \* count_
  idx_newest,   \* idx_newest_: the slot push_ahead writes next
  idx_oldest,   \* idx_oldest_: the slot drop_tail evicts next
  idx_to_poll,  \* idx_to_poll_
  polled,       \* the slot index poll() returned last (NoSlot before any)
  evicted       \* the descriptor drop_tail() returned last

vars == <<capacity, circle, count, idx_newest, idx_oldest, idx_to_poll,
          polled, evicted>>

Slots == 0 .. Capacity - 1
NoSlot == Capacity   \* not a slot: "poll has not been called yet"

(* The slots that hold live connections, oldest first, and their contents. *)
Window == { (idx_oldest + k) % Capacity : k \in 0 .. count - 1 }
Live == { circle[i] : i \in Window }

(* The live descriptors in insertion order, oldest first. *)
Connections == [k \in 1 .. count |-> circle[(idx_oldest + k - 1) % Capacity]]

-----------------------------------------------------------------------------
(* The object is value-initialised: every member is zero, circle_ null.    *)
Init ==
  /\ capacity = 0
  /\ circle = [i \in Slots |-> BadDescriptor]
  /\ count = 0
  /\ idx_newest = 0
  /\ idx_oldest = 0
  /\ idx_to_poll = 0
  /\ polled = NoSlot
  /\ evicted = BadDescriptor

(* alloc(n): malloc of n records, never initialised, so every descriptor   *)
(* in the block is whatever the memory held.  The reactor calls it once;   *)
(* its failure branch (return false) changes nothing.                      *)
alloc ==
  /\ capacity = 0
  /\ capacity' = Capacity
  /\ circle' \in [Slots -> Descriptors \cup {BadDescriptor}]
  /\ UNCHANGED <<count, idx_newest, idx_oldest, idx_to_poll, polled, evicted>>

(* Plausible slips in drop_tail, each checked to break a property: the     *)
(* oldest cursor not advanced, the poll cursor not stepped off the dead     *)
(* slot, and the sentinel written before the old descriptor is read.       *)
drop_tail_keeps_oldest ==
  /\ capacity > 0 /\ count > 0
  /\ evicted' = circle[idx_oldest]
  /\ circle' = [circle EXCEPT ![idx_oldest] = BadDescriptor]
  /\ idx_to_poll' = IF idx_to_poll = idx_oldest
                      THEN (idx_to_poll + 1) % capacity
                      ELSE idx_to_poll
  /\ count' = count - 1
  /\ UNCHANGED <<capacity, idx_newest, idx_oldest, polled>>

drop_tail_cursor_stays ==
  /\ capacity > 0 /\ count > 0
  /\ evicted' = circle[idx_oldest]
  /\ circle' = [circle EXCEPT ![idx_oldest] = BadDescriptor]
  /\ idx_oldest' = (idx_oldest + 1) % capacity
  /\ count' = count - 1
  /\ UNCHANGED <<capacity, idx_newest, idx_to_poll, polled>>

drop_tail_returns_sentinel ==
  /\ capacity > 0 /\ count > 0
  /\ evicted' = BadDescriptor
  /\ circle' = [circle EXCEPT ![idx_oldest] = BadDescriptor]
  /\ idx_to_poll' = IF idx_to_poll = idx_oldest
                      THEN (idx_to_poll + 1) % capacity
                      ELSE idx_to_poll
  /\ idx_oldest' = (idx_oldest + 1) % capacity
  /\ count' = count - 1
  /\ UNCHANGED <<capacity, idx_newest, polled>>

(* drop_tail(): mark the oldest slot dead, step the poll cursor off it,    *)
(* advance the oldest cursor and return the evicted descriptor.            *)
drop_tail ==
  /\ capacity > 0 /\ count > 0
  /\ evicted' = circle[idx_oldest]
  /\ circle' = [circle EXCEPT ![idx_oldest] = BadDescriptor]
  /\ idx_to_poll' = IF idx_to_poll = idx_oldest
                      THEN (idx_to_poll + 1) % capacity
                      ELSE idx_to_poll
  /\ idx_oldest' = (idx_oldest + 1) % capacity
  /\ count' = count - 1
  /\ UNCHANGED <<capacity, idx_newest, polled>>

(* A plausible slip in push_ahead: the write cursor not wrapped.           *)
push_ahead_unwrapped(new_) ==
  /\ capacity > 0 /\ count < capacity /\ new_ \notin Live
  /\ circle' = [circle EXCEPT ![idx_newest] = new_]
  /\ idx_newest' = idx_newest + 1
  /\ count' = count + 1
  /\ UNCHANGED <<capacity, idx_oldest, idx_to_poll, polled, evicted>>

(* push_ahead(new_): write the new connection at idx_newest_, advance it.  *)
push_ahead(new_) ==
  /\ capacity > 0 /\ count < capacity /\ new_ \notin Live
  /\ circle' = [circle EXCEPT ![idx_newest] = new_]
  /\ idx_newest' = (idx_newest + 1) % capacity
  /\ count' = count + 1
  /\ UNCHANGED <<capacity, idx_oldest, idx_to_poll, polled, evicted>>

(* poll(): the following index is taken modulo the live count, wrapped to  *)
(* the oldest slot when it meets idx_newest_, and the record returned is   *)
(* the one at the cursor after it moved.                                   *)
poll ==
  /\ capacity > 0 /\ count > 0
  /\ LET following == (idx_to_poll + 1) % count
     IN  idx_to_poll' = IF following = idx_newest THEN idx_oldest ELSE following
  /\ polled' = idx_to_poll'
  /\ UNCHANGED <<capacity, circle, count, idx_newest, idx_oldest, evicted>>

(* head(): circle_[idx_newest_ - 1], the subtraction in std::size_t.        *)
head == (idx_newest + SizeMax) % (SizeMax + 1)

Next ==
  \/ alloc
  \/ drop_tail
  \/ \E d \in Descriptors : push_ahead(d)
  \/ poll

Spec == Init /\ [][Next]_vars

-----------------------------------------------------------------------------
(* Every variable holds a value of its C++ type's modelled range.          *)
TypeOK ==
  /\ capacity \in {0, Capacity}
  /\ circle \in [Slots -> Descriptors \cup {BadDescriptor}]
  /\ count \in 0 .. Capacity
  /\ idx_newest \in Slots
  /\ idx_oldest \in Slots
  /\ idx_to_poll \in Slots
  /\ polled \in Slots \cup {NoSlot}
  /\ evicted \in Descriptors \cup {BadDescriptor}

(* The parts of RingConsistent: the live count fits the block, the write  *)
(* cursor is count slots past the oldest, the live slots hold pairwise     *)
(* different descriptors, and none of them holds the sentinel.             *)
CountBounded == count <= capacity
CursorsAgree == idx_newest = (idx_oldest + count) % Capacity
LiveDistinct == \A i, j \in Window : i # j => circle[i] # circle[j]
NoBadLive == BadDescriptor \notin Live

(* The ring's cursors stay consistent through every interleaving of        *)
(* push_ahead and drop_tail (datastructures.hpp:301-320): the live slots   *)
(* are exactly the count slots from idx_oldest_ up to idx_newest_, and     *)
(* each holds a different open descriptor, so no connection was lost,     *)
(* duplicated or overwritten by a wrap of either cursor.                   *)
RingConsistent == CountBounded /\ CursorsAgree /\ LiveDistinct /\ NoBadLive

(* drop_tail never leaves the poll cursor on the slot it just killed: when *)
(* the cursor sat on the oldest slot and another connection is left, the   *)
(* cursor ends on a live slot (spec section 8, "ring eviction safety").    *)
DropTailKeepsCursorLive ==
  [][ drop_tail /\ idx_to_poll = idx_oldest /\ count >= 2
        => idx_to_poll' \in Window' ]_vars

(* The ring is a FIFO of open connections: drop_tail always evicts the     *)
(* connection pushed earliest among those still live.                      *)
Queue == INSTANCE ConnectionQueue WITH queue <- Connections
QueueRefinement == Queue!Spec

(* Every record poll() hands to the reactor is a live connection (spec     *)
(* sections 3 and 4.2: the cursor never parks on a dead slot).             *)
PolledIsLive == [][ poll => polled' \in Window ]_vars

(* No open connection is starved: every descriptor that stays open is      *)
(* eventually the record poll() returns (spec glossary: the ring           *)
(* schedules "fair, cyclic service order among live connections").        *)
NoStarvation ==
  \A d \in Descriptors :
    [](d \in Live => <>(d \notin Live \/ (polled \in Slots /\ circle[polled] = d)))

(* head() returns the newest live record (spec section 4.2).               *)
HeadIsNewest == count > 0 => head = (idx_oldest + count - 1) % Capacity
=============================================================================
