-------------------------- MODULE RoundRobinProofs --------------------------
(***************************************************************************)
(* Proofs about the connection ring, for every capacity and every set of   *)
(* descriptors.                                                            *)
(***************************************************************************)
EXTENDS RoundRobin, SequenceTheorems, TLAPS

USE CapacityAssumption, BadDescriptorAssumption

(* Each operation keeps every variable in its type; poll's cursor stays a  *)
(* slot because the live count never exceeds the capacity.                 *)
THEOREM TypeCorrect == Spec => []TypeOK
<1>1. Init => TypeOK
  BY DEF Init, TypeOK, Slots, NoSlot
<1>2. TypeOK /\ [Next]_vars => TypeOK'
  <2> SUFFICES ASSUME TypeOK, [Next]_vars PROVE TypeOK'
    OBVIOUS
  <2>1. CASE alloc
    BY <2>1 DEF alloc, TypeOK
  <2>2. CASE drop_tail
    BY <2>2 DEF drop_tail, TypeOK, Slots
  <2>3. ASSUME NEW d \in Descriptors, push_ahead(d) PROVE TypeOK'
    BY <2>3 DEF push_ahead, TypeOK, Slots
  <2>4. CASE poll
    BY <2>4 DEF poll, TypeOK, Slots, NoSlot
  <2>5. CASE UNCHANGED vars
    BY <2>5 DEF vars, TypeOK
  <2>6. QED
    BY <2>1, <2>2, <2>3, <2>4, <2>5 DEF Next
<1>3. QED
  BY <1>1, <1>2, PTL DEF Spec
-----------------------------------------------------------------------------
(* Arithmetic modulo the capacity, for sums of two slot indices: the      *)
(* reduction is one subtraction, stepping a slot then adding k is adding   *)
(* k + 1, and the count slots from one index are pairwise different while  *)
(* count does not exceed the capacity.                                     *)
LEMMA ModSmall ==
  ASSUME NEW C \in Nat \ {0}, NEW a \in 0 .. 2 * C - 1
  PROVE  a % C = IF a < C THEN a ELSE a - C
<1>1. CASE a < C
  BY <1>1, SMT
<1>2. CASE ~(a < C)
  BY <1>2, SMT
<1>3. QED
  BY <1>1, <1>2

LEMMA ModStep ==
  ASSUME NEW C \in Nat \ {0}, NEW o \in 0 .. C - 1, NEW k \in 0 .. C - 1
  PROVE  (((o + 1) % C) + k) % C = (o + 1 + k) % C
<1>1. CASE o + 1 < C
  <2>1. o + 1 \in 0 .. 2 * C - 1
    OBVIOUS
  <2>2. (o + 1) % C = o + 1
    BY <1>1, <2>1, ModSmall
  <2>3. QED
    BY <2>2
<1>2. CASE o + 1 = C
  <2>1. (o + 1) % C = 0
    BY <1>2, ModSmall
  <2>2. (o + 1 + k) % C = k /\ k % C = k
    BY <1>2, ModSmall
  <2>3. QED
    BY <2>1, <2>2
<1>3. QED
  BY <1>1, <1>2

LEMMA ModDistinct ==
  ASSUME NEW C \in Nat \ {0}, NEW o \in 0 .. C - 1,
         NEW k1 \in 0 .. C - 1, NEW k2 \in 0 .. C - 1, k1 # k2
  PROVE  (o + k1) % C # (o + k2) % C
BY ModSmall

IInv == TypeOK /\ RingConsistent

LEMMA InitIInv == Init => IInv
BY DEF Init, IInv, TypeOK, RingConsistent, CountBounded, CursorsAgree, LiveDistinct, NoBadLive, Window, Live, Slots, NoSlot

LEMMA AllocIInv == IInv /\ alloc => IInv'
<1> SUFFICES ASSUME IInv, alloc PROVE IInv'
  OBVIOUS
<1>1. count = 0 /\ count' = 0
  BY DEF IInv, TypeOK, RingConsistent, CountBounded, CursorsAgree, LiveDistinct, NoBadLive, alloc
<1>2. Window' = {}
  BY <1>1 DEF Window
<1>3. TypeOK'
  BY DEF IInv, TypeOK, alloc
<1>4. QED
  BY <1>1, <1>2, <1>3 DEF IInv, TypeOK, RingConsistent, CountBounded, CursorsAgree, LiveDistinct, NoBadLive, alloc, Live

LEMMA PollIInv == IInv /\ poll => IInv'
<1> SUFFICES ASSUME IInv, poll PROVE IInv'
  OBVIOUS
<1>1. TypeOK'
  BY TypeCorrect DEF IInv, TypeOK, poll, Slots, NoSlot
<1>2. QED
  BY <1>1 DEF IInv, RingConsistent, CountBounded, CursorsAgree, LiveDistinct, NoBadLive, poll, Window, Live

LEMMA PushIInv ==
  ASSUME NEW d \in Descriptors
  PROVE  IInv /\ push_ahead(d) => IInv'
<1> SUFFICES ASSUME IInv, push_ahead(d) PROVE IInv'
  OBVIOUS
<1> USE DEF IInv
<1>1. capacity = Capacity /\ count < Capacity /\ idx_oldest \in Slots
  BY DEF TypeOK, push_ahead
<1>2. TypeOK'
  BY DEF TypeOK, push_ahead, Slots
<1>3. idx_newest \notin Window
  <2> SUFFICES ASSUME NEW k \in 0 .. count - 1,
                      idx_newest = (idx_oldest + k) % Capacity
               PROVE  FALSE
    BY DEF Window
  <2>1. idx_newest = (idx_oldest + count) % Capacity
    BY DEF RingConsistent, CountBounded, CursorsAgree, LiveDistinct, NoBadLive
  <2>2. QED
    BY <1>1, <2>1, ModDistinct DEF TypeOK, Slots
<1>4. Window' \subseteq Window \cup {idx_newest}
  <2> SUFFICES ASSUME NEW k \in 0 .. count' - 1
               PROVE  (idx_oldest' + k) % Capacity \in Window \cup {idx_newest}
    BY DEF Window
  <2>1. CASE k < count
    BY <2>1 DEF Window, push_ahead, TypeOK
  <2>2. CASE k = count
    BY <2>2 DEF push_ahead, RingConsistent, CursorsAgree
  <2>3. QED
    BY <2>1, <2>2 DEF push_ahead, TypeOK
<1>5. \A i \in Window : circle'[i] = circle[i]
  BY <1>3 DEF push_ahead, TypeOK
<1>6. circle'[idx_newest] = d
  BY DEF push_ahead, TypeOK, Slots
<1>7. CountBounded' /\ CursorsAgree'
  BY <1>1 DEF push_ahead, RingConsistent, CountBounded, CursorsAgree, LiveDistinct, NoBadLive, TypeOK, Slots
<1>8. LiveDistinct'
  BY <1>3, <1>4, <1>5, <1>6 DEF push_ahead, RingConsistent, CountBounded, CursorsAgree, LiveDistinct, NoBadLive, Live
<1>9. NoBadLive'
  BY <1>4, <1>5, <1>6, BadDescriptorAssumption DEF RingConsistent, CountBounded, CursorsAgree, LiveDistinct, NoBadLive, Live
<1>10. QED
  BY <1>2, <1>7, <1>8, <1>9 DEF RingConsistent, CountBounded, CursorsAgree, LiveDistinct, NoBadLive

LEMMA DropIInv == IInv /\ drop_tail => IInv'
<1> SUFFICES ASSUME IInv, drop_tail PROVE IInv'
  OBVIOUS
<1> USE DEF IInv
<1>1. capacity = Capacity /\ count \in 1 .. Capacity /\ idx_oldest \in Slots
  BY DEF TypeOK, RingConsistent, drop_tail
<1>2. TypeOK'
  BY DEF TypeOK, drop_tail, Slots
<1>3. \A k \in 0 .. count' - 1 :
        (idx_oldest' + k) % Capacity = (idx_oldest + (k + 1)) % Capacity
  <2> SUFFICES ASSUME NEW k \in 0 .. count' - 1
               PROVE  (idx_oldest' + k) % Capacity = (idx_oldest + (k + 1)) % Capacity
    OBVIOUS
  <2>1. k \in 0 .. Capacity - 1 /\ idx_oldest' = (idx_oldest + 1) % Capacity
    BY <1>1 DEF drop_tail
  <2>2. QED
    BY <1>1, <2>1, ModStep DEF Slots
<1>4. Window' \subseteq Window \ {idx_oldest}
  <2> SUFFICES ASSUME NEW k \in 0 .. count' - 1
               PROVE  (idx_oldest' + k) % Capacity \in Window \ {idx_oldest}
    BY DEF Window
  <2>1. (idx_oldest' + k) % Capacity \in Window
    BY <1>1, <1>3 DEF Window, drop_tail
  <2>0. k + 1 \in 0 .. Capacity - 1 /\ 0 \in 0 .. Capacity - 1 /\ k + 1 # 0
    BY <1>1 DEF drop_tail
  <2>2. (idx_oldest + (k + 1)) % Capacity # (idx_oldest + 0) % Capacity
    BY <1>1, <2>0, ModDistinct DEF Slots
  <2>3. (idx_oldest + 0) % Capacity = idx_oldest
    BY <1>1 DEF Slots
  <2>4. QED
    BY <1>3, <2>1, <2>2, <2>3
<1>5. \A i \in Window' : circle'[i] = circle[i]
  BY <1>4 DEF drop_tail, TypeOK
<1>6. CountBounded' /\ CursorsAgree'
  <2>1. count - 1 \in 0 .. Capacity - 1
    BY <1>1
  <2>2. idx_newest = (idx_oldest + 1 + (count - 1)) % Capacity
    BY <1>1 DEF RingConsistent, CursorsAgree, Slots
  <2>3. (((idx_oldest + 1) % Capacity) + (count - 1)) % Capacity
          = (idx_oldest + 1 + (count - 1)) % Capacity
    BY <1>1, <2>1, ModStep DEF Slots
  <2>4. CursorsAgree'
    BY <1>1, <2>2, <2>3 DEF drop_tail, CursorsAgree
  <2>5. CountBounded'
    BY <1>1 DEF drop_tail, RingConsistent, CountBounded
  <2>6. QED
    BY <2>4, <2>5
<1>7. LiveDistinct' /\ NoBadLive'
  BY <1>4, <1>5 DEF RingConsistent, CountBounded, CursorsAgree, LiveDistinct, NoBadLive, Live
<1>8. QED
  BY <1>2, <1>6, <1>7 DEF RingConsistent, CountBounded, CursorsAgree, LiveDistinct, NoBadLive

LEMMA NextIInv == IInv /\ [Next]_vars => IInv'
<1> SUFFICES ASSUME IInv, [Next]_vars PROVE IInv'
  OBVIOUS
<1>1. CASE alloc
  BY <1>1, AllocIInv
<1>2. CASE drop_tail
  BY <1>2, DropIInv
<1>3. CASE \E d \in Descriptors : push_ahead(d)
  BY <1>3, PushIInv
<1>4. CASE poll
  BY <1>4, PollIInv
<1>5. CASE UNCHANGED vars
  BY <1>5 DEF vars, IInv, TypeOK, RingConsistent, CountBounded, CursorsAgree, LiveDistinct, NoBadLive, Window, Live
<1>6. QED
  BY <1>1, <1>2, <1>3, <1>4, <1>5 DEF Next

(* The ring stays consistent (RingConsistent) under every sequence of      *)
(* alloc, push_ahead, drop_tail and poll that honours the reactor's side   *)
(* of the contract, whatever the capacity.                                 *)
THEOREM RingConsistency == Spec => []RingConsistent
<1>1. Init => IInv
  BY InitIInv
<1>2. IInv /\ [Next]_vars => IInv'
  BY NextIInv
<1>3. IInv => RingConsistent
  BY DEF IInv
<1>4. QED
  BY <1>1, <1>2, <1>3, PTL DEF Spec
-----------------------------------------------------------------------------
(* The refinement of ConnectionQueue: Connections, the live descriptors    *)
(* oldest first, is the abstract queue.  alloc and poll leave it alone,    *)
(* push_ahead appends and drop_tail removes the head.                      *)

(* Under the invariant Connections is a sequence of count descriptors,    *)
(* its k-th element is at slot (idx_oldest + k - 1) % Capacity, and the    *)
(* descriptors it holds are the live ones.                                 *)
Cells == Descriptors \cup {BadDescriptor}

LEMMA ConnectionsShape ==
  IInv => /\ Connections \in Seq(Cells)
          /\ DOMAIN Connections = 1 .. count
          /\ Len(Connections) = count
          /\ Queue!Open = Live
<1>. SUFFICES ASSUME IInv PROVE /\ Connections \in Seq(Cells)
                                /\ DOMAIN Connections = 1 .. count
                                /\ Len(Connections) = count
                                /\ Queue!Open = Live
  OBVIOUS
<1>1. count \in Nat
  BY DEF IInv, TypeOK
<1>2. Connections \in Seq(Cells)
  BY <1>1 DEF IInv, TypeOK, Connections, Slots, Cells
<1>3. Queue!Open = Live
  <2>1. ASSUME NEW k \in 1 .. count
        PROVE  Connections[k] \in Live
    BY <1>1 DEF Connections, Live, Window
  <2>2. ASSUME NEW i \in Window PROVE circle[i] \in Queue!Open
    <3>1. PICK k \in 0 .. count - 1 : i = (idx_oldest + k) % Capacity
      BY DEF Window
    <3>2. k + 1 \in 1 .. count /\ Connections[k + 1] = circle[i]
      BY <1>1, <3>1 DEF Connections
    <3>. QED
      BY <1>1, <3>2 DEF Connections, Queue!Open
  <2>3. ASSUME NEW k \in 1 .. count PROVE Connections[k] \in Live
    BY <2>1
  <2>4. \A x \in Queue!Open : x \in Live
    BY <2>3, <1>1 DEF Queue!Open, Connections
  <2>5. \A x \in Live : x \in Queue!Open
    BY <2>2 DEF Live
  <2>. QED
    BY <2>4, <2>5
<1>. QED
  BY <1>1, <1>2, <1>3 DEF Connections

LEMMA InitRefines == Init => Queue!Init
BY DEF Init, Queue!Init, Connections

LEMMA AllocRefines == IInv /\ alloc => UNCHANGED <<Connections, evicted>>
<1> SUFFICES ASSUME IInv, alloc PROVE UNCHANGED <<Connections, evicted>>
  OBVIOUS
<1>1. count = 0 /\ count' = 0
  BY DEF IInv, TypeOK, RingConsistent, CountBounded, alloc
<1>. QED
  BY <1>1 DEF alloc, Connections

LEMMA PollRefines == poll => UNCHANGED <<Connections, evicted>>
BY DEF poll, Connections

LEMMA PushRefines ==
  ASSUME NEW d \in Descriptors
  PROVE  IInv /\ push_ahead(d) => Queue!Accept(d)
<1> SUFFICES ASSUME IInv, push_ahead(d) PROVE Queue!Accept(d)
  OBVIOUS
<1> USE DEF IInv
<1>1. /\ capacity = Capacity /\ count < Capacity /\ idx_oldest \in Slots
      /\ count \in Nat /\ d \notin Live
  BY DEF TypeOK, push_ahead
<1>2. /\ DOMAIN Connections = 1 .. count /\ Len(Connections) = count
      /\ Queue!Open = Live
  BY ConnectionsShape
<1>3. idx_newest = (idx_oldest + count) % Capacity
  BY DEF RingConsistent, CursorsAgree
<1>4. /\ circle' = [circle EXCEPT ![idx_newest] = d]
      /\ count' = count + 1 /\ idx_oldest' = idx_oldest
      /\ evicted' = evicted
  BY DEF push_ahead
<1>5. ASSUME NEW k \in 1 .. count
      PROVE  Connections'[k] = Connections[k]
  <2>1. (idx_oldest + (k - 1)) % Capacity # (idx_oldest + count) % Capacity
    BY <1>1, ModDistinct DEF Slots
  <2>. QED
    BY <1>1, <1>3, <1>4, <2>1 DEF Connections, TypeOK, Slots
<1>6. Connections'[count + 1] = d
  BY <1>1, <1>3, <1>4 DEF Connections, TypeOK, Slots
<1>7. Connections \in Seq(Cells)
  BY ConnectionsShape
<1>8. Connections' \in Seq(Cells) /\ Len(Connections') = count + 1
  BY <1>1, <1>4 DEF TypeOK, Connections, Cells, Slots
<1>9. /\ Append(Connections, d) \in Seq(Cells)
      /\ Len(Append(Connections, d)) = count + 1
      /\ \A k \in 1 .. count : Append(Connections, d)[k] = Connections[k]
      /\ Append(Connections, d)[count + 1] = d
  BY <1>2, <1>7, AppendProperties DEF Cells
<1>10. \A k \in 1 .. count + 1 : Connections'[k] = Append(Connections, d)[k]
  BY <1>1, <1>5, <1>6, <1>9
<1>11. Connections' = Append(Connections, d)
  BY <1>8, <1>9, <1>10, SeqEqual
<1>. QED
  BY <1>1, <1>2, <1>4, <1>11 DEF Queue!Accept

LEMMA DropRefines == IInv /\ drop_tail => Queue!Evict
<1> SUFFICES ASSUME IInv, drop_tail PROVE Queue!Evict
  OBVIOUS
<1> USE DEF IInv
<1>1. capacity = Capacity /\ count \in 1 .. Capacity /\ idx_oldest \in Slots
  BY DEF TypeOK, RingConsistent, CountBounded, drop_tail
<1>2. /\ DOMAIN Connections = 1 .. count /\ Len(Connections) = count
  BY ConnectionsShape
<1>3. /\ circle' = [circle EXCEPT ![idx_oldest] = BadDescriptor]
      /\ idx_oldest' = (idx_oldest + 1) % Capacity
      /\ count' = count - 1
      /\ evicted' = circle[idx_oldest]
  BY <1>1 DEF drop_tail
<1>4. Connections # << >> /\ Head(Connections) = circle[idx_oldest]
  <2>1. Connections \in Seq(Cells)
    BY ConnectionsShape
  <2>2. Connections # << >>
    BY <1>1, <1>2
  <2>3. Connections[1] = circle[idx_oldest]
    BY <1>1 DEF Connections, Slots
  <2>. QED
    BY <2>1, <2>2, <2>3
<1>5. ASSUME NEW k \in 1 .. count - 1
      PROVE  Connections'[k] = Connections[k + 1]
  <2>1. k - 1 \in 0 .. Capacity - 1 /\ k \in 1 .. Capacity - 1
    BY <1>1
  <2>2. (idx_oldest' + (k - 1)) % Capacity = (idx_oldest + 1 + (k - 1)) % Capacity
    BY <1>1, <1>3, <2>1, ModStep DEF Slots
  <2>3. (idx_oldest + k) % Capacity # (idx_oldest + 0) % Capacity
    BY <1>1, <2>1, ModDistinct DEF Slots
  <2>4. (idx_oldest + 0) % Capacity = idx_oldest
    BY <1>1 DEF Slots
  <2>7. k \in 1 .. count' /\ idx_oldest' \in Nat
    BY <1>1, <1>3 DEF Slots
  <2>8. Connections'[k] = circle'[(idx_oldest' + (k - 1)) % Capacity]
    BY <2>7 DEF Connections
  <2>9. idx_oldest + 1 + (k - 1) = idx_oldest + k
    BY <1>1 DEF Slots
  <2>5. Connections'[k] = circle'[(idx_oldest + k) % Capacity]
    BY <2>2, <2>8, <2>9
  <2>6. circle'[(idx_oldest + k) % Capacity] = circle[(idx_oldest + k) % Capacity]
    BY <1>1, <1>3, <2>3, <2>4 DEF TypeOK, Slots
  <2>. QED
    BY <1>1, <2>5, <2>6 DEF Connections
<1>6. Connections \in Seq(Cells)
  BY ConnectionsShape
<1>7. /\ Tail(Connections) \in Seq(Cells)
      /\ Len(Tail(Connections)) = count - 1
      /\ \A k \in 1 .. count - 1 : Tail(Connections)[k] = Connections[k + 1]
  BY <1>2, <1>4, <1>6, HeadTailProperties
<1>8. Connections' \in Seq(Cells) /\ Len(Connections') = count - 1
  BY <1>1, <1>3 DEF TypeOK, Connections, Cells, Slots
<1>9. Connections' = Tail(Connections)
  BY <1>5, <1>7, <1>8, SeqEqual
<1>. QED
  BY <1>3, <1>4, <1>9 DEF Queue!Evict

LEMMA NextRefines ==
  IInv /\ [Next]_vars => [Queue!Next]_<<Connections, evicted>>
<1> SUFFICES ASSUME IInv, [Next]_vars PROVE [Queue!Next]_<<Connections, evicted>>
  OBVIOUS
<1>1. CASE alloc
  BY <1>1, AllocRefines
<1>2. CASE drop_tail
  BY <1>2, DropRefines DEF Queue!Next
<1>3. CASE \E d \in Descriptors : push_ahead(d)
  BY <1>3, PushRefines DEF Queue!Next
<1>4. CASE poll
  BY <1>4, PollRefines
<1>5. CASE UNCHANGED vars
  BY <1>5 DEF vars, Connections
<1>. QED
  BY <1>1, <1>2, <1>3, <1>4, <1>5 DEF Next

(* The ring is a FIFO of open connections for every capacity: push_ahead  *)
(* appends a descriptor that is not open, drop_tail evicts and returns     *)
(* the one pushed earliest among those still live, and alloc and poll      *)
(* change neither (datastructures.hpp:289-320).                            *)
THEOREM RingRefinesQueue == Spec => QueueRefinement
<1>1. Init => Queue!Init
  BY InitRefines
<1>2. IInv /\ [Next]_vars => [Queue!Next]_<<Connections, evicted>>
  BY NextRefines
<1>3. Init => IInv
  BY InitIInv
<1>4. IInv /\ [Next]_vars => IInv'
  BY NextIInv
<1>. QED
  BY <1>1, <1>2, <1>3, <1>4, PTL DEF Spec, QueueRefinement, Queue!Spec
-----------------------------------------------------------------------------
(* When drop_tail evicts the slot the poll cursor sits on and a connection *)
(* is left, the cursor is stepped to the new oldest slot, which is live.   *)
LEMMA DropKeepsCursor ==
  IInv => (drop_tail /\ idx_to_poll = idx_oldest /\ count >= 2
             => idx_to_poll' \in Window')
<1> SUFFICES ASSUME IInv, drop_tail, idx_to_poll = idx_oldest, count >= 2
             PROVE  idx_to_poll' \in Window'
  OBVIOUS
<1>1. capacity = Capacity /\ count \in 2 .. Capacity /\ idx_oldest \in Slots
  BY DEF IInv, TypeOK, RingConsistent, CountBounded, drop_tail
<1>2. /\ idx_to_poll' = (idx_oldest + 1) % Capacity
      /\ idx_oldest' = (idx_oldest + 1) % Capacity
      /\ count' = count - 1
  BY <1>1 DEF drop_tail
<1>3. idx_oldest' \in Nat /\ (idx_oldest' + 0) % Capacity = idx_oldest'
  BY <1>1, <1>2 DEF Slots
<1>4. 0 \in 0 .. count' - 1
  BY <1>1, <1>2
<1>. QED
  BY <1>2, <1>3, <1>4 DEF Window

(* drop_tail never leaves the poll cursor on the slot it just killed while *)
(* another connection is open (datastructures.hpp:303-305), for every     *)
(* capacity.                                                               *)
THEOREM DropTailCursorLive == Spec => DropTailKeepsCursorLive
<1>1. Init => IInv
  BY InitIInv
<1>2. IInv /\ [Next]_vars => IInv'
  BY NextIInv
<1>3. IInv => (drop_tail /\ idx_to_poll = idx_oldest /\ count >= 2
                 => idx_to_poll' \in Window')
  BY DropKeepsCursor
<1>. QED
  BY <1>1, <1>2, <1>3, PTL DEF Spec, DropTailKeepsCursorLive
=============================================================================
