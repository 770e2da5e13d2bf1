--------------------------- MODULE ConnectionQueue ---------------------------
(***************************************************************************)
(* What the connection ring promises the reactor, without slots or         *)
(* cursors: a bounded FIFO of open descriptors.  Accepting appends a       *)
(* descriptor that is not already open, evicting removes and reports the   *)
(* oldest one.  Polling is invisible at this level.                        *)
(***************************************************************************)
EXTENDS Naturals, Sequences

CONSTANTS Capacity, Descriptors, BadDescriptor

VARIABLES
  queue,    \* the open descriptors, oldest first
  evicted   \* the descriptor reported by the last eviction

Open == { queue[k] : k \in DOMAIN queue }

Init ==
  /\ queue = << >>
  /\ evicted = BadDescriptor

Accept(d) ==
  /\ Len(queue) < Capacity /\ d \notin Open
  /\ queue' = Append(queue, d)
  /\ UNCHANGED evicted

Evict ==
  /\ queue # << >>
  /\ evicted' = Head(queue)
  /\ queue' = Tail(queue)

Next == Evict \/ \E d \in Descriptors : Accept(d)

Spec == Init /\ [][Next]_<<queue, evicted>>
=============================================================================
