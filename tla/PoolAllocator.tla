---------------------------- MODULE PoolAllocator ----------------------------
(***************************************************************************)
(* What the slab pool promises its owner, without a free stack: once       *)
(* reserved, an allocation hands out some slot that is not in use, and it  *)
(* fails only when the pool was never reserved or every slot is in use.    *)
(* Which free slot is handed out is left open.                             *)
(***************************************************************************)
CONSTANTS Slots, NoSlot

VARIABLES
  ready,    \* the pool has been reserved
  inuse,    \* the slots handed out and not given back
  result    \* what the last allocation returned: a slot or NoSlot

Init ==
  /\ ready = FALSE
  /\ inuse = {}
  /\ result = NoSlot

Reserve ==
  /\ ~ready
  /\ ready' = TRUE
  /\ UNCHANGED <<inuse, result>>

(* Either some free slot is handed out, or, on a pool with none to give,  *)
(* the allocation fails.                                                   *)
Alloc ==
  /\ \/ \E s \in Slots \ inuse : ready /\ inuse' = inuse \cup {s} /\ result' = s
     \/ (~ready \/ inuse = Slots) /\ result' = NoSlot /\ UNCHANGED inuse
  /\ UNCHANGED ready

GiveBack(s) ==
  /\ s \in inuse
  /\ inuse' = inuse \ {s}
  /\ UNCHANGED <<ready, result>>

Next == Reserve \/ Alloc \/ \E s \in Slots : GiveBack(s)

Spec == Init /\ [][Next]_<<ready, inuse, result>>
=============================================================================
