------------------------------- MODULE MCPool -------------------------------
(***************************************************************************)
(* Model-checking instance of Pool, with a history variable recording the  *)
(* offset the previous step released.                                      *)
(***************************************************************************)
EXTENDS Pool

VARIABLE released   \* the offset the last step released, or Null

mcvars == <<vars, released>>

MCInit == Init /\ released = Null

MCNext ==
  \/ (reserve \/ alloc) /\ released' = Null
  \/ \E p \in Offsets : release(p) /\ released' = p

MCSpec == MCInit /\ [][MCNext]_mcvars

(* Offsets are reused last-released-first: an alloc right after release(p) *)
(* returns p again (spec section 8).                                       *)
ReuseLastReleased ==
  [][ released # Null /\ alloc => allocated' = released ]_mcvars
=============================================================================
