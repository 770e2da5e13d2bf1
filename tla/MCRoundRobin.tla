---------------------------- MODULE MCRoundRobin ----------------------------
(***************************************************************************)
(* Model-checking instance of RoundRobin: three descriptors, a bad one,    *)
(* a narrower size_t, and the fairness of the reactor's polling loop.      *)
(***************************************************************************)
EXTENDS RoundRobin, TLC

CONSTANTS d1, d2, d3, bad

MCDescriptors == {d1, d2, d3}

(* std::size_t is 64 bits wide; any width at least Capacity shows whether   *)
(* idx_newest_ - 1 wraps out of the slots, so a 16-bit one is used.         *)
MCSizeMax == 2^16 - 1

MCSpec == Spec

(* The reactor loop calls poll() once per scheduling tick whenever a       *)
(* connection is open (spec section 2), so poll is weakly fair; accepts    *)
(* and evictions depend on the clients and get no fairness.                *)
MCFairSpec == Spec /\ WF_vars(poll)

=============================================================================
