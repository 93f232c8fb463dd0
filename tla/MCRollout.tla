----------------------------- MODULE MCRollout -----------------------------
(* Model checking of Rollout.                                                *)
EXTENDS Rollout
=============================================================================
