----------------------------- MODULE MCRollout -----------------------------
(* Rollout on one host for each plan.                                      *)
EXTENDS Rollout, TLC
=============================================================================
