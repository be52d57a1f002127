-------------------------- MODULE MCAlertDispatch --------------------------
(***************************************************************************)
(* Instances of AlertDispatch for TLC, in ticks of 2.5 seconds.           *)
(***************************************************************************)
EXTENDS AlertDispatch, TLC

CONSTANTS d1, d2

OneBackoff == <<1>>
NoRetryAfter == {0}
OneProblem == d1 :> 1
CriticalAndRecovery == d1 :> 0 @@ d2 :> 2

Interchangeable == Permutations(Workers)
=============================================================================
