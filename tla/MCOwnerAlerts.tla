--------------------------- MODULE MCOwnerAlerts ---------------------------
(***************************************************************************)
(* Instances of OwnerAlerts, with the summary over it, for TLC.            *)
(***************************************************************************)
EXTENDS OperationalSummary, TLC

CONSTANT x

ErrorsAndWorse == x :> 3
=============================================================================
