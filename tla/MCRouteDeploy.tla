--------------------------- MODULE MCRouteDeploy ---------------------------
(***************************************************************************)
(* Instances of RouteDeploy for TLC.                                       *)
(***************************************************************************)
EXTENDS RouteDeploy, TLC

ThreeRoutes == 1..3

\* Superseded identifiers sort before the ones that supersede them
\* (trusted-human-authorization-capabilities-... before ...-delete, -get).
FirstRetired == {1}

EveryScript == AllScripts
EveryFault == AllFaults

Interchangeable == Permutations(Runs)
=============================================================================
