--------------------------- MODULE MCPublication ---------------------------
(***************************************************************************)
(* Instances of Publication for TLC.  The fault sets name what each run    *)
(* lets the environment do; everything else is the specification's.        *)
(***************************************************************************)
EXTENDS Publication, TLC

\* Everything at once: what the store and the incident promise regardless.
EveryFault == AllFaults

\* The environment in which the control plane's answers can be believed when
\* they come: reads work and a timed-out write has landed or never will.
ReadableFaults == AllFaults \ {"read_error", "late"}

\* The one fault it takes to leave what the documents say.
LostAnswers == {"response_lost"}

Interchangeable == Permutations(Workers) \cup Permutations(Publications)
                     \cup Permutations(Artifacts)
=============================================================================
