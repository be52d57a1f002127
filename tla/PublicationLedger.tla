------------------------- MODULE PublicationLedger -------------------------
(***************************************************************************)
(* What controlled publication promises of its durable record, whatever    *)
(* happens to the processes and to the control plane: a publication is     *)
(* decided at most once and for good, and the active publication moves     *)
(* only to the one decided ACTIVE last, so it never moves back.            *)
(***************************************************************************)
CONSTANTS Publications, None

Verdicts == {"FAILED", "ROLLED_BACK", "ACTIVE"}

VARIABLES
  ledger,   \* publication -> its verdict, None while it has none
  current,  \* the publication active.json names
  pending   \* decided ACTIVE, active.json not yet moved to it

ledgerVars == <<ledger, current, pending>>

Init ==
  /\ ledger = [i \in Publications |-> None]
  /\ current = None
  /\ pending = None

Decide(i, v) ==
  /\ pending = None
  /\ ledger[i] = None
  /\ ledger' = [ledger EXCEPT ![i] = v]
  /\ pending' = IF v = "ACTIVE" THEN i ELSE None
  /\ UNCHANGED current

Advance ==
  /\ pending # None
  /\ current' = pending
  /\ pending' = None
  /\ UNCHANGED ledger

\* The publisher stopped between its two writes: the chance is gone for good.
Lapse ==
  /\ pending # None
  /\ pending' = None
  /\ UNCHANGED <<ledger, current>>

Next ==
  \/ \E i \in Publications, v \in Verdicts : Decide(i, v)
  \/ Advance
  \/ Lapse

Spec == Init /\ [][Next]_ledgerVars
=============================================================================
