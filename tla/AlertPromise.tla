---------------------------- MODULE AlertPromise ----------------------------
(***************************************************************************)
(* What the outbox promises of every alert, whatever happens to the        *)
(* processes that send it (docs/OPERATIONAL_ALERT_OUTBOX_REFERENCE.md,     *)
(* "Finite delivery and uncertainty"): the provider is offered an alert    *)
(* only while it is known not to have accepted it, an outcome is recorded  *)
(* only if it is so, what nobody knows stays UNKNOWN until it is asked     *)
(* for, and what is settled stays settled.                                 *)
(***************************************************************************)
CONSTANT Alerts

VARIABLES
  stage,  \* the state the outbox records of each alert
  told    \* external: the alerts the provider has accepted

promiseVars == <<stage, told>>

Stages == {"NONE", "PENDING", "IN_FLIGHT", "ACCEPTED", "PAUSED", "UNKNOWN", "EXHAUSTED"}

Init ==
  /\ stage = [a \in Alerts |-> "NONE"]
  /\ told = {}

Goes(a, from, to) == stage[a] \in from /\ stage'[a] \in to

Queue(a)     == Goes(a, {"NONE"}, {"PENDING"})
Offer(a)     == Goes(a, {"PENDING"}, {"IN_FLIGHT"}) /\ a \notin told
GiveUp(a)    == Goes(a, {"PENDING"}, {"EXHAUSTED"})
Renew(a)     == Goes(a, {"EXHAUSTED"}, {"PENDING"}) /\ a \notin told
LoseSight(a) == Goes(a, {"IN_FLIGHT"}, {"UNKNOWN"})
Confirm(a)   == Goes(a, {"IN_FLIGHT", "UNKNOWN"}, {"ACCEPTED"}) /\ a \in told
TakeBack(a)  == Goes(a, {"IN_FLIGHT", "UNKNOWN"}, {"PENDING", "EXHAUSTED"}) /\ a \notin told
Refuse(a)    == Goes(a, {"IN_FLIGHT"}, {"PAUSED"}) /\ a \notin told

\* What the outbox may do with an alert.
Moves(a) ==
  \/ Queue(a) \/ Offer(a) \/ GiveUp(a) \/ Renew(a) \/ LoseSight(a) \/ Confirm(a)
  \/ TakeBack(a) \/ Refuse(a)

\* One transaction of the outbox may move several alerts.
Record ==
  /\ stage' \in [Alerts -> Stages]
  /\ \A a \in Alerts : stage'[a] = stage[a] \/ Moves(a)
  /\ UNCHANGED told

\* The provider accepts an alert once, and only while it is offered.
Accept(a) ==
  /\ stage[a] = "IN_FLIGHT"
  /\ a \notin told
  /\ told' = told \cup {a}
  /\ UNCHANGED stage

Next == Record \/ \E a \in Alerts : Accept(a)

Spec == Init /\ [][Next]_promiseVars
=============================================================================
