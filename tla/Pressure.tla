------------------------------ MODULE Pressure ------------------------------
(***************************************************************************)
(* One scope of PersistentPressureController                               *)
(* (tools/operational_pressure.py): samples of the owner's metrics raise   *)
(* and lower the number of business slots.                                 *)
(*                                                                         *)
(* observe() is one transaction under a compare-and-set of the version, so *)
(* that concurrent callers leave a sequence of accepted samples; a refused *)
(* or repeated sample changes nothing.  Time is counted in ticks of        *)
(* fifteen seconds, and an instant the code stores is kept as its age at   *)
(* the last accepted sample, up to the greatest age the code compares with.*)
(***************************************************************************)
EXTENDS Naturals

CONSTANTS
  Samples,  \* samples the owner may produce
  None      \* SQL null

BusinessSlots == 8
FreshTicks == 2   \* FRESH_SECONDS = 30, and the 30 seconds of a stage
HighTicks == 6    \* 90 seconds
LowTicks == 8     \* 120 seconds

\* capacity in percent, the durations in seconds.
Sample == [attempts : Nat, failures : Nat, unavailable : Nat, capacity : 0..100,
           backlog : Nat]

ASSUME SamplesAssumption ==
  /\ Samples \subseteq Sample
  /\ \A s \in Samples : s.failures <= s.attempts  \* _validate
ASSUME NoneAssumption == None \notin Nat

VARIABLES
  mode, slots,      \* the decision stored
  highAge,          \* age of high_since
  lowAge,           \* age of low_since
  stageAge,         \* age of stage_since
  idle,             \* ticks since last_observed_at, None before the first sample
  calm,             \* history: ticks of low samples without a gap, None if not low
  clean             \* history: the last sample had attempts and no failure

stored == <<mode, slots, highAge, lowAge, stageAge>>
vars == <<mode, slots, highAge, lowAge, stageAge, idle, calm, clean>>

Modes == {"NORMAL", "CAUTIOUS", "PAUSED", "PROBE", "RECOVERING"}

\* What the columns range over: slots are a power of two or none.
TypeOK ==
  /\ mode \in Modes
  /\ slots \in {0, 1, 2, 4, 8}
  /\ highAge \in 0..HighTicks \cup {None}
  /\ lowAge \in 0..LowTicks \cup {None}
  /\ stageAge \in 0..FreshTicks \cup {None}
  /\ idle \in 0..FreshTicks + 1 \cup {None}
  /\ calm \in 0..LowTicks \cup {None}
  /\ clean \in BOOLEAN

\* register_scope
Init ==
  /\ mode = "NORMAL" /\ slots = BusinessSlots
  /\ highAge = None /\ lowAge = None /\ stageAge = None
  /\ idle = None
  /\ calm = None /\ clean = FALSE

UpTo(limit, n) == IF n <= limit THEN n ELSE limit

(***************************************************************************)
(* What a sample says                                                      *)
(***************************************************************************)
RateHigh(s) == s.attempts >= 20 /\ 2 * s.failures >= s.attempts
Hard(s) ==
  \/ s.capacity >= 90
  \/ s.unavailable >= 300
  \/ s.backlog >= 900 /\ s.capacity >= 70
High(s) == Hard(s) \/ RateHigh(s)
Low(s) ==
  /\ s.capacity <= 70
  /\ s.backlog < 300
  /\ s.unavailable = 0
  /\ 10 * s.failures <= s.attempts
Clean(s) == s.attempts > 0 /\ s.failures = 0

(***************************************************************************)
(* observe                                                                 *)
(***************************************************************************)
\* Age of an instant that is set when a condition begins to hold and moved to
\* the present by a gap; None while the condition does not hold.
Since(holds, age, gap, delta, limit) ==
  IF ~holds THEN None
  ELSE IF gap \/ age = None THEN 0
  ELSE UpTo(limit, age + delta)

Decide(m, n, stage) == mode' = m /\ slots' = n /\ stageAge' = stage
Keep(delta) ==
  /\ UNCHANGED <<mode, slots>>
  /\ stageAge' = IF stageAge = None THEN None ELSE UpTo(FreshTicks, stageAge + delta)
StageDone(s, delta) == stageAge + delta >= FreshTicks /\ Clean(s)

\* Variant: every sample starts the stage of a probe anew.
ProbingRestarts(s, gap, delta) ==
  /\ mode = "PROBE"
  /\ \/ ~Low(s) /\ Decide("PAUSED", 0, None)
     \/ Low(s) /\ ~gap /\ StageDone(s, delta) /\ Decide("RECOVERING", 2, 0)
     \/ Low(s) /\ (gap \/ ~StageDone(s, delta)) /\ Decide(mode, slots, 0)

\* While nothing is high:
Probing(s, gap, delta) ==
  /\ mode = "PROBE"
  /\ \/ ~Low(s) /\ Decide("PAUSED", 0, None)
     \/ Low(s) /\ ~gap /\ StageDone(s, delta) /\ Decide("RECOVERING", 2, 0)
     \/ Low(s) /\ (gap \/ ~StageDone(s, delta)) /\ Keep(delta)

\* Variants: a gap does not restart the stage; slots are added, not doubled.
RecoveringThroughGaps(s, gap, delta) ==
  LET doubled == UpTo(BusinessSlots, 2 * slots)
  IN /\ mode = "RECOVERING"
     /\ \/ ~Low(s) /\ Decide("CAUTIOUS", 2, None)
        \/ Low(s) /\ StageDone(s, delta)
           /\ Decide(IF doubled = BusinessSlots THEN "NORMAL" ELSE mode, doubled, 0)
        \/ Low(s) /\ ~StageDone(s, delta) /\ Keep(delta)
RecoveringOn(s, gap, delta) ==
  LET doubled == UpTo(BusinessSlots, 2 * slots)
  IN /\ mode = "RECOVERING"
     /\ \/ ~Low(s) /\ Decide("CAUTIOUS", 2, None)
        \/ Low(s) /\ gap /\ Decide(mode, slots, 0)
        \/ Low(s) /\ ~gap /\ StageDone(s, delta)
           /\ Decide(IF doubled = BusinessSlots THEN "NORMAL" ELSE mode, doubled, 0)
        \/ Low(s) /\ ~gap /\ ~StageDone(s, delta) /\ Keep(delta)

\* Variant: the quiet time is not waited for.
WaitingImpatiently(s, delta) ==
  /\ mode \in {"PAUSED", "CAUTIOUS"}
  /\ \/ Low(s) /\ Decide(IF mode = "PAUSED" THEN "PROBE" ELSE "RECOVERING",
                         IF mode = "PAUSED" THEN 1 ELSE 2, 0)
     \/ ~Low(s) /\ Keep(delta)

\* lowAge' is the age of low_since at this sample.
Waiting(s, delta) ==
  /\ mode \in {"PAUSED", "CAUTIOUS"}
  /\ IF Low(s) /\ lowAge' >= LowTicks
     THEN IF mode = "PAUSED" THEN Decide("PROBE", 1, 0) ELSE Decide("RECOVERING", 2, 0)
     ELSE Keep(delta)

\* Variants: a high rate pauses nothing however long it lasts; it takes the
\* scope to a recovery whose first stage is not dated.
HighNeverPauses(s, delta) ==
  IF Hard(s) THEN Decide("PAUSED", 0, None)
  ELSE IF mode \in {"PAUSED", "PROBE"} THEN Keep(delta) ELSE Decide("CAUTIOUS", 2, None)
HighRestartsRecovery(s, delta) ==
  IF Hard(s) THEN Decide("PAUSED", 0, None) ELSE Decide("RECOVERING", 2, None)

WhileHigh(s, delta) ==
  IF Hard(s) \/ highAge' >= HighTicks THEN Decide("PAUSED", 0, None)
  ELSE IF mode \in {"PAUSED", "PROBE"} THEN Keep(delta)
  ELSE Decide("CAUTIOUS", 2, None)

\* A sample taken lag ticks ago and delta ticks after the one accepted before.
Accept(s, gap, delta, lag) ==
  /\ highAge' = Since(High(s), highAge, gap, delta, HighTicks)
  /\ lowAge' = Since(Low(s), lowAge, gap, delta, LowTicks)
  /\ calm' = Since(Low(s), calm, gap, delta, LowTicks)
  /\ clean' = Clean(s)
  /\ \/ High(s) /\ WhileHigh(s, delta)
     \/ /\ ~High(s)
        /\ \/ Waiting(s, delta)
           \/ Probing(s, gap, delta)
           \/ RecoveringOn(s, gap, delta)
           \/ mode = "NORMAL" /\ Keep(delta)
  /\ idle' = lag

\* At most thirty seconds old and younger than the last one accepted.
Observe(s, lag) ==
  /\ idle # None
  /\ lag < idle
  /\ Accept(s, idle - lag > FreshTicks, idle - lag, lag)

\* The first sample counts as one after a gap.
ObserveFirst(s, lag) ==
  /\ idle = None
  /\ Accept(s, TRUE, 0, lag)

\* decision(): without a fresh sample nothing is granted.
Fresh == idle # None /\ idle <= FreshTicks
Granted == IF Fresh THEN slots ELSE 0

Tick ==
  /\ idle # None
  /\ idle' = UpTo(FreshTicks + 1, idle + 1)
  /\ UNCHANGED <<stored, calm, clean>>

Next ==
  \/ \E s \in Samples, lag \in 0..FreshTicks : Observe(s, lag) \/ ObserveFirst(s, lag)
  \/ Tick

Spec == Init /\ [][Next]_vars
FairSpec == Spec /\ WF_vars(Tick)

-----------------------------------------------------------------------------
(***************************************************************************)
(* Properties                                                              *)
(***************************************************************************)

\* The slots always are those of the mode, and the instants the next sample
\* will subtract from are there: observe() never meets a null (lines 98-110).
ModeIsConsistent ==
  /\ mode = "NORMAL" => slots = BusinessSlots
  /\ mode = "CAUTIOUS" => slots = 2
  /\ mode = "PAUSED" => slots = 0
  /\ mode = "PROBE" => slots = 1
  /\ mode = "RECOVERING" => slots \in {2, 4}
  /\ mode \in {"PROBE", "RECOVERING"} => stageAge # None

\* Two minutes of low samples without a gap come before a paused scope is
\* probed or a cautious one begins to recover.
QuietComesFirst ==
  [][/\ mode \in {"PAUSED", "CAUTIOUS"}
     /\ mode' \in {"PROBE", "RECOVERING"}
     => calm' = LowTicks]_vars

\* Slots come back one step at a time, 0, 1, 2, 4, 8, and each doubling rests
\* on a stage of low samples without a gap (lines 103-108).
RecoveryIsGradual ==
  [][slots' > slots =>
       /\ slots' \in {1, 2 * slots}
       /\ mode = "RECOVERING" => calm' # None /\ calm' >= FreshTicks]_vars

\* A failure rate that stays high for ninety seconds without a gap pauses the
\* scope, also one that is being probed.
SustainedFailurePauses == highAge = HighTicks => mode = "PAUSED"

\* However deep the pause was, a scope whose samples keep being low, clean and
\* never late gets all its slots back, and only then.
RecoveryCompletes ==
  []<>(Granted = BusinessSlots \/ calm = None \/ ~clean \/ ~Fresh)
=============================================================================
