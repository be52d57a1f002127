--------------------------- MODULE PressureProofs ---------------------------
(***************************************************************************)
(* Theorems about Pressure, for every set of samples an owner may produce. *)
(*                                                                         *)
(* The inductive invariant adds two facts to what is to be shown: calm is  *)
(* the age of low_since, and while the scope recovers the current stage is *)
(* no older than the quiet it is to be made of.                            *)
(***************************************************************************)
EXTENDS Pressure, TLAPS

StageIsQuiet ==
  /\ calm = lowAge
  /\ mode = "RECOVERING" => calm # None /\ stageAge # None /\ stageAge <= calm

PressureInv == TypeOK /\ ModeIsConsistent /\ SustainedFailurePauses /\ StageIsQuiet

\* What Since returns is null or an age within the limit.
LEMMA SinceType ==
  ASSUME NEW holds \in BOOLEAN, NEW limit \in Nat,
         NEW age \in 0..limit \cup {None}, NEW gap \in BOOLEAN, NEW delta \in Nat
  PROVE  /\ Since(holds, age, gap, delta, limit) \in 0..limit \cup {None}
         /\ (Since(holds, age, gap, delta, limit) = None) <=> ~holds
BY NoneAssumption DEF Since, UpTo

\* The predicates on samples are Boolean, and no low sample is high.
LEMMA SampleKinds ==
  ASSUME NEW s \in Samples
  PROVE  /\ High(s) \in BOOLEAN /\ Low(s) \in BOOLEAN /\ Clean(s) \in BOOLEAN
BY SamplesAssumption DEF High, Low, Clean, Hard, RateHigh, Sample

\* Initially the scope is unobserved.
LEMMA InitPressure == Init => PressureInv
<1> SUFFICES ASSUME Init PROVE PressureInv
  OBVIOUS
<1>1. TypeOK
  BY DEF Init, TypeOK, Modes, BusinessSlots
<1>2. ModeIsConsistent
  BY DEF Init, ModeIsConsistent
<1>3. None # HighTicks
  BY NoneAssumption DEF HighTicks
<1>4. SustainedFailurePauses
  BY <1>3 DEF Init, SustainedFailurePauses
<1>5. StageIsQuiet
  BY DEF Init, StageIsQuiet
<1>. QED BY <1>1, <1>2, <1>4, <1>5 DEF PressureInv

\* One accepted sample keeps the invariant, whatever it says and however long
\* after the one before it was taken.
LEMMA AcceptKeeps ==
  ASSUME PressureInv, NEW s \in Samples, NEW gap \in BOOLEAN,
         NEW delta \in 0..FreshTicks + 1, NEW lag \in 0..FreshTicks,
         Accept(s, gap, delta, lag)
  PROVE  PressureInv'
<1> DEFINE H == Since(High(s), highAge, gap, delta, HighTicks)
           L == Since(Low(s), lowAge, gap, delta, LowTicks)
<1>0. /\ High(s) \in BOOLEAN /\ Low(s) \in BOOLEAN /\ Clean(s) \in BOOLEAN
  BY SampleKinds
<1>1. /\ highAge' \in 0..HighTicks \cup {None}
      /\ High(s) <=> highAge' # None
  <2>1. /\ delta \in Nat /\ HighTicks \in Nat /\ highAge \in 0..HighTicks \cup {None}
        /\ highAge' = H
    BY DEF Accept, PressureInv, TypeOK, HighTicks, FreshTicks
  <2>2. H \in 0..HighTicks \cup {None} /\ (H = None <=> ~High(s))
    BY ONLY <1>0, <2>1, SinceType, gap \in BOOLEAN
  <2>. QED BY <1>0, <2>1, <2>2
<1>2. /\ lowAge' \in 0..LowTicks \cup {None}
      /\ Low(s) <=> lowAge' # None
      /\ calm' = lowAge'
  <2>1. /\ delta \in Nat /\ LowTicks \in Nat /\ lowAge \in 0..LowTicks \cup {None}
        /\ lowAge' = L /\ calm' = L
    BY DEF Accept, PressureInv, TypeOK, StageIsQuiet, LowTicks, FreshTicks
  <2>2. L \in 0..LowTicks \cup {None} /\ (L = None <=> ~Low(s))
    BY ONLY <1>0, <2>1, SinceType, gap \in BOOLEAN
  <2>. QED BY <1>0, <2>1, <2>2
<1>3. idle' \in 0..FreshTicks + 1 \cup {None} /\ clean' \in BOOLEAN
  BY <1>0 DEF Accept, FreshTicks
<1>a. /\ mode \in Modes /\ slots \in {0, 1, 2, 4, 8}
      /\ stageAge \in 0..2 \cup {None}
      /\ ModeIsConsistent /\ StageIsQuiet
  BY DEF PressureInv, TypeOK, FreshTicks
<1> DEFINE Good == /\ mode' \in Modes /\ slots' \in {0, 1, 2, 4, 8}
                   /\ stageAge' \in 0..FreshTicks \cup {None}
                   /\ ModeIsConsistent' /\ SustainedFailurePauses'
                   /\ StageIsQuiet'
<1>4. ASSUME High(s), WhileHigh(s, delta) PROVE Good
  BY <1>1, <1>2, <1>4, <1>a, NoneAssumption
     DEF WhileHigh, Decide, Keep, UpTo, ModeIsConsistent, SustainedFailurePauses,
         StageIsQuiet, Modes, FreshTicks, HighTicks, BusinessSlots
<1>b. ~High(s) => SustainedFailurePauses'
  BY <1>1, NoneAssumption DEF SustainedFailurePauses, HighTicks
<1>5. ASSUME ~High(s), Waiting(s, delta) PROVE Good
  BY <1>1, <1>2, <1>5, <1>a, <1>b, NoneAssumption
     DEF Waiting, Decide, Keep, UpTo, ModeIsConsistent, StageIsQuiet, Modes,
         FreshTicks, LowTicks, BusinessSlots
<1>6. ASSUME ~High(s), Probing(s, gap, delta) PROVE Good
  BY <1>1, <1>2, <1>6, <1>a, <1>b, NoneAssumption
     DEF Probing, StageDone, Decide, Keep, UpTo, ModeIsConsistent, StageIsQuiet, Modes,
         FreshTicks, LowTicks, BusinessSlots
<1>7. ASSUME ~High(s), RecoveringOn(s, gap, delta) PROVE Good
  <2>1. /\ slots \in {2, 4} /\ mode = "RECOVERING"
        /\ calm # None /\ stageAge \in 0..2 /\ stageAge <= calm /\ calm = lowAge
        /\ lowAge \in 0..LowTicks
    BY <1>7, <1>a DEF RecoveringOn, ModeIsConsistent, StageIsQuiet, PressureInv, TypeOK
  <2>2. CASE ~Low(s)
    BY <1>2, <1>7, <1>b, <2>1, <2>2, NoneAssumption
       DEF RecoveringOn, Decide, ModeIsConsistent, StageIsQuiet, Modes, FreshTicks
  <2>3. CASE Low(s) /\ gap
    BY <1>2, <1>7, <1>b, <2>1, <2>3, NoneAssumption
       DEF RecoveringOn, Decide, ModeIsConsistent, StageIsQuiet, Modes, FreshTicks, LowTicks
  <2>4. CASE Low(s) /\ ~gap /\ StageDone(s, delta)
    BY <1>2, <1>7, <1>b, <2>1, <2>4, NoneAssumption
       DEF RecoveringOn, Decide, UpTo, BusinessSlots, ModeIsConsistent, StageIsQuiet,
           Modes, FreshTicks, LowTicks
  <2>5. CASE Low(s) /\ ~gap /\ ~StageDone(s, delta)
    <3>1. /\ UNCHANGED <<mode, slots>>
          /\ stageAge' = UpTo(FreshTicks, stageAge + delta)
      BY <1>7, <2>1, <2>5, NoneAssumption DEF RecoveringOn, Keep
    <3>2. calm' = UpTo(LowTicks, lowAge + delta)
      BY <2>1, <2>5 DEF Accept, Since
    <3>3. /\ stageAge' \in 0..2 /\ calm' \in 0..8 /\ stageAge' <= calm'
      BY <2>1, <3>1, <3>2 DEF UpTo, FreshTicks, LowTicks
    <3>. QED BY <1>2, <1>7, <1>b, <2>1, <3>1, <3>3, NoneAssumption
       DEF UpTo, ModeIsConsistent, StageIsQuiet, Modes, FreshTicks, LowTicks
  <2>. QED BY <1>0, <2>2, <2>3, <2>4, <2>5
<1>8. ASSUME ~High(s), mode = "NORMAL", Keep(delta) PROVE Good
  BY <1>1, <1>2, <1>8, <1>a, <1>b, NoneAssumption
     DEF Keep, UpTo, ModeIsConsistent, StageIsQuiet, Modes, FreshTicks, BusinessSlots
<1>9. Good
  BY <1>0, <1>4, <1>5, <1>6, <1>7, <1>8 DEF Accept
<1>. QED BY <1>1, <1>2, <1>3, <1>9 DEF PressureInv, TypeOK

\* So does every step of the scope.
LEMMA NextPressure == PressureInv /\ [Next]_vars => PressureInv'
<1> SUFFICES ASSUME PressureInv, [Next]_vars PROVE PressureInv'
  OBVIOUS
<1>1. ASSUME NEW s \in Samples, NEW lag \in 0..FreshTicks, Observe(s, lag)
      PROVE  PressureInv'
  <2>1. idle - lag \in 0..FreshTicks + 1
    BY <1>1 DEF Observe, PressureInv, TypeOK, FreshTicks
  <2> DEFINE gap == idle - lag > FreshTicks
  <2>2. gap \in BOOLEAN /\ Accept(s, gap, idle - lag, lag)
    BY <1>1 DEF Observe
  <2> HIDE DEF gap
  <2>. QED BY <2>1, <2>2, AcceptKeeps
<1>2. ASSUME NEW s \in Samples, NEW lag \in 0..FreshTicks, ObserveFirst(s, lag)
      PROVE  PressureInv'
  <2>1. 0 \in 0..FreshTicks + 1
    BY DEF FreshTicks
  <2>. QED BY <1>2, <2>1, AcceptKeeps DEF ObserveFirst
<1>3. CASE Tick
  <2>1. idle' \in 0..FreshTicks + 1 \cup {None}
    BY <1>3 DEF Tick, UpTo, PressureInv, TypeOK, FreshTicks
  <2>. QED BY <1>3, <2>1 DEF Tick, stored, PressureInv, TypeOK, ModeIsConsistent,
                             SustainedFailurePauses, StageIsQuiet
<1>4. CASE UNCHANGED vars
  BY <1>4 DEF vars, PressureInv, TypeOK, ModeIsConsistent, SustainedFailurePauses,
              StageIsQuiet
<1>. QED BY <1>1, <1>2, <1>3, <1>4 DEF Next

\* Whatever samples an owner sends, observe() finds every instant it needs,
\* the slots are those of the mode and sustained failures have paused it.
THEOREM ModesHold == Spec => [](TypeOK /\ ModeIsConsistent /\ SustainedFailurePauses)
<1>1. PressureInv => TypeOK /\ ModeIsConsistent /\ SustainedFailurePauses
  BY DEF PressureInv
<1>. QED BY InitPressure, NextPressure, <1>1, PTL DEF Spec

\* In particular a rate that has been high for ninety seconds has paused the scope.
THEOREM FailurePauses == Spec => []SustainedFailurePauses
BY ModesHold, PTL

\* An accepted sample raises the slots only by what was earned.
LEMMA AcceptEarns ==
  ASSUME PressureInv, NEW s \in Samples, NEW gap \in BOOLEAN,
         NEW delta \in 0..FreshTicks + 1, NEW lag \in 0..FreshTicks,
         Accept(s, gap, delta, lag)
  PROVE  /\ /\ mode \in {"PAUSED", "CAUTIOUS"}
            /\ mode' \in {"PROBE", "RECOVERING"}
            => calm' = LowTicks
         /\ slots' > slots =>
              /\ slots' \in {1, 2 * slots}
              /\ mode = "RECOVERING" => calm' # None /\ calm' >= FreshTicks
<1>0. PressureInv' /\ ModeIsConsistent /\ StageIsQuiet
      /\ lowAge \in 0..LowTicks \cup {None} /\ slots \in {0, 1, 2, 4, 8} /\ mode \in Modes
  BY AcceptKeeps DEF PressureInv, TypeOK
<1>1. /\ calm' = lowAge' /\ lowAge' \in 0..LowTicks \cup {None}
      /\ lowAge' = Since(Low(s), lowAge, gap, delta, LowTicks)
  BY <1>0 DEF PressureInv, StageIsQuiet, TypeOK, Accept
<1> DEFINE Quiet == mode \in {"PAUSED", "CAUTIOUS"} /\ mode' \in {"PROBE", "RECOVERING"}
                    => calm' = LowTicks
           Earned == slots' > slots =>
             /\ slots' \in {1, 2 * slots}
             /\ mode = "RECOVERING" => calm' # None /\ calm' >= FreshTicks
<1>2. ASSUME WhileHigh(s, delta) PROVE Quiet /\ Earned
  BY <1>0, <1>2 DEF WhileHigh, Decide, Keep, ModeIsConsistent, Modes, BusinessSlots
<1>3. ASSUME Waiting(s, delta) PROVE Quiet /\ Earned
  BY <1>0, <1>1, <1>3, NoneAssumption
     DEF Waiting, Decide, Keep, Since, ModeIsConsistent, Modes, LowTicks
<1>4. ASSUME Probing(s, gap, delta) PROVE Quiet /\ Earned
  BY <1>0, <1>4 DEF Probing, Decide, Keep, ModeIsConsistent
<1>5. ASSUME RecoveringOn(s, gap, delta) PROVE Quiet /\ Earned
  <2>1. /\ mode = "RECOVERING" /\ slots \in {2, 4}
        /\ lowAge \in 0..LowTicks /\ stageAge <= lowAge /\ stageAge \in 0..2
    BY <1>0, <1>5 DEF RecoveringOn, ModeIsConsistent, StageIsQuiet, PressureInv, TypeOK,
                      FreshTicks
  <2>2. CASE Low(s) /\ ~gap /\ StageDone(s, delta)
    <3>1. lowAge' = UpTo(LowTicks, lowAge + delta) /\ stageAge + delta >= FreshTicks
      BY <1>1, <2>1, <2>2, NoneAssumption DEF Since, StageDone
    <3>2. calm' \in Nat /\ calm' >= FreshTicks
      BY <1>1, <2>1, <3>1 DEF UpTo, FreshTicks, LowTicks
    <3>3. slots' = UpTo(BusinessSlots, 2 * slots)
      BY <1>5, <2>2 DEF RecoveringOn, Decide
    <3>. QED BY <2>1, <3>2, <3>3, NoneAssumption DEF UpTo, BusinessSlots
  <2>3. CASE ~(Low(s) /\ ~gap /\ StageDone(s, delta))
    BY <1>5, <2>1, <2>3 DEF RecoveringOn, Decide, Keep
  <2>. QED BY <2>2, <2>3
<1>6. ASSUME mode = "NORMAL", Keep(delta) PROVE Quiet /\ Earned
  BY <1>0, <1>6 DEF Keep, Modes
<1>. QED BY <1>2, <1>3, <1>4, <1>5, <1>6 DEF Accept

\* A scope leaves pause and caution only after two quiet minutes, and its
\* slots return step by step, each doubling after a stage without a gap.
THEOREM SlotsAreEarned == Spec => QuietComesFirst /\ RecoveryIsGradual
<1> DEFINE Quiet == /\ mode \in {"PAUSED", "CAUTIOUS"}
                    /\ mode' \in {"PROBE", "RECOVERING"}
                    => calm' = LowTicks
           Earned == slots' > slots =>
             /\ slots' \in {1, 2 * slots}
             /\ mode = "RECOVERING" => calm' # None /\ calm' >= FreshTicks
<1>1. ASSUME PressureInv, [Next]_vars PROVE [Quiet]_vars /\ [Earned]_vars
  <2>1. ASSUME NEW s \in Samples, NEW lag \in 0..FreshTicks, Observe(s, lag)
        PROVE  Quiet /\ Earned
    <3>1. idle - lag \in 0..FreshTicks + 1
      BY <1>1, <2>1 DEF Observe, PressureInv, TypeOK, FreshTicks
    <3> DEFINE gap == idle - lag > FreshTicks
    <3>2. gap \in BOOLEAN /\ Accept(s, gap, idle - lag, lag)
      BY <2>1 DEF Observe
    <3> HIDE DEF gap
    <3>. QED BY <1>1, <3>1, <3>2, AcceptEarns
  <2>2. ASSUME NEW s \in Samples, NEW lag \in 0..FreshTicks, ObserveFirst(s, lag)
        PROVE  Quiet /\ Earned
    <3>1. 0 \in 0..FreshTicks + 1
      BY DEF FreshTicks
    <3>. QED BY <1>1, <2>2, <3>1, AcceptEarns DEF ObserveFirst
  <2>3. CASE Tick
    BY <1>1, <2>3 DEF Tick, stored, PressureInv, TypeOK, Modes
  <2>4. CASE UNCHANGED vars
    BY <2>4
  <2>. QED BY <1>1, <2>1, <2>2, <2>3, <2>4 DEF Next
<1>. QED BY InitPressure, NextPressure, <1>1, PTL
         DEF Spec, QuietComesFirst, RecoveryIsGradual

\* In particular no scope leaves pause or caution before its quiet time is over.
THEOREM QuietIsWaited == Spec => QuietComesFirst
BY SlotsAreEarned
=============================================================================
