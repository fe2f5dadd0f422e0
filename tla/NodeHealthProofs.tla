-------------------------- MODULE NodeHealthProofs --------------------------
(***************************************************************************)
(* Theorems about NodeHealth, for every set of targets and latencies and   *)
(* every duration.                                                         *)
(***************************************************************************)
EXTENDS NodeHealth, FiniteSetTheorems, TLAPS

\* Push keeps a bounded sequence bounded and ends it with the new element.
LEMMA PushFacts ==
  ASSUME NEW S, NEW s \in Seq(S), NEW x \in S, NEW cap \in Nat \ {0}, Len(s) <= cap
  PROVE  /\ Push(s, x, cap) \in Seq(S)
         /\ Len(Push(s, x, cap)) <= cap
         /\ Push(s, x, cap) # <<>>
         /\ Push(s, x, cap)[Len(Push(s, x, cap))] = x
         /\ Len(s) < cap => Push(s, x, cap) = Append(s, x)
  <1> DEFINE r == IF Len(s) >= cap THEN Tail(s) ELSE s
  <1>1. r \in Seq(S) /\ Len(r) < cap
    <2>1. CASE Len(s) >= cap
      <3>1. s # <<>>
        BY <2>1
      <3> QED BY <2>1, <3>1
    <2>2. CASE ~(Len(s) >= cap)
      BY <2>2
    <2> QED BY <2>1, <2>2
  <1>2. Push(s, x, cap) = Append(r, x)
    BY DEF Push
  <1>3. Len(s) < cap => r = s
    OBVIOUS
  <1> HIDE DEF r
  <1>4. /\ Append(r, x) \in Seq(S) /\ Len(Append(r, x)) = Len(r) + 1
        /\ Append(r, x)[Len(r) + 1] = x
    BY <1>1
  <1>5. Append(r, x) # <<>>
    BY <1>1, <1>4
  <1> QED BY <1>1, <1>2, <1>3, <1>4, <1>5

\* The same for sequences of three.
LEMMA PushThree ==
  ASSUME NEW S, NEW s \in Seq(S), NEW x \in S, Len(s) <= 3
  PROVE  /\ Push(s, x, 3) \in Seq(S)
         /\ Len(Push(s, x, 3)) <= 3
         /\ Len(s) < 3 => Push(s, x, 3) = Append(s, x)
  BY PushFacts

\* An outcome is pushed to the last three.
LEMMA OutcomeFacts ==
  ASSUME outcomes \in Seq(OutcomeKind), Len(outcomes) <= 3, NEW o \in OutcomeKind, Outcome(o)
  PROVE  /\ outcomes' \in Seq(OutcomeKind) /\ Len(outcomes') <= 3
         /\ outcomes' # <<>> /\ outcomes'[Len(outcomes')] = o
         /\ outcomes' = Push(outcomes, o, 3)
  BY PushFacts DEF Outcome, DeadAfterFailures

\* The kinds of outcomes by name.
LEMMA OutcomeKinds == {"F", "S", "N"} = OutcomeKind
  BY DEF OutcomeKind

-----------------------------------------------------------------------------
(* Types.                                                                  *)

\* The first record has its type.
LEMMA TypeInit == Init => TypeOK
  <1> SUFFICES ASSUME Init PROVE TypeOK
    OBVIOUS
  <1>1. dead \in BOOLEAN /\ permit \in BOOLEAN /\ probe_round \in BOOLEAN /\ paused \in BOOLEAN
    BY DEF Init
  <1> QED BY <1>1, DurationAssumption
    DEF Init, TypeOK, ProbeType, RealType, SlowType, WakeType, Times, NoFloor,
        DeadAfterFailures, RecoverAfterSuccesses, PenalizeAfterFailures,
        PenaltyClearSuccesses, SlowTriggerCount, MaxResumeProbeRounds

\* A successful probe keeps the record's type.
LEMMA RecordLatencyType ==
  ASSUME ProbeType, NEW ms \in Latency, RecordLatency(ms) PROVE ProbeType'
  <1> USE DEF ProbeType, DeadAfterFailures, RecoverAfterSuccesses
  <1>1. samples' \in Seq(Latency) /\ Len(samples') <= SampleCap
    BY PushFacts, DurationAssumption DEF RecordLatency
  <1>2. outcomes' \in Seq(OutcomeKind) /\ Len(outcomes') <= 3
    BY OutcomeFacts, OutcomeKinds DEF RecordLatency
  <1>3. failures' \in 0 .. 3 /\ successes' \in 0 .. 2
    BY DEF RecordLatency, FailuresAfterSuccess, UpTo
  <1>4. dead' \in BOOLEAN
    BY DEF RecordLatency
  <1> QED BY <1>1, <1>2, <1>3, <1>4

\* A failed probe keeps the record's type.
LEMMA RecordFailureType == ASSUME ProbeType, RecordFailure PROVE ProbeType'
  <1> USE DEF ProbeType, DeadAfterFailures, RecoverAfterSuccesses
  <1>2. outcomes' \in Seq(OutcomeKind) /\ Len(outcomes') <= 3
    BY OutcomeFacts, OutcomeKinds DEF RecordFailure
  <1>3. failures' \in 0 .. 3 /\ successes' \in 0 .. 2 /\ samples' = samples
    BY DEF RecordFailure, UpTo
  <1>4. dead' \in BOOLEAN
    BY DEF RecordFailure
  <1> QED BY <1>2, <1>3, <1>4

\* Each step keeps the type of what probes write.
LEMMA ProbeTypeStep == TypeOK /\ [Next]_vars => ProbeType'
  <1> SUFFICES ASSUME TypeOK, [Next]_vars PROVE ProbeType'
    OBVIOUS
  <1>0. ProbeType
    BY DEF TypeOK
  <1>1. CASE UNCHANGED probeVars
    BY <1>0, <1>1 DEF ProbeType, probeVars
  <1>2. CASE \E ms \in Latency : RecordLatency(ms)
    BY <1>0, <1>2, RecordLatencyType
  <1>3. CASE RecordFailure
    BY <1>0, <1>3, RecordFailureType
  <1>4. CASE NetworkChange
    <2>1. outcomes' \in Seq(OutcomeKind) /\ Len(outcomes') <= 3
      BY <1>0, <1>4, OutcomeFacts, OutcomeKinds DEF NetworkChange, ProbeType, DeadAfterFailures
    <2>2. /\ failures' \in 0 .. 3 /\ successes' \in 0 .. 2
          /\ samples' = samples /\ dead' = dead
      BY <1>0, <1>4 DEF NetworkChange, ProbeType, RecoverAfterSuccesses
    <2> QED BY <1>0, <2>1, <2>2 DEF ProbeType, DeadAfterFailures, RecoverAfterSuccesses
  <1>5. \/ UNCHANGED probeVars \/ RecordFailure \/ NetworkChange
        \/ \E ms \in Latency : RecordLatency(ms)
    BY DEF Next, Checker, vars, PoolConnected, PoolFailed, RealFailure, FirstDownFast,
           FirstDownSlow, MarkActive, TriggerProbe, Tick, CheckerPause, CheckerProbe,
           ProbeSuccess, ProbeFailure, RecordProbeSuccess, RecordProbeFailure,
           CheckerDelay, CheckerTimer, CheckerNotified
  <1> QED BY <1>1, <1>2, <1>3, <1>4, <1>5

\* Each step keeps the type of what connections write.
LEMMA RealTypeStep == TypeOK /\ [Next]_vars => RealType'
  <1> SUFFICES ASSUME TypeOK, [Next]_vars PROVE RealType'
    OBVIOUS
  <1>0. RealType
    BY DEF TypeOK
  <1> USE <1>0, DurationAssumption DEF RealType, Times, PenalizeAfterFailures,
          PenaltyClearSuccesses, UpTo
  <1>1. CASE UNCHANGED realVars
    BY <1>1 DEF realVars
  <1>2. ASSUME NEW t \in FailTarget, RecordRealFailure(t) PROVE RealType'
    <2> DEFINE seen == IF PenaltyOver THEN <<>> ELSE fail_targets
    <2>1. seen \in Seq(FailTarget) /\ Len(seen) <= 3
      OBVIOUS
    <2> HIDE DEF seen
    <2>2. Push(seen, t, 3) \in Seq(FailTarget) /\ Len(Push(seen, t, 3)) <= 3
      BY <2>1, PushThree
    <2>3. fail_targets' \in Seq(FailTarget) /\ Len(fail_targets') <= 3
      BY <1>2, <2>2 DEF RecordRealFailure, seen
    <2>4. failed' \subseteq FailTarget /\ real_successes' = 0
      BY <1>2 DEF RecordRealFailure, SuccessesAfterFailure
    <2>5. real_failures' \in 0 .. 3 /\ penalty' \in -1 .. Penalty
      BY <1>2 DEF RecordRealFailure
    <2> QED BY <2>3, <2>4, <2>5
  <1>3. CASE RecordRealSuccess
    BY <1>3 DEF RecordRealSuccess, IsPenalized
  <1>4. CASE NetworkChange
    BY <1>4 DEF NetworkChange
  <1>5. CASE Tick
    BY <1>5 DEF Tick, Less
  <1>6. \/ UNCHANGED realVars \/ RecordRealSuccess \/ NetworkChange \/ Tick
        \/ \E t \in FailTarget : RecordRealFailure(t)
    BY DEF Next, Checker, vars, PoolConnected, PoolFailed, RealFailure, FirstDownFast,
           FirstDownSlow, MarkActive, TriggerProbe, CheckerPause, CheckerProbe,
           ProbeSuccess, ProbeFailure, CheckerDelay, CheckerTimer, CheckerNotified
  <1> QED BY <1>1, <1>2, <1>3, <1>4, <1>5, <1>6

\* Each step keeps the type of what slow first bytes write.
LEMMA SlowTypeStep == TypeOK /\ [Next]_vars => SlowType'
  <1> SUFFICES ASSUME TypeOK, [Next]_vars PROVE SlowType'
    OBVIOUS
  <1>0. SlowType
    BY DEF TypeOK
  <1> USE <1>0, DurationAssumption DEF SlowType, Times
  <1>1. CASE UNCHANGED <<slowVars, baseVars>>
    BY <1>1 DEF slowVars, baseVars
  <1>2. CASE FirstDownFast
    <2>1. UNCHANGED <<cooldown, probe_baseline, floor>>
      BY <1>2 DEF FirstDownFast, baseVars
    <2>2. \/ slow_count' = 0 /\ slow_targets' = <<>>
          \/ slow_count' = slow_count /\ slow_targets' = slow_targets
      BY <1>2 DEF FirstDownFast
    <2>3. CASE slow_count' = 0 /\ slow_targets' = <<>>
      <3>1. slow_targets' \in Seq(SlowTarget) /\ Len(slow_targets') <= 3
        BY <2>3
      <3> QED BY <2>1, <2>3, <3>1 DEF SlowTriggerCount
    <2>4. CASE slow_count' = slow_count /\ slow_targets' = slow_targets
      BY <2>1, <2>4
    <2> QED BY <2>2, <2>3, <2>4
  <1>3. CASE FirstDownSlow
    <2>1. PICK t \in SlowTarget :
            \/ UNCHANGED <<slowVars, baseVars>>
            \/ /\ slow_count' = 0 /\ slow_targets' = <<>> /\ cooldown' = Cooldown
               /\ probe_baseline' = Median /\ floor' = floor
            \/ /\ slow_count' = UpTo(slow_count + 1, SlowTriggerCount)
               /\ slow_targets' = Push(slow_targets, t, SlowTriggerCount)
               /\ UNCHANGED <<cooldown, baseVars>>
      BY <1>3 DEF FirstDownSlow, slowVars, baseVars
    <2>2. Median \in Latency \cup {NoLatency}
      BY DEF Median
    <2>3. /\ Push(slow_targets, t, 3) \in Seq(SlowTarget)
          /\ Len(Push(slow_targets, t, 3)) <= 3
      BY PushThree DEF SlowTriggerCount
    <2>4. CASE UNCHANGED <<slowVars, baseVars>>
      BY <2>4 DEF slowVars, baseVars
    <2>5. CASE /\ slow_count' = 0 /\ slow_targets' = <<>> /\ cooldown' = Cooldown
               /\ probe_baseline' = Median /\ floor' = floor
      BY <2>5, <2>2 DEF SlowTriggerCount
    <2>6. CASE /\ slow_count' = UpTo(slow_count + 1, SlowTriggerCount)
               /\ slow_targets' = Push(slow_targets, t, SlowTriggerCount)
               /\ UNCHANGED <<cooldown, baseVars>>
      <3>1. slow_count' \in 0 .. 3
        BY <2>6 DEF UpTo, SlowTriggerCount
      <3>2. slow_targets' \in Seq(SlowTarget) /\ Len(slow_targets') <= 3
        BY <2>3, <2>6 DEF SlowTriggerCount
      <3> QED BY <3>1, <3>2, <2>6 DEF baseVars, SlowTriggerCount
    <2> QED BY <2>1, <2>4, <2>5, <2>6
  <1>4. CASE NetworkChange
    BY <1>4 DEF NetworkChange, SlowTriggerCount, NoFloor
  <1>5. CASE Tick
    BY <1>5 DEF Tick, Less
  <1>6. ASSUME UNCHANGED slowVars, NEW ms \in Latency, RecordProbeSuccess(ms)
        PROVE  SlowType'
    BY <1>6 DEF slowVars, RecordProbeSuccess, NoFloor
  <1>7. CASE UNCHANGED slowVars /\ RecordProbeFailure
    BY <1>7 DEF slowVars, RecordProbeFailure
  <1>8. \/ UNCHANGED <<slowVars, baseVars>> \/ FirstDownFast \/ FirstDownSlow
        \/ NetworkChange \/ Tick
        \/ UNCHANGED slowVars /\ \E ms \in Latency : RecordProbeSuccess(ms)
        \/ UNCHANGED slowVars /\ RecordProbeFailure
    BY DEF Next, Checker, vars, PoolConnected, PoolFailed, RealFailure, MarkActive,
           TriggerProbe, CheckerPause, CheckerProbe, ProbeSuccess, ProbeFailure,
           CheckerDelay, CheckerTimer, CheckerNotified
  <1> QED BY <1>1, <1>2, <1>3, <1>4, <1>5, <1>6, <1>7, <1>8

\* Each step keeps the type of the checker's variables.
LEMMA WakeTypeStep == TypeOK /\ [Next]_vars => WakeType'
  <1> SUFFICES ASSUME TypeOK, [Next]_vars PROVE WakeType'
    OBVIOUS
  <1>0. WakeType
    BY DEF TypeOK
  <1>1. permit' \in BOOLEAN /\ probe_round' \in BOOLEAN /\ paused' \in BOOLEAN
    BY <1>0, Zenon
       DEF WakeType, Next, Checker, vars, wakeVars, checkerVars, PoolConnected, PoolFailed,
           RealFailure, FirstDownFast, FirstDownSlow, MarkActive, TriggerProbe,
           NetworkChange, Tick, CheckerPause, CheckerProbe, ProbeSuccess, ProbeFailure,
           CheckerDelay, CheckerTimer, CheckerNotified
  <1>2. /\ inactive' \in 0 .. IdlePause /\ triggering' \in Nat
        /\ cpc' \in {"loop", "probe", "delay", "wait"}
        /\ rounds' \in 0 .. MaxResumeProbeRounds
    BY <1>0, DurationAssumption
       DEF WakeType, Next, Checker, vars, wakeVars, checkerVars, PoolConnected, PoolFailed,
           RealFailure, FirstDownFast, FirstDownSlow, MarkActive, TriggerProbe,
           NetworkChange, Tick, CheckerPause, CheckerProbe, ProbeSuccess, ProbeFailure,
           CheckerDelay, CheckerTimer, CheckerNotified, UpTo, MaxResumeProbeRounds
  <1> QED BY <1>1, <1>2 DEF WakeType

\* Every variable keeps its type and its bound.
THEOREM TypeCorrect == Spec => []TypeOK
  <1>1. TypeOK /\ [Next]_vars => TypeOK'
    BY ProbeTypeStep, RealTypeStep, SlowTypeStep, WakeTypeStep DEF TypeOK
  <1> QED BY TypeInit, <1>1, PTL DEF Spec

-----------------------------------------------------------------------------
(* Probes asked for.                                                       *)

\* A checker on its way to the select, or in it, has not spent the wake-up that a
\* baseline put aside is waiting for.
WakeUpDue ==
  cpc \in {"delay", "wait"} /\ probe_baseline # NoLatency /\ ~Idle
    => triggering > 0 \/ permit

\* While the node is used, a baseline put aside is always going to be consumed.
THEOREM BaselineNotStranded == Spec => []BaselineOnItsWay
  <1> DEFINE Inv == WakeUpDue /\ BaselineOnItsWay
  <1>1. Init => Inv
    BY DEF Init, WakeUpDue, BaselineOnItsWay
  <1>2. TypeOK /\ Inv /\ [Next]_vars => Inv'
    <2> SUFFICES ASSUME TypeOK, Inv, [Next]_vars PROVE Inv'
      OBVIOUS
    <2>0. WakeType
      BY DEF TypeOK
    <2> USE <2>0 DEF WakeType, WakeUpDue, BaselineOnItsWay, Idle
    <2>1. CASE UNCHANGED <<probe_baseline, inactive, triggering, permit, cpc, probe_round>>
      BY <2>1
    <2>2. CASE FirstDownSlow
      <3>1. UNCHANGED <<inactive, permit, cpc, probe_round>>
        BY <2>2 DEF FirstDownSlow, checkerVars
      <3>2. \/ UNCHANGED <<probe_baseline, triggering>>
            \/ triggering' = triggering + 1
        BY <2>2 DEF FirstDownSlow
      <3> QED BY <3>1, <3>2
    <2>3. CASE MarkActive
      BY <2>3, DurationAssumption DEF MarkActive, AsksForProbe, baseVars, checkerVars
    <2>4. CASE TriggerProbe
      BY <2>4 DEF TriggerProbe, baseVars, checkerVars
    <2>5. CASE NetworkChange
      BY <2>5 DEF NetworkChange, wakeVars, checkerVars
    <2>6. CASE Tick
      BY <2>6, DurationAssumption DEF Tick, checkerVars, UpTo
    <2>7. CASE CheckerPause
      BY <2>7 DEF CheckerPause, baseVars, wakeVars
    <2>8. CASE CheckerProbe
      BY <2>8 DEF CheckerProbe, baseVars, wakeVars
    <2>9. CASE ProbeSuccess
      BY <2>9 DEF ProbeSuccess, RecordProbeSuccess, wakeVars
    <2>10. CASE ProbeFailure
      BY <2>10 DEF ProbeFailure, RecordProbeFailure, wakeVars
    <2>11. CASE CheckerDelay
      BY <2>11 DEF CheckerDelay, baseVars, wakeVars
    <2>12. CASE CheckerTimer
      BY <2>12 DEF CheckerTimer, baseVars, wakeVars
    <2>13. CASE CheckerNotified
      BY <2>13 DEF CheckerNotified, baseVars
    <2>14. CASE PoolConnected \/ PoolFailed \/ RealFailure \/ FirstDownFast \/ UNCHANGED vars
      BY <2>1, <2>14 DEF PoolConnected, PoolFailed, RealFailure, FirstDownFast, vars,
                         baseVars, wakeVars, checkerVars
    <2> QED BY <2>2, <2>3, <2>4, <2>5, <2>6, <2>7, <2>8, <2>9, <2>10, <2>11, <2>12,
               <2>13, <2>14 DEF Next, Checker
  <1>3. Inv => BaselineOnItsWay
    OBVIOUS
  <1> QED BY <1>1, <1>2, <1>3, TypeCorrect, PTL DEF Spec

-----------------------------------------------------------------------------
(* Penalties.                                                              *)

\* The failures counted are those of the targets listed, each once, and every one of
\* them failed since the last event that cancels failures.  A penalty that is over says
\* nothing until the next failure drops its counts.
FailuresCounted ==
  /\ Len(fail_targets) = real_failures
  /\ \A i, j \in 1 .. Len(fail_targets) : fail_targets[i] = fail_targets[j] => i = j
  /\ penalty # 0 => \A i \in 1 .. Len(fail_targets) : fail_targets[i] \in failed
  /\ penalty = -1 => real_failures < PenalizeAfterFailures
  /\ IsFiniteSet(failed)

\* Three different members make a set of at least three.
LEMMA ThreeMembers ==
  ASSUME NEW T, IsFiniteSet(T), NEW a \in T, NEW b \in T, NEW c \in T,
         a # b, a # c, b # c
  PROVE  Cardinality(T) >= 3
  <1>1. IsFiniteSet({a}) /\ Cardinality({a}) = 1
    BY FS_Singleton
  <1>2. IsFiniteSet({a} \cup {b}) /\ Cardinality({a} \cup {b}) = 2
    <2>1. b \notin {a}
      OBVIOUS
    <2>2. /\ IsFiniteSet({a} \cup {b})
          /\ Cardinality({a} \cup {b}) = IF b \in {a} THEN Cardinality({a})
                                        ELSE Cardinality({a}) + 1
      BY <1>1, FS_AddElement
    <2> QED BY <1>1, <2>1, <2>2
  <1>3. Cardinality(({a} \cup {b}) \cup {c}) = 3
    BY <1>2, FS_AddElement
  <1>4. ({a} \cup {b}) \cup {c} \subseteq T
    OBVIOUS
  <1> QED BY <1>3, <1>4, FS_Subset, FS_CardinalityType

Distinct(s) == \A i, j \in 1 .. Len(s) : s[i] = s[j] => i = j

\* The empty set is finite.
LEMMA EmptyFinite == IsFiniteSet({})
  BY FS_EmptySet

AllIn(s, F) == \A i \in 1 .. Len(s) : s[i] \in F

\* A target that is not listed can be appended: the list stays without duplicates.
LEMMA AppendDistinct ==
  ASSUME NEW S, NEW r \in Seq(S), NEW t \in S, NEW F, Distinct(r), AllIn(r, F),
         ~Listed(r, t)
  PROVE  /\ Len(Append(r, t)) = Len(r) + 1
         /\ Distinct(Append(r, t))
         /\ AllIn(Append(r, t), F \cup {t})
  <1>1. /\ Len(Append(r, t)) = Len(r) + 1 /\ Len(r) \in Nat
        /\ \A i \in 1 .. Len(r) + 1 : Append(r, t)[i] = IF i <= Len(r) THEN r[i] ELSE t
    OBVIOUS
  <1>2. Distinct(Append(r, t))
    <2> SUFFICES ASSUME NEW i \in 1 .. Len(r) + 1, NEW j \in 1 .. Len(r) + 1,
                        Append(r, t)[i] = Append(r, t)[j]
                 PROVE  i = j
      BY <1>1 DEF Distinct
    <2>1. CASE i <= Len(r) /\ j <= Len(r)
      BY <1>1, <2>1 DEF Distinct
    <2>2. CASE i = Len(r) + 1 \/ j = Len(r) + 1
      BY <1>1, <2>2 DEF Listed
    <2> QED BY <1>1, <2>1, <2>2
  <1>3. AllIn(Append(r, t), F \cup {t})
    BY <1>1 DEF AllIn
  <1> QED BY <1>1, <1>2, <1>3

\* A full list that loses its first is still without duplicates.
LEMMA TailDistinct ==
  ASSUME NEW S, NEW s \in Seq(S), Len(s) = 3, NEW t, NEW F, Distinct(s), AllIn(s, F),
         ~Listed(s, t)
  PROVE  /\ Tail(s) \in Seq(S) /\ Len(Tail(s)) = 2
         /\ Distinct(Tail(s)) /\ AllIn(Tail(s), F) /\ ~Listed(Tail(s), t)
  <1>1. s # <<>>
    OBVIOUS
  <1>2. Tail(s) \in Seq(S) /\ Len(Tail(s)) = 2 /\ \A i \in 1 .. 2 : Tail(s)[i] = s[i + 1]
    BY <1>1
  <1>3. \A i \in 1 .. 2 : i + 1 \in 1 .. Len(s)
    OBVIOUS
  <1>4. AllIn(Tail(s), F) /\ ~Listed(Tail(s), t)
    BY <1>2, <1>3 DEF AllIn, Listed
  <1>5. Distinct(Tail(s))
    <2> SUFFICES ASSUME NEW i \in 1 .. 2, NEW j \in 1 .. 2, Tail(s)[i] = Tail(s)[j]
                 PROVE  i = j
      BY <1>2 DEF Distinct
    <2>1. s[i + 1] = s[j + 1] /\ i + 1 \in 1 .. Len(s) /\ j + 1 \in 1 .. Len(s)
      BY <1>2, <1>3
    <2>2. i + 1 = j + 1
      BY <2>1 DEF Distinct
    <2> QED BY <2>2
  <1> QED BY <1>2, <1>4, <1>5

\* A length of at most three is three or less.
LEMMA ThreeOrLess == ASSUME NEW n \in Nat, n <= 3 PROVE n = 3 \/ n < 3
  OBVIOUS

\* Pushing a target that is not listed keeps the list without duplicates.
LEMMA PushDistinct ==
  ASSUME NEW S, NEW s \in Seq(S), Len(s) <= 3, NEW t \in S, NEW F, Distinct(s),
         AllIn(s, F), ~Listed(s, t)
  PROVE  /\ \/ Len(s) = 3 /\ Len(Push(s, t, 3)) = 3
            \/ Len(s) < 3 /\ Len(Push(s, t, 3)) = Len(s) + 1
         /\ Distinct(Push(s, t, 3)) /\ AllIn(Push(s, t, 3), F \cup {t})
  <1>1. CASE Len(s) = 3
    <2>1. Push(s, t, 3) = Append(Tail(s), t)
      BY <1>1 DEF Push
    <2>2. /\ Tail(s) \in Seq(S) /\ Len(Tail(s)) = 2
          /\ Distinct(Tail(s)) /\ AllIn(Tail(s), F) /\ ~Listed(Tail(s), t)
      BY <1>1, TailDistinct
    <2>3. /\ Len(Append(Tail(s), t)) = Len(Tail(s)) + 1
          /\ Distinct(Append(Tail(s), t)) /\ AllIn(Append(Tail(s), t), F \cup {t})
      BY <2>2, AppendDistinct
    <2>4. Len(Append(Tail(s), t)) = 3
      BY ONLY <2>2, <2>3
    <2> QED BY <1>1, <2>1, <2>3, <2>4, Zenon
  <1>2. CASE Len(s) < 3
    <2>1. Push(s, t, 3) = Append(s, t)
      BY <1>2 DEF Push
    <2>2. /\ Len(Append(s, t)) = Len(s) + 1
          /\ Distinct(Append(s, t)) /\ AllIn(Append(s, t), F \cup {t})
      BY AppendDistinct
    <2> QED BY <1>2, <2>1, <2>2
  <1>3. Len(s) \in Nat
    OBVIOUS
  <1> QED BY <1>1, <1>2, <1>3, ThreeOrLess

\* The targets listed have failed since the last penalty or success.
LEMMA FailuresCountedStep == TypeOK /\ FailuresCounted /\ [Next]_vars => FailuresCounted'
  <1> SUFFICES ASSUME TypeOK, FailuresCounted, [Next]_vars PROVE FailuresCounted'
    OBVIOUS
  <1>0. RealType
    BY DEF TypeOK
  <1> USE <1>0, DurationAssumption DEF RealType, Times, PenalizeAfterFailures,
          PenaltyClearSuccesses, FailuresCounted
  <1>1. CASE UNCHANGED realVars
    BY <1>1 DEF realVars
  <1>2. ASSUME NEW t \in FailTarget, RecordRealFailure(t) PROVE FailuresCounted'
    <2> DEFINE seen == IF PenaltyOver THEN <<>> ELSE fail_targets
    <2>1. /\ seen \in Seq(FailTarget) /\ Len(seen) <= 3
          /\ \A i, j \in 1 .. Len(seen) : seen[i] = seen[j] => i = j
          /\ \A i \in 1 .. Len(seen) : seen[i] \in failed
      BY DEF PenaltyOver
    <2>2. /\ PenaltyOver => Len(seen) = 0
          /\ ~PenaltyOver => Len(seen) = real_failures
      OBVIOUS
    <2>3. PenaltyOver => ~Listed(seen, t)
      BY DEF Listed
    <2>4. ~PenaltyOver => seen = fail_targets
      OBVIOUS
    <2> HIDE DEF seen
    <2>5. failed' = failed \cup {t} /\ IsFiniteSet(failed')
      BY <1>2, FS_AddElement DEF RecordRealFailure
    <2>6. CASE Listed(seen, t)
      <3>1. UNCHANGED <<real_failures, fail_targets, penalty>> /\ ~PenaltyOver
        BY <1>2, <2>3, <2>6 DEF RecordRealFailure, seen
      <3> QED BY <3>1, <2>5 DEF PenaltyOver
    <2>7. CASE ~Listed(seen, t)
      <3>1. fail_targets' = Push(seen, t, 3)
        BY <1>2, <2>7 DEF RecordRealFailure, seen
      <3>2. /\ Len(seen) = 3 => real_failures' = 3
            /\ Len(seen) < 3 => real_failures' = Len(seen) + 1
        BY <1>2, <2>1, <2>2, <2>7 DEF RecordRealFailure, seen, UpTo
      <3>3. penalty' \in {-1, penalty, Penalty} /\ (penalty' = -1 => real_failures' < 3)
        BY <1>2, <2>1, <2>2, <2>7 DEF RecordRealFailure, seen, UpTo, PenaltyOver
      <3>4. /\ Len(fail_targets') = real_failures'
            /\ \A i \in 1 .. Len(fail_targets') : fail_targets'[i] \in failed'
            /\ \A i, j \in 1 .. Len(fail_targets') :
                 fail_targets'[i] = fail_targets'[j] => i = j
        <4>1. AllIn(seen, failed) /\ Distinct(seen)
          BY <2>1 DEF AllIn, Distinct
        <4>2. /\ \/ Len(seen) = 3 /\ Len(Push(seen, t, 3)) = 3
                 \/ Len(seen) < 3 /\ Len(Push(seen, t, 3)) = Len(seen) + 1
              /\ Distinct(Push(seen, t, 3)) /\ AllIn(Push(seen, t, 3), failed \cup {t})
          BY <2>1, <2>7, <4>1, PushDistinct
        <4>3. Len(fail_targets') = real_failures'
          BY <3>1, <3>2, <4>2, Zenon
        <4> QED BY <2>5, <3>1, <4>2, <4>3 DEF Distinct, AllIn
      <3> QED BY <2>5, <3>3, <3>4
    <2> QED BY <2>6, <2>7
  <1>3. CASE RecordRealSuccess
    BY <1>3, EmptyFinite DEF RecordRealSuccess, IsPenalized
  <1>4. CASE NetworkChange
    BY <1>4, EmptyFinite DEF NetworkChange
  <1>5. CASE Tick
    <2>1. UNCHANGED <<fail_targets, real_failures>> /\ penalty' = Less(penalty)
      BY <1>5 DEF Tick
    <2>2. IF penalty = 1 THEN failed' = {} ELSE failed' = failed
      BY <1>5 DEF Tick
    <2>3. CASE penalty = 1
      <3>1. penalty' = 0
        BY <2>1, <2>3 DEF Less
      <3>2. IsFiniteSet(failed')
        <4>1. failed' = {}
          BY <2>2, <2>3
        <4> QED BY <4>1, EmptyFinite
      <3> QED BY <2>1, <3>1, <3>2
    <2>4. CASE penalty # 1
      <3>1. failed' = failed /\ (penalty' = -1 <=> penalty = -1) /\ (penalty' # 0 => penalty # 0)
        BY <2>1, <2>2, <2>4 DEF Less
      <3> QED BY <2>1, <3>1
    <2> QED BY <2>3, <2>4
  <1>6. \/ UNCHANGED realVars \/ RecordRealSuccess \/ NetworkChange \/ Tick
        \/ \E t \in FailTarget : RecordRealFailure(t)
    BY DEF Next, Checker, vars, PoolConnected, PoolFailed, RealFailure, FirstDownFast,
           FirstDownSlow, MarkActive, TriggerProbe, CheckerPause, CheckerProbe,
           ProbeSuccess, ProbeFailure, CheckerDelay, CheckerTimer, CheckerNotified
  <1> QED BY <1>1, <1>2, <1>3, <1>4, <1>5, <1>6

\* So a penalty, which needs a full list, comes after failures of three targets.
LEMMA PenaltyStep ==
  TypeOK /\ FailuresCounted /\ [Next]_vars =>
    (~IsPenalized /\ IsPenalized' => Cardinality(failed') >= PenalizeAfterFailures)
  <1> SUFFICES ASSUME TypeOK, FailuresCounted, FailuresCounted', [Next]_vars,
                      ~IsPenalized, IsPenalized'
               PROVE  Cardinality(failed') >= 3
    BY FailuresCountedStep DEF PenalizeAfterFailures
  <1>0. RealType
    BY DEF TypeOK
  <1> USE <1>0, DurationAssumption DEF RealType, Times, IsPenalized, PenalizeAfterFailures
  <1>1. PICK t \in FailTarget : RecordRealFailure(t)
    BY DEF Next, Checker, vars, PoolConnected, PoolFailed, RealFailure, FirstDownFast,
           FirstDownSlow, MarkActive, TriggerProbe, CheckerPause, CheckerProbe,
           ProbeSuccess, ProbeFailure, CheckerDelay, CheckerTimer, CheckerNotified,
           realVars, NetworkChange, Tick, Less, RecordRealSuccess
  <1>2. penalty = -1 /\ real_failures = 2
    BY <1>1 DEF RecordRealFailure, PenaltyOver, FailuresCounted
  <1>3. ~Listed(fail_targets, t) /\ failed' = failed \cup {t}
    BY <1>1, <1>2 DEF RecordRealFailure, PenaltyOver
  <1>4. /\ fail_targets[1] \in failed /\ fail_targets[2] \in failed
        /\ fail_targets[1] # fail_targets[2]
        /\ fail_targets[1] # t /\ fail_targets[2] # t
    BY <1>2, <1>3 DEF FailuresCounted, Listed
  <1>5. IsFiniteSet(failed')
    BY DEF FailuresCounted
  <1>6. fail_targets[1] \in failed' /\ fail_targets[2] \in failed' /\ t \in failed'
    BY <1>3, <1>4
  <1> HIDE DEF RealType, IsPenalized
  <1> QED BY ONLY <1>4, <1>5, <1>6, ThreeMembers

\* A penalty starts only after failures of three different targets.
THEOREM PenaltyIsEarned == Spec => PenaltyEarned
  <1>1. Init => FailuresCounted
    BY EmptyFinite DEF Init, FailuresCounted, PenalizeAfterFailures
  <1>2. TypeOK /\ FailuresCounted /\ [Next]_vars =>
          [~IsPenalized /\ IsPenalized' => Cardinality(failed') >= PenalizeAfterFailures]_vars
    BY PenaltyStep
  <1> QED BY <1>1, <1>2, TypeCorrect, FailuresCountedStep, PTL DEF Spec, PenaltyEarned

-----------------------------------------------------------------------------
(* The row of outcomes behind the counters.                                *)

\* The tail of a sequence of three.
LEMMA TailOfThree ==
  ASSUME NEW S, NEW s \in Seq(S), Len(s) = 3
  PROVE  /\ Tail(s) \in Seq(S) /\ Len(Tail(s)) = 2
         /\ Tail(s)[1] = s[2] /\ Tail(s)[2] = s[3]
  <1>1. s # <<>>
    OBVIOUS
  <1>2. Tail(s) \in Seq(S) /\ Len(Tail(s)) = 2 /\ \A i \in 1 .. 2 : Tail(s)[i] = s[i + 1]
    BY <1>1
  <1> QED BY <1>2

\* Append, element by element.
LEMMA AppendAt ==
  ASSUME NEW S, NEW s \in Seq(S), NEW x \in S, NEW n \in Nat, n = Len(s)
  PROVE  /\ Len(Append(s, x)) = n + 1 /\ Append(s, x)[n + 1] = x
         /\ \A i \in 1 .. n : Append(s, x)[i] = s[i]
  OBVIOUS

\* Push on a sequence that is not full, element by element.
LEMMA PushShort ==
  ASSUME NEW S, NEW s \in Seq(S), NEW x \in S, NEW n \in Nat, n = Len(s), n < 3
  PROVE  /\ Len(Push(s, x, 3)) = n + 1 /\ Push(s, x, 3)[n + 1] = x
         /\ \A i \in 1 .. n : Push(s, x, 3)[i] = s[i]
  <1>1. Push(s, x, 3) = Append(s, x)
    BY DEF Push
  <1> QED BY <1>1, AppendAt

\* Push on a full sequence, element by element.
LEMMA PushFull ==
  ASSUME NEW S, NEW s \in Seq(S), NEW x \in S, Len(s) = 3
  PROVE  /\ Len(Push(s, x, 3)) = 3 /\ Push(s, x, 3)[3] = x
         /\ Push(s, x, 3)[1] = s[2] /\ Push(s, x, 3)[2] = s[3]
  <1> DEFINE r == Tail(s)
  <1>1. r \in Seq(S) /\ Len(r) = 2 /\ r[1] = s[2] /\ r[2] = s[3]
    BY TailOfThree
  <1>2. Push(s, x, 3) = Append(r, x)
    BY DEF Push
  <1> HIDE DEF r
  <1>n. PICK n \in Nat : n = 2
    OBVIOUS
  <1>3. /\ Len(Append(r, x)) = n + 1 /\ Append(r, x)[n + 1] = x
        /\ \A i \in 1 .. n : Append(r, x)[i] = r[i]
    <2>1. n = Len(r)
      BY <1>1, <1>n
    <2>2. r \in Seq(S)
      BY <1>1
    <2> QED BY ONLY <2>1, <2>2, x \in S, n \in Nat
  <1>4. n + 1 = 3 /\ 1 \in 1 .. n /\ 2 \in 1 .. n
    BY <1>n
  <1> QED BY <1>1, <1>2, <1>3, <1>4

\* The n outcomes in s end with one of A, or with two failures.
LastIs(s, n, A) == n >= 1 /\ s[n] \in A
LastTwoFailed(s, n) == n >= 2 /\ s[n] = "F" /\ s[n - 1] = "F"

\* The counters count outcomes at the end of the history: a node with three failures in
\* a row is dead, and the first success, or the new path of a dead node, came last.
RowCounted ==
  /\ failures >= 1 => LastIs(outcomes, Len(outcomes), {"F"})
  /\ failures = 2 => LastTwoFailed(outcomes, Len(outcomes))
  /\ failures = 3 => dead
  /\ successes >= 1 => LastIs(outcomes, Len(outcomes), {"S", "N"})

\* The two counters agree with the last outcomes, so death and recovery have their rows.
LEMMA RowStep ==
  ASSUME TypeOK, RowCounted, [Next]_vars
  PROVE  RowCounted' /\ DeathStep /\ RecoveryStep
  <1>0. /\ outcomes \in Seq(OutcomeKind) /\ Len(outcomes) <= 3
        /\ failures \in 0 .. 3 /\ successes \in 0 .. 2 /\ dead \in BOOLEAN
    BY DEF TypeOK, ProbeType, DeadAfterFailures, RecoverAfterSuccesses
  <1>n. PICK n \in Nat : n = Len(outcomes) /\ n <= 3
    BY <1>0
  <1>k. n \in {0, 1, 2} \/ n = 3
    BY <1>n
  <1>r. /\ failures >= 1 => LastIs(outcomes, n, {"F"})
        /\ failures = 2 => LastTwoFailed(outcomes, n)
        /\ failures = 3 => dead
        /\ successes >= 1 => LastIs(outcomes, n, {"S", "N"})
    BY <1>n DEF RowCounted
  <1>o. ASSUME NEW o \in OutcomeKind, Outcome(o)
        PROVE  \E k \in 1 .. 3 :
                 /\ Len(outcomes') = k /\ outcomes'[k] = o
                 /\ n >= 1 => k >= 2 /\ outcomes'[k - 1] = outcomes[n]
                 /\ n >= 2 => k = 3 /\ outcomes'[1] = outcomes[n - 1]
    <2>1. outcomes' = Push(outcomes, o, 3)
      BY <1>o DEF Outcome, DeadAfterFailures
    <2>2. CASE n = 3
      <3>1. /\ Len(outcomes') = 3 /\ outcomes'[3] = o
            /\ outcomes'[1] = outcomes[2] /\ outcomes'[2] = outcomes[3]
        <4>1. Len(outcomes) = 3
          BY <1>n, <2>2
        <4> QED BY <1>0, <2>1, <4>1, PushFull
      <3> QED BY <2>2, <3>1
    <2>3. CASE n \in {0, 1, 2}
      <3>1. /\ Len(outcomes') = n + 1 /\ outcomes'[n + 1] = o
            /\ \A i \in 1 .. n : outcomes'[i] = outcomes[i]
        BY <1>0, <1>n, <2>1, <2>3, PushShort
      <3>2. n + 1 \in 1 .. 3 /\ (n + 1) - 1 = n
        BY <2>3
      <3>3. n >= 1 => outcomes'[n] = outcomes[n]
        BY <2>3, <3>1
      <3>4. n >= 2 => n + 1 = 3 /\ outcomes'[1] = outcomes[n - 1]
        BY <2>3, <3>1
      <3> QED BY <2>3, <3>1, <3>2, <3>3, <3>4
    <2> QED BY <1>k, <2>2, <2>3
  <1>1. CASE UNCHANGED probeVars
    BY <1>1 DEF RowCounted, probeVars, DeathStep, RecoveryStep
  <1>2. CASE \E ms \in Latency : RecordLatency(ms)
    <2>1. /\ failures' = 0 /\ successes' >= 1 /\ Outcome("S")
          /\ dead /\ ~dead' => successes >= 1
          /\ ~dead => ~dead'
      BY <1>0, <1>2 DEF RecordLatency, FailuresAfterSuccess, UpTo, RecoverAfterSuccesses
    <2>2. PICK k \in 1 .. 3 : /\ Len(outcomes') = k /\ outcomes'[k] = "S"
                              /\ n >= 1 => k >= 2 /\ outcomes'[k - 1] = outcomes[n]
      BY <1>o, <2>1 DEF OutcomeKind
    <2>3. RowCounted'
      BY <2>1, <2>2 DEF RowCounted, LastIs
    <2>4. ASSUME dead, ~dead'
          PROVE  \E i \in 1 .. k - 1 : /\ i + 1 = k /\ outcomes'[i] \in {"S", "N"}
                                       /\ outcomes'[i + 1] = "S"
      <3>1. LastIs(outcomes, n, {"S", "N"})
        BY <1>r, <2>1, <2>4
      <3>2. k - 1 \in 1 .. k - 1 /\ (k - 1) + 1 = k /\ outcomes'[k - 1] \in {"S", "N"}
        BY <2>2, <3>1 DEF LastIs
      <3> QED BY <2>2, <3>2
    <2> QED BY <2>1, <2>2, <2>3, <2>4 DEF DeathStep, RecoveryStep
  <1>3. CASE RecordFailure
    <2>1. /\ successes' = 0 /\ Outcome("F")
          /\ failures' = IF failures = 3 THEN 3 ELSE failures + 1
          /\ dead' = (dead \/ failures' >= 3)
      BY <1>0, <1>3 DEF RecordFailure, UpTo, DeadAfterFailures
    <2>2. PICK k \in 1 .. 3 : /\ Len(outcomes') = k /\ outcomes'[k] = "F"
                              /\ n >= 1 => k >= 2 /\ outcomes'[k - 1] = outcomes[n]
                              /\ n >= 2 => k = 3 /\ outcomes'[1] = outcomes[n - 1]
      BY <1>o, <2>1 DEF OutcomeKind
    <2>3. /\ failures' >= 1 => LastIs(outcomes', k, {"F"})
          /\ failures' = 2 => LastTwoFailed(outcomes', k)
          /\ successes' >= 1 => LastIs(outcomes', k, {"S", "N"})
      BY <1>0, <1>r, <2>1, <2>2 DEF LastIs, LastTwoFailed
    <2>4. failures' = 3 => dead'
      <3>1. failures' = 3 => failures' >= 3
        OBVIOUS
      <3> QED BY <2>1, <3>1
    <2>5. RowCounted'
      BY <2>2, <2>3, <2>4 DEF RowCounted
    <2>6. ASSUME ~dead, dead' PROVE k = 3 /\ \A i \in 1 .. 3 : outcomes'[i] = "F"
      <3>1. failures = 2
        BY <1>0, <1>r, <2>1, <2>6
      <3>2. n >= 2 /\ outcomes[n] = "F" /\ outcomes[n - 1] = "F"
        BY <1>r, <3>1 DEF LastTwoFailed
      <3>3. k = 3 /\ outcomes'[1] = "F" /\ outcomes'[2] = "F" /\ outcomes'[3] = "F"
        BY <2>2, <3>2
      <3> QED BY <3>3
    <2>7. dead => dead'
      BY <2>1
    <2> QED BY <2>2, <2>5, <2>6, <2>7 DEF DeathStep, RecoveryStep, DeadAfterFailures
  <1>4. CASE NetworkChange
    <2>1. failures' = 0 /\ dead' = dead /\ Outcome("N")
      BY <1>4 DEF NetworkChange
    <2>2. PICK k \in 1 .. 3 : Len(outcomes') = k /\ outcomes'[k] = "N"
      BY <1>o, <2>1 DEF OutcomeKind
    <2> QED BY <2>1, <2>2 DEF RowCounted, LastIs, DeathStep, RecoveryStep
  <1>5. \/ UNCHANGED probeVars \/ RecordFailure \/ NetworkChange
        \/ \E ms \in Latency : RecordLatency(ms)
    BY DEF Next, Checker, vars, PoolConnected, PoolFailed, RealFailure, FirstDownFast,
           FirstDownSlow, MarkActive, TriggerProbe, Tick, CheckerPause, CheckerProbe,
           ProbeSuccess, ProbeFailure, RecordProbeSuccess, RecordProbeFailure,
           CheckerDelay, CheckerTimer, CheckerNotified
  <1> QED BY <1>1, <1>2, <1>3, <1>4, <1>5

\* A node dies only after three failures in a row on one path, and comes back only after
\* two successes in a row or one on a new path.
THEOREM DeathAndRecovery == Spec => Hysteresis
  <1>1. Init => RowCounted
    BY DEF Init, RowCounted
  <1>2. TypeOK /\ RowCounted /\ [Next]_vars =>
          RowCounted' /\ [DeathStep /\ RecoveryStep]_vars
    BY RowStep
  <1> QED BY <1>1, <1>2, TypeCorrect, PTL DEF Spec, Hysteresis
=============================================================================
