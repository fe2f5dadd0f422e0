----------------------------- MODULE NodeHealth -----------------------------
(***************************************************************************)
(* The health record of one proxy node (PoolStats in                       *)
(* src/src/proxy/pool.rs) and the task that probes the node                *)
(* (src/src/proxy/healthcheck.rs).                                         *)
(*                                                                         *)
(* The record is written by four kinds of task under one lock: the pool's  *)
(* connect tasks, the connections of users (src/src/proxy/handler.rs), the *)
(* network watcher and the health checker.  Users wake the checker through *)
(* a Notify after they have released the lock.                             *)
(*                                                                         *)
(* An instant in the code is the time left until then in the model, so     *)
(* that Tick is the only action that moves the clock.                      *)
(***************************************************************************)
EXTENDS Integers, Sequences, FiniteSets

CONSTANTS
  FailTarget,   \* targets whose connections may fail
  SlowTarget,   \* targets whose connections may bring a first byte
  Latency,      \* round trip and first byte times that may be measured
  NoLatency,    \* no measurement
  SlowSlack,    \* 1500 ms: what a slow first byte exceeds the baseline by
  SampleCap,    \* 10: latency samples kept
  Penalty,      \* PENALTY_DURATION
  Cooldown,     \* PROBE_TRIGGER_COOLDOWN
  FloorFor,     \* SLOW_FLOOR_DURATION
  IdlePause,    \* GROUP_IDLE_PAUSE
  MaxTriggers   \* bound: users between the record and trigger_probe

DeadAfterFailures     == 3
RecoverAfterSuccesses == 2
PenalizeAfterFailures == 3
PenaltyClearSuccesses == 2
SlowTriggerCount      == 3
MaxResumeProbeRounds  == 3

ASSUME LatencyAssumption == Latency \subseteq Nat /\ NoLatency \notin Nat
ASSUME DurationAssumption ==
  /\ {Penalty, Cooldown, FloorFor, IdlePause, SampleCap} \subseteq Nat \ {0}
  /\ SlowSlack \in Nat /\ MaxTriggers \in Nat

VARIABLES
  samples,               \* latency_samples
  failures, successes,   \* consecutive_*, which stop counting where nothing more depends on them
  dead,
  real_failures, real_successes, fail_targets,
  penalty,               \* penalized_until: time left, 0 once it is over, -1 for None
  slow_count, slow_targets,
  cooldown,              \* time until last_probe_trigger + PROBE_TRIGGER_COOLDOWN
  probe_baseline,
  floor,                 \* slow_floor: rtt, baseline and the time left, -1 for None
  inactive,              \* time since last_active
  triggering,            \* users that have yet to call trigger_probe
  permit,                \* probe_notify holds a permit
  cpc,                   \* where the checker is
  probe_round, paused, rounds,  \* its is_probe_round, paused and resume_fast_rounds
  outcomes,              \* history: the last outcomes, "F", "S", and "N" for a path change
  failed                 \* history: targets failed since what cancels them

probeVars   == <<samples, failures, successes, dead, outcomes>>
realVars    == <<real_failures, real_successes, fail_targets, penalty, failed>>
slowVars    == <<slow_count, slow_targets, cooldown>>
baseVars    == <<probe_baseline, floor>>
wakeVars    == <<inactive, triggering, permit>>
checkerVars == <<cpc, probe_round, paused, rounds>>
vars == <<probeVars, realVars, slowVars, baseVars, wakeVars, checkerVars>>

NoFloor == [rtt |-> NoLatency, baseline |-> NoLatency, left |-> -1]

Init ==
  /\ samples = <<>> /\ failures = 0 /\ successes = 0 /\ dead = FALSE
  /\ real_failures = 0 /\ real_successes = 0 /\ fail_targets = <<>> /\ penalty = -1
  /\ slow_count = 0 /\ slow_targets = <<>> /\ cooldown = 0
  /\ probe_baseline = NoLatency /\ floor = NoFloor
  /\ inactive = 0 /\ triggering = 0 /\ permit = FALSE
  /\ cpc = "loop" /\ probe_round = FALSE /\ paused = FALSE /\ rounds = 0
  /\ outcomes = <<>> /\ failed = {}

-----------------------------------------------------------------------------
(* PoolStats.                                                              *)

Listed(s, t) == \E i \in 1 .. Len(s) : s[i] = t

\* s with x added at the end, without its first element if it is full.
Push(s, x, cap) == Append(IF Len(s) >= cap THEN Tail(s) ELSE s, x)

UpTo(n, cap) == IF n > cap THEN cap ELSE n

\* m is at position len/2 of the samples in order.
IsMedian(m) ==
  /\ Cardinality({i \in 1 .. Len(samples) : samples[i] < m}) <= Len(samples) \div 2
  /\ Len(samples) \div 2 < Cardinality({i \in 1 .. Len(samples) : samples[i] <= m})

\* median_latency_ms: NoLatency without samples.
Median == IF \E m \in Latency : IsMedian(m) THEN CHOOSE m \in Latency : IsMedian(m)
          ELSE NoLatency

\* is_slow_ttfb with a baseline.
IsSlow(ms, baseline) == ms > 4 * baseline /\ ms > baseline + SlowSlack

OutcomeKind == {"F", "S", "N"}

Outcome(o) == outcomes' = Push(outcomes, o, DeadAfterFailures)

FailuresAfterSuccess == 0

RecordLatency(ms) ==
  /\ samples' = Push(samples, ms, SampleCap)
  /\ failures' = FailuresAfterSuccess
  /\ successes' = UpTo(successes + 1, RecoverAfterSuccesses)
  /\ dead' = (dead /\ successes' < RecoverAfterSuccesses)
  /\ Outcome("S")

RecordFailure ==
  /\ failures' = UpTo(failures + 1, DeadAfterFailures)
  /\ successes' = 0
  /\ dead' = (dead \/ failures' >= DeadAfterFailures)
  /\ Outcome("F")
  /\ UNCHANGED samples

IsPenalized == penalty > 0

\* Mutant: the failures counted before a penalty still count once it is over.
PenaltyOverNever == FALSE

\* A penalty that has run out is only noticed, and the counts with it dropped, here.
PenaltyOver == penalty = 0

\* A failure starts the successes again.
SuccessesAfterFailure == 0

\* record_real_failure_at
RecordRealFailure(t) ==
  LET seen  == IF PenaltyOver THEN <<>> ELSE fail_targets
      count == IF PenaltyOver THEN 0 ELSE real_failures
  IN  /\ failed' = failed \cup {t}
      /\ real_successes' = SuccessesAfterFailure
      /\ IF Listed(seen, t) THEN UNCHANGED <<real_failures, fail_targets, penalty>>
         ELSE /\ fail_targets' = Push(seen, t, 3)
              /\ real_failures' = UpTo(count + 1, PenalizeAfterFailures)
              /\ penalty' = IF count + 1 >= PenalizeAfterFailures THEN Penalty
                            ELSE IF PenaltyOver THEN -1 ELSE penalty

\* record_real_success_at
RecordRealSuccess ==
  LET clears == IsPenalized => real_successes + 1 >= PenaltyClearSuccesses
  IN  /\ real_failures' = 0 /\ fail_targets' = <<>>
      /\ penalty' = IF clears THEN -1 ELSE penalty
      /\ real_successes' = IF clears THEN 0 ELSE real_successes + 1
      /\ failed' = {}

-----------------------------------------------------------------------------
(* The tasks that write the record.                                        *)

\* A connect task of the pool has its outcome.
PoolConnected == /\ \E ms \in Latency : RecordLatency(ms)
                 /\ UNCHANGED <<realVars, slowVars, baseVars, wakeVars, checkerVars>>

PoolFailed == /\ RecordFailure
              /\ UNCHANGED <<realVars, slowVars, baseVars, wakeVars, checkerVars>>

\* A user's connection ends without a byte from the target.
RealFailure == /\ \E t \in FailTarget : RecordRealFailure(t)
               /\ UNCHANGED <<probeVars, slowVars, baseVars, wakeVars, checkerVars>>

\* record_first_down: a byte came, and it was not slow, or nothing can be said of it.
FirstDownFast ==
  /\ RecordRealSuccess
  /\ \/ /\ \E ms \in Latency : Median # NoLatency /\ ~IsSlow(ms, Median)
        /\ slow_count' = 0 /\ slow_targets' = <<>>
     \/ UNCHANGED <<slow_count, slow_targets>>
  /\ UNCHANGED <<probeVars, cooldown, baseVars, wakeVars, checkerVars>>

\* It was slow: record_real_slow_at, the third target in a row asking for a probe.
FirstDownSlow ==
  \E t \in SlowTarget, ms \in Latency :
    /\ Median # NoLatency /\ IsSlow(ms, Median)
    /\ RecordRealSuccess
    /\ IF Listed(slow_targets, t) THEN UNCHANGED <<slowVars, probe_baseline, triggering>>
       ELSE IF slow_count + 1 >= SlowTriggerCount /\ cooldown = 0
       THEN /\ triggering < MaxTriggers
            /\ slow_count' = 0 /\ slow_targets' = <<>>
            /\ cooldown' = Cooldown
            /\ probe_baseline' = Median
            /\ triggering' = triggering + 1
       ELSE /\ slow_count' = UpTo(slow_count + 1, SlowTriggerCount)
            /\ slow_targets' = Push(slow_targets, t, SlowTriggerCount)
            /\ UNCHANGED <<cooldown, probe_baseline, triggering>>
    /\ UNCHANGED <<probeVars, floor, inactive, permit, checkerVars>>

Idle == inactive >= IdlePause

\* Mutant: traffic after a pause does not ask for a probe.
AsksForProbeNever == FALSE

AsksForProbe == Idle

\* mark_active_at: the first traffic after a pause asks for a probe.
MarkActive ==
  /\ AsksForProbe => triggering < MaxTriggers
  /\ triggering' = IF AsksForProbe THEN triggering + 1 ELSE triggering
  /\ inactive' = 0
  /\ UNCHANGED <<probeVars, realVars, slowVars, baseVars, permit, checkerVars>>

\* trigger_probe: notify_one keeps one permit for a checker that does not wait.
TriggerProbe ==
  /\ triggering > 0
  /\ triggering' = triggering - 1
  /\ permit' = TRUE
  /\ UNCHANGED <<probeVars, realVars, slowVars, baseVars, inactive, checkerVars>>

\* on_network_change
NetworkChange ==
  /\ failures' = 0
  /\ successes' = IF dead THEN RecoverAfterSuccesses - 1 ELSE successes
  /\ real_failures' = 0 /\ real_successes' = 0 /\ fail_targets' = <<>> /\ penalty' = -1
  /\ slow_count' = 0 /\ slow_targets' = <<>>
  /\ probe_baseline' = NoLatency /\ floor' = NoFloor
  /\ Outcome("N")
  /\ failed' = {}
  /\ UNCHANGED <<samples, dead, cooldown, wakeVars, checkerVars>>

Less(n) == IF n > 0 THEN n - 1 ELSE n

\* Time passes.  A penalty that runs out takes its failures with it.
Tick ==
  /\ penalty' = Less(penalty)
  /\ cooldown' = Less(cooldown)
  /\ floor' = [rtt |-> floor.rtt, baseline |-> floor.baseline, left |-> Less(floor.left)]
  /\ inactive' = UpTo(inactive + 1, IdlePause)
  /\ failed' = IF penalty = 1 THEN {} ELSE failed
  /\ UNCHANGED <<probeVars, real_failures, real_successes, fail_targets, slow_count,
                 slow_targets, probe_baseline, triggering, permit, checkerVars>>

-----------------------------------------------------------------------------
(* start_health_checker.                                                   *)

\* Nobody uses the node: no probe until that changes.
CheckerPause ==
  /\ cpc = "loop" /\ Idle
  /\ paused' = TRUE /\ cpc' = "wait"
  /\ UNCHANGED <<probeVars, realVars, slowVars, baseVars, wakeVars, probe_round, rounds>>

CheckerProbe ==
  /\ cpc = "loop" /\ ~Idle
  /\ paused' = FALSE
  /\ rounds' = IF paused THEN MaxResumeProbeRounds ELSE rounds
  /\ cpc' = "probe"
  /\ UNCHANGED <<probeVars, realVars, slowVars, baseVars, wakeVars, probe_round>>

\* maybe_clear_slow_floor_at
ClearFloor(ms) == floor.left >= 0 /\ (floor.left > 0 => ~IsSlow(ms, floor.baseline))

\* Mutant: a probe settles a round asked for by users, and revives no dead node.
RecordProbeSuccessOfLiving(ms) ==
  /\ IF dead THEN UNCHANGED probeVars ELSE RecordLatency(ms)
  /\ IF probe_round /\ probe_baseline # NoLatency
     THEN probe_baseline' = NoLatency /\ UNCHANGED floor
     ELSE UNCHANGED <<probe_baseline, floor>>

\* record_probe_success: a round asked for by users settles whether the node is slow.
RecordProbeSuccess(ms) ==
  /\ RecordLatency(ms)
  /\ IF probe_round /\ probe_baseline # NoLatency
     THEN /\ probe_baseline' = NoLatency
          /\ floor' = IF IsSlow(ms, probe_baseline)
                      THEN [rtt |-> ms, baseline |-> probe_baseline, left |-> FloorFor]
                      ELSE floor
     ELSE /\ floor' = IF ClearFloor(ms) THEN NoFloor ELSE floor
          /\ UNCHANGED probe_baseline

RecordProbeFailure ==
  /\ RecordFailure
  /\ probe_baseline' = IF probe_round THEN NoLatency ELSE probe_baseline
  /\ UNCHANGED floor

\* The exchange over a tunnel or a QUIC stream ended with the answer hoped for, or not.
ProbeSuccess ==
  /\ cpc = "probe"
  /\ \E ms \in Latency : RecordProbeSuccess(ms)
  /\ cpc' = "delay"
  /\ UNCHANGED <<realVars, slowVars, wakeVars, probe_round, paused, rounds>>

ProbeFailure ==
  /\ cpc = "probe"
  /\ RecordProbeFailure
  /\ cpc' = "delay"
  /\ UNCHANGED <<realVars, slowVars, wakeVars, probe_round, paused, rounds>>

\* next_probe_delay: a few short waits after a pause, until the health is settled.
CheckerDelay ==
  /\ cpc = "delay"
  /\ rounds' = IF rounds > 0 /\ failures < DeadAfterFailures
                             /\ successes < RecoverAfterSuccesses
               THEN rounds - 1 ELSE 0
  /\ cpc' = "wait"
  /\ UNCHANGED <<probeVars, realVars, slowVars, baseVars, wakeVars, probe_round, paused>>

\* The sleep of the select ends.
CheckerTimer ==
  /\ cpc = "wait"
  /\ probe_round' = FALSE
  /\ cpc' = "loop"
  /\ UNCHANGED <<probeVars, realVars, slowVars, baseVars, wakeVars, paused, rounds>>

CheckerNotified ==
  /\ cpc = "wait" /\ permit
  /\ permit' = FALSE
  /\ probe_round' = TRUE
  /\ cpc' = "loop"
  /\ UNCHANGED <<probeVars, realVars, slowVars, baseVars, inactive, triggering, paused,
                 rounds>>

-----------------------------------------------------------------------------
Checker == \/ CheckerPause \/ CheckerProbe \/ ProbeSuccess \/ ProbeFailure
           \/ CheckerDelay \/ CheckerTimer \/ CheckerNotified

Next == \/ PoolConnected \/ PoolFailed \/ RealFailure \/ FirstDownFast \/ FirstDownSlow
        \/ MarkActive \/ TriggerProbe \/ NetworkChange \/ Tick \/ Checker

Spec == Init /\ [][Next]_vars

\* The checker's task and a user on its way to trigger_probe are scheduled.
Fairness == WF_vars(Checker) /\ WF_vars(TriggerProbe)

FairSpec == Spec /\ Fairness

-----------------------------------------------------------------------------
(* Properties.                                                             *)

Times(n) == -1 .. n

ProbeType ==
  /\ samples \in Seq(Latency) /\ Len(samples) <= SampleCap
  /\ failures \in 0 .. DeadAfterFailures /\ successes \in 0 .. RecoverAfterSuccesses
  /\ dead \in BOOLEAN
  /\ outcomes \in Seq(OutcomeKind) /\ Len(outcomes) <= DeadAfterFailures

RealType ==
  /\ real_failures \in 0 .. PenalizeAfterFailures
  /\ real_successes \in 0 .. PenaltyClearSuccesses - 1
  /\ fail_targets \in Seq(FailTarget) /\ Len(fail_targets) <= 3
  /\ penalty \in Times(Penalty)
  /\ failed \subseteq FailTarget

SlowType ==
  /\ slow_count \in 0 .. SlowTriggerCount
  /\ slow_targets \in Seq(SlowTarget) /\ Len(slow_targets) <= SlowTriggerCount
  /\ cooldown \in 0 .. Cooldown
  /\ probe_baseline \in Latency \cup {NoLatency}
  /\ floor \in [rtt : Latency \cup {NoLatency}, baseline : Latency \cup {NoLatency},
                left : Times(FloorFor)]

WakeType ==
  /\ inactive \in 0 .. IdlePause /\ triggering \in Nat /\ permit \in BOOLEAN
  /\ cpc \in {"loop", "probe", "delay", "wait"}
  /\ probe_round \in BOOLEAN /\ paused \in BOOLEAN /\ rounds \in 0 .. MaxResumeProbeRounds

\* The record and the checker stay within their bounds, windows of targets and of
\* samples included.
TypeOK == ProbeType /\ RealType /\ SlowType /\ WakeType

DeathStep == ~dead /\ dead' =>
  /\ Len(outcomes') = DeadAfterFailures
  /\ \A i \in 1 .. DeadAfterFailures : outcomes'[i] = "F"

RecoveryStep == dead /\ ~dead' =>
  \E i \in 1 .. Len(outcomes') - 1 :
    /\ i + 1 = Len(outcomes')
    /\ outcomes'[i] \in {"S", "N"} /\ outcomes'[i + 1] = "S"

\* A node is given up only after three failures in a row on one network path, and used
\* again only after two successes in a row, or one on a new path, whoever reports them.
Hysteresis == [][DeathStep /\ RecoveryStep]_vars

\* A penalty starts only once connections to three different targets have failed, with
\* no success, path change or end of an earlier penalty since.
PenaltyEarned ==
  [][~IsPenalized /\ IsPenalized' => Cardinality(failed') >= PenalizeAfterFailures]_vars

\* While the node is used, a baseline put aside for a probe is going to be consumed by
\* one: a user is about to ask for it, the permit is there or the round has begun.
BaselineOnItsWay ==
  probe_baseline # NoLatency /\ ~Idle => triggering > 0 \/ permit \/ probe_round

\* A node that is in use and no longer fails is healthy again and again.
Recovers ==
  /\ <>[]~Idle
  /\ <>[][~(PoolFailed \/ ProbeFailure)]_vars
  => []<>~dead
=============================================================================
