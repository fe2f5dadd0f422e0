---------------------------- MODULE MCNodeHealth ----------------------------
(* Model checking of NodeHealth: targets are numbers, met in their order.  *)
EXTENDS NodeHealth, TLC

RealQuiet == real_failures = 0 /\ penalty = -1

SlowQuiet == slow_count = 0 /\ probe_baseline = NoLatency /\ floor = NoFloor /\ cooldown = 0

\* Penalties and probes share the clock and path changes, and nothing else: failures of
\* connections begin before the first outcome of a probe or not at all, and probes wait for
\* the end of a row of failures.
OneAtATime ==
  /\ RealFailure =>
       /\ samples = <<>> /\ failures = 0 /\ successes = 0 /\ ~dead /\ cpc = "loop"
       /\ SlowQuiet
  /\ PoolConnected \/ PoolFailed \/ Checker => RealQuiet

\* A target that joins those in old is the least that is not among them.
InTurn(old, new, all) == \A t \in new \ old, s \in all : s < t => s \in old

\* Targets are interchangeable.
InOrder ==
  /\ InTurn({slow_targets[i] : i \in DOMAIN slow_targets},
            {slow_targets'[i] : i \in DOMAIN slow_targets'}, SlowTarget)
  /\ InTurn(failed, failed', FailTarget)
=============================================================================
