------------------------------ MODULE WarmPool ------------------------------
(***************************************************************************)
(* The client's pool of pre-built tunnels (src/src/proxy/pool.rs).         *)
(*                                                                         *)
(* Concurrent actors and their shared state, one action per await-free     *)
(* stretch between two shared accesses:                                    *)
(*   - callers of WarmPool::get, which pop an idle tunnel or park on       *)
(*     `notify` for at most 10 s;                                          *)
(*   - the builder loop, which tops the queue up to `target_size`;         *)
(*   - the connect tasks the builder spawns (dial, handshake, push);       *)
(*   - the manager, which every 5 s sweeps aged tunnels and moves the      *)
(*     target by the wait/get ratio;                                       *)
(*   - the network watcher, which flushes the queue on a path change;      *)
(*   - Drop, which must bring the three background loops to an end.        *)
(*                                                                         *)
(* Tunnels and tasks are interchangeable, so they are counted, per network *)
(* path: a tunnel dialled before the last path change is "old".  The order *)
(* of the VecDeque is dropped: no property here tells two idle tunnels of  *)
(* one path apart.  Elapsed time is dropped: a timer may fire at any       *)
(* moment it is armed.                                                     *)
(***************************************************************************)
EXTENDS Integers

CONSTANTS
  PoolSize,        \* PoolConfig::pool_size
  MinTargetFloor,  \* MIN_TARGET_FLOOR (10 in the source)
  MaxTasks,        \* bound: connect tasks alive at once, late signals included
  MaxGetters,      \* bound: concurrent calls of get()
  MaxLoad,         \* bound: metric counts between two manager ticks
  FailureCap,      \* bound: consecutive_failures is not counted beyond it
  PathMayChange    \* bound: whether the network path changes in this instance

\* config.rs rejects pool_size = 0
ASSUME PoolSizeAssumption  == PoolSize \in Nat \ {0}
ASSUME FloorAssumption     == MinTargetFloor \in Nat \ {0}
ASSUME BoundsAssumption    == /\ MaxTasks \in Nat
                              /\ MaxGetters \in Nat
                              /\ MaxLoad \in Nat
                              /\ FailureCap \in Nat \ {0}
                              /\ PathMayChange \in BOOLEAN

VARIABLES
  idle,                \* queue: idle tunnels, counted per path
  connecting,          \* connect tasks inside connect_upstream, per path
  ready,               \* connect tasks holding a tunnel not yet pushed, per path
  notifying,           \* connect tasks between push_back and notify_one
  finishing,           \* connect tasks before in_flight.fetch_sub
  signalling,          \* connect tasks before task_done.notify_one
  in_flight,           \* the builder's counter of connections being built
  consecutive_failures,\* PoolStats::consecutive_failures
  target_size,         \* tunnels the builder aims at
  notify, demand_notify, task_done, builder_shutdown, net_shutdown,
                       \* the stored permit (0 or 1) of each tokio Notify
  popping, parking, parked, woken,
                       \* get() calls before pop_front, between an empty pop
                       \* and the first poll of `notified`, parked on it, and
                       \* notified but not polled since
  bpc, current_target, current_idle, current_in_flight,
                       \* the builder: where it is, and its three local reads
                       \* (0 once the loop body has no more use for them)
  mpc, wait,           \* the manager: where it is, and its swapped wait count
  wait_events, total_gets,
                       \* PoolMetrics
  wpc, net_changed,    \* the network watcher, and its watch channel
  shutdown             \* set by Drop

queueVars   == <<idle>>
taskVars    == <<connecting, ready, notifying, finishing, signalling>>
notifyVars  == <<notify, demand_notify, task_done, builder_shutdown, net_shutdown>>
getVars     == <<popping, parking, parked, woken>>
localVars   == <<current_target, current_idle, current_in_flight>>
builderVars == <<bpc, localVars>>
managerVars == <<mpc, wait>>
metricVars  == <<wait_events, total_gets>>
watcherVars == <<wpc, net_changed>>
vars == <<queueVars, taskVars, in_flight, consecutive_failures, target_size,
          notifyVars, getVars, builderVars, managerVars, metricVars,
          watcherVars, shutdown>>

(* What the steps of one actor never write.                                *)
GetFrame == UNCHANGED <<taskVars, in_flight, consecutive_failures, target_size,
                        task_done, builder_shutdown, net_shutdown, builderVars,
                        managerVars, watcherVars, shutdown>>
BuilderFrame == UNCHANGED <<idle, ready, notifying, finishing, signalling,
                            consecutive_failures, target_size, notify,
                            net_shutdown, getVars, managerVars, metricVars,
                            watcherVars, shutdown>>
TaskFrame == UNCHANGED <<target_size, demand_notify, builder_shutdown,
                         net_shutdown, popping, parking, builderVars, managerVars,
                         metricVars, watcherVars, shutdown>>
ManagerFrame == UNCHANGED <<taskVars, in_flight, consecutive_failures, notifyVars,
                            getVars, builderVars, watcherVars, shutdown>>
WatcherFrame == UNCHANGED <<taskVars, in_flight, target_size, notify, task_done,
                            builder_shutdown, getVars, builderVars, managerVars,
                            metricVars, shutdown>>

Path == {"current", "old"}

\* A per-path count with nothing in it, and the total of one.
NoTunnel == [p \in Path |-> 0]
Total(f) == f["current"] + f["old"]

\* After a path change everything dialled so far is old.
Aged(f) == [p \in Path |-> IF p = "old" THEN Total(f) ELSE 0]

BuilderPc == {"top", "readInFlight", "readFailures", "waitFull", "waitDone",
              "backoff", "minInterval", "launch", "stagger", "done"}

Min2(a, b) == IF a <= b THEN a ELSE b
Max2(a, b) == IF a >= b THEN a ELSE b

Floor == Min2(MinTargetFloor, PoolSize)

\* calls of get() under way
Callers == popping + parking + parked + woken

\* connect tasks alive
Tasks == Total(connecting) + Total(ready) + notifying + finishing + signalling

-----------------------------------------------------------------------------
Init ==
  /\ idle = NoTunnel /\ connecting = NoTunnel /\ ready = NoTunnel
  /\ notifying = 0 /\ finishing = 0 /\ signalling = 0
  /\ in_flight = 0 /\ consecutive_failures = 0
  /\ target_size = Floor
  /\ notify = 0 /\ demand_notify = 0 /\ task_done = 0
  /\ builder_shutdown = 0 /\ net_shutdown = 0
  /\ popping = 0 /\ parking = 0 /\ parked = 0 /\ woken = 0
  /\ bpc = "top" /\ current_target = 0 /\ current_idle = 0 /\ current_in_flight = 0
  /\ mpc = "sleep" /\ wait = 0
  /\ wait_events = 0 /\ total_gets = 0
  /\ wpc = "top" /\ net_changed = FALSE
  /\ shutdown = FALSE

-----------------------------------------------------------------------------
(* get(): one caller holds a reference to the pool for the whole call, so  *)
(* Drop never overlaps it and the "shut down while waiting" exits are dead *)
(* code.                                                                   *)

GetStart ==
  /\ ~shutdown
  /\ Callers < MaxGetters
  /\ total_gets + wait_events + Callers < MaxLoad
  /\ total_gets' = total_gets + 1
  /\ popping' = popping + 1
  /\ GetFrame
  /\ UNCHANGED <<idle, notify, demand_notify, parking, parked, woken, wait_events>>

\* pop_front found a usable tunnel; a wait above 50 ms is counted.
GetServed(p) ==
  /\ popping > 0 /\ idle[p] > 0
  /\ idle' = [idle EXCEPT ![p] = @ - 1]
  /\ popping' = popping - 1
  /\ wait_events' \in {wait_events, wait_events + 1}
  /\ GetFrame
  /\ UNCHANGED <<notify, demand_notify, parking, parked, woken, total_gets>>

\* pop_front found a tunnel beyond its max age, or with a FIN/RST pending: it is
\* closed and the caller pops again.
GetDiscard(p) ==
  /\ popping > 0 /\ idle[p] > 0
  /\ idle' = [idle EXCEPT ![p] = @ - 1]
  /\ GetFrame /\ UNCHANGED <<notify, demand_notify, getVars, metricVars>>

GetEmpty ==
  /\ popping > 0 /\ Total(idle) = 0
  /\ popping' = popping - 1
  /\ parking' = parking + 1
  /\ GetFrame
  /\ UNCHANGED <<idle, notify, demand_notify, parked, woken, metricVars>>

\* demand_notify.notify_one(), then the first poll of `notified`: it takes the
\* stored permit and pops again, or parks.
GetPark ==
  /\ parking > 0
  /\ parking' = parking - 1
  /\ demand_notify' = 1
  /\ notify' = 0
  /\ IF notify = 1
     THEN popping' = popping + 1 /\ UNCHANGED parked
     ELSE parked' = parked + 1 /\ UNCHANGED popping
  /\ GetFrame /\ UNCHANGED <<idle, woken, metricVars>>

\* The 10 s limit can hit at either await: the queue lock, or `notified`.
GetTimeout ==
  /\ \/ popping > 0 /\ popping' = popping - 1 /\ UNCHANGED parked
     \/ parked > 0 /\ parked' = parked - 1 /\ UNCHANGED popping
  /\ wait_events' = wait_events + 1
  /\ GetFrame
  /\ UNCHANGED <<idle, notify, demand_notify, parking, woken, total_gets>>

\* A notified caller is polled again and retries the queue.
GetResume ==
  /\ woken > 0
  /\ woken' = woken - 1
  /\ popping' = popping + 1
  /\ GetFrame
  /\ UNCHANGED <<idle, notify, demand_notify, parking, parked, metricVars>>

\* Notify::notify_one on `notify`, with w callers woken and not polled before it:
\* wake one parked caller, or store the one permit.
NotifyOne(w) ==
  IF parked > 0
  THEN parked' = parked - 1 /\ woken' = w + 1 /\ UNCHANGED notify
  ELSE notify' = 1 /\ woken' = w /\ UNCHANGED parked

\* The caller's own deadline (health checker: 5 s) drops the future.  Dropped between
\* the notification and the next poll, it passes the notification on.
GetCancelled ==
  /\ \/ popping > 0 /\ popping' = popping - 1 /\ UNCHANGED <<parked, woken, notify>>
     \/ parked > 0 /\ parked' = parked - 1 /\ UNCHANGED <<popping, woken, notify>>
     \/ woken > 0 /\ NotifyOne(woken - 1) /\ UNCHANGED popping
  /\ GetFrame /\ UNCHANGED <<idle, demand_notify, parking, metricVars>>

-----------------------------------------------------------------------------
(* The builder loop.                                                       *)

BuilderExit ==
  /\ bpc = "top" /\ shutdown
  /\ bpc' = "done"
  /\ BuilderFrame
  /\ UNCHANGED <<connecting, in_flight, demand_notify, task_done,
                 builder_shutdown, localVars>>

BuilderReadIdle ==
  /\ bpc = "top" /\ ~shutdown
  /\ bpc' = "readInFlight"
  /\ current_target' = target_size
  /\ current_idle' = Total(idle)
  /\ BuilderFrame
  /\ UNCHANGED <<connecting, in_flight, demand_notify, task_done,
                 builder_shutdown, current_in_flight>>

\* Mutant: idle tunnels are not counted.
AtCapacityInFlightOnly(f) == f >= current_target

\* Idle tunnels and connections being built have reached the target or pool_size.
AtCapacity(f) ==
  current_idle + f >= current_target \/ current_idle + f >= PoolSize

\* in_flight is loaded after the queue lock was released.
BuilderReadInFlight ==
  /\ bpc = "readInFlight"
  /\ \/ AtCapacity(in_flight) /\ bpc' = "waitFull" /\ UNCHANGED current_in_flight
     \/ ~AtCapacity(in_flight) /\ bpc' = "readFailures" /\ current_in_flight' = in_flight
  /\ current_target' = 0 /\ current_idle' = 0
  /\ BuilderFrame
  /\ UNCHANGED <<connecting, in_flight, demand_notify, task_done, builder_shutdown>>

\* Mutant: the builder waits for a connection in flight even where there is none.
ProbeOutAlways == consecutive_failures > 0

\* While failing, only one probing connection at a time.
ProbeOut == consecutive_failures > 0 /\ current_in_flight > 0

BuilderReadFailures ==
  /\ bpc = "readFailures"
  /\ bpc' = IF ProbeOut THEN "waitDone"
            ELSE IF consecutive_failures > 0 THEN "backoff" ELSE "launch"
  /\ current_in_flight' = 0
  /\ BuilderFrame
  /\ UNCHANGED <<connecting, in_flight, demand_notify, task_done,
                 builder_shutdown, current_target, current_idle>>

\* Any select! of the builder taken by the stop signal ends the loop.
BuilderStop ==
  /\ bpc \in {"waitFull", "waitDone", "backoff", "minInterval"}
  /\ builder_shutdown = 1
  /\ builder_shutdown' = 0
  /\ bpc' = "done"
  /\ BuilderFrame
  /\ UNCHANGED <<connecting, in_flight, demand_notify, task_done, localVars>>

\* Full: demand, a finished task or the 100 ms timer starts the next round.
BuilderWakeFull ==
  /\ bpc = "waitFull"
  /\ bpc' = "top"
  /\ \/ demand_notify = 1 /\ demand_notify' = 0 /\ UNCHANGED task_done
     \/ task_done = 1 /\ task_done' = 0 /\ UNCHANGED demand_notify
     \/ UNCHANGED <<demand_notify, task_done>>
  /\ BuilderFrame
  /\ UNCHANGED <<connecting, in_flight, builder_shutdown, localVars>>

\* A probing connection is out: no timer here, only task_done.
BuilderWakeDone ==
  /\ bpc = "waitDone"
  /\ task_done = 1
  /\ task_done' = 0
  /\ bpc' = "top"
  /\ BuilderFrame
  /\ UNCHANGED <<connecting, in_flight, demand_notify, builder_shutdown,
                 localVars>>

\* The backoff ran out, or demand cut it short: then at least 2 s must have passed
\* since the last failure, or the builder sleeps for the rest.
BuilderWakeBackoff ==
  /\ bpc = "backoff"
  /\ \/ /\ bpc' = IF shutdown THEN "done" ELSE "launch"
        /\ UNCHANGED demand_notify
     \/ /\ demand_notify = 1 /\ demand_notify' = 0
        /\ bpc' \in IF shutdown THEN {"done"} ELSE {"minInterval", "launch"}
  /\ BuilderFrame
  /\ UNCHANGED <<connecting, in_flight, task_done, builder_shutdown,
                 localVars>>

BuilderWakeMinInterval ==
  /\ bpc = "minInterval"
  /\ bpc' = IF shutdown THEN "done" ELSE "launch"
  /\ BuilderFrame
  /\ UNCHANGED <<connecting, in_flight, demand_notify, task_done,
                 builder_shutdown, localVars>>

BuilderLaunch ==
  /\ bpc = "launch"
  /\ in_flight' = in_flight + 1
  /\ bpc' = "stagger"
  /\ BuilderFrame
  /\ UNCHANGED <<connecting, demand_notify, task_done, builder_shutdown,
                 localVars>>

\* The SYN stagger is over, or was not needed: spawn the connect task.
BuilderSpawn ==
  /\ bpc = "stagger"
  /\ Tasks < MaxTasks
  /\ connecting' = [connecting EXCEPT !["current"] = @ + 1]
  /\ bpc' = "top"
  /\ BuilderFrame
  /\ UNCHANGED <<in_flight, demand_notify, task_done, builder_shutdown,
                 localVars>>

\* in_flight.fetch_sub(1)
ReleaseSlot == in_flight' = in_flight - 1

\* Stopped during the stagger: the slot taken by BuilderLaunch is given back.
BuilderAbort ==
  /\ bpc = "stagger"
  /\ \/ builder_shutdown = 1 /\ builder_shutdown' = 0
     \/ shutdown /\ UNCHANGED builder_shutdown
  /\ ReleaseSlot
  /\ bpc' = "done"
  /\ BuilderFrame
  /\ UNCHANGED <<connecting, demand_notify, task_done, localVars>>

-----------------------------------------------------------------------------
(* A connect task.                                                         *)

\* connect_upstream succeeded: record_latency clears the failure count.
TaskConnected(p) ==
  /\ connecting[p] > 0
  /\ connecting' = [connecting EXCEPT ![p] = @ - 1]
  /\ ready' = [ready EXCEPT ![p] = @ + 1]
  /\ consecutive_failures' = 0
  /\ TaskFrame
  /\ UNCHANGED <<idle, notifying, finishing, signalling, in_flight, notify,
                 task_done, parked, woken>>

RecordFailure == consecutive_failures' = Min2(consecutive_failures + 1, FailureCap)

TaskFailed(p) ==
  /\ connecting[p] > 0
  /\ connecting' = [connecting EXCEPT ![p] = @ - 1]
  /\ RecordFailure
  /\ finishing' = finishing + 1
  /\ TaskFrame
  /\ UNCHANGED <<idle, ready, notifying, signalling, in_flight, notify, task_done,
                 parked, woken>>

TaskPush(p) ==
  /\ ready[p] > 0
  /\ ready' = [ready EXCEPT ![p] = @ - 1]
  /\ idle' = [idle EXCEPT ![p] = @ + 1]
  /\ notifying' = notifying + 1
  /\ TaskFrame
  /\ UNCHANGED <<connecting, finishing, signalling, in_flight,
                 consecutive_failures, notify, task_done, parked, woken>>

TaskNotify ==
  /\ notifying > 0
  /\ notifying' = notifying - 1
  /\ finishing' = finishing + 1
  /\ NotifyOne(woken)
  /\ TaskFrame
  /\ UNCHANGED <<idle, connecting, ready, signalling, in_flight,
                 consecutive_failures, task_done>>

TaskRelease ==
  /\ finishing > 0
  /\ finishing' = finishing - 1
  /\ ReleaseSlot
  /\ signalling' = signalling + 1
  /\ TaskFrame
  /\ UNCHANGED <<idle, connecting, ready, notifying, consecutive_failures, notify,
                 task_done, parked, woken>>

TaskSignal ==
  /\ signalling > 0
  /\ signalling' = signalling - 1
  /\ task_done' = 1
  /\ TaskFrame
  /\ UNCHANGED <<idle, connecting, ready, notifying, finishing, in_flight,
                 consecutive_failures, notify, parked, woken>>

\* The health checker records its probes in the same PoolStats.
ProbeRecorded ==
  /\ consecutive_failures' = 0 \/ RecordFailure
  /\ ~shutdown
  /\ UNCHANGED <<idle, taskVars, in_flight, target_size, notifyVars, getVars,
                 builderVars, managerVars, metricVars, watcherVars, shutdown>>

-----------------------------------------------------------------------------
(* The manager.                                                            *)

\* decide_new_target: wait/get > 20% grows by a fifth; no wait and at least half as
\* many expiries as gets shrinks by one, down to the floor.
DecideNewTarget(cur, waited, gets, expired) ==
  IF gets > 0 /\ 5 * waited > gets /\ cur < PoolSize
  THEN Min2(cur + Max2(cur \div 5, 1), PoolSize)
  ELSE IF (gets = 0 \/ waited = 0) /\ expired >= gets \div 2 /\ cur > Floor
  THEN cur - 1
  ELSE cur

ManagerExit ==
  /\ mpc = "sleep" /\ shutdown
  /\ mpc' = "done"
  /\ ManagerFrame /\ UNCHANGED <<idle, target_size, wait, metricVars>>

ManagerSwapWait ==
  /\ mpc = "sleep" /\ ~shutdown
  /\ mpc' = "sweep"
  /\ wait' = wait_events
  /\ wait_events' = 0
  /\ ManagerFrame /\ UNCHANGED <<idle, target_size, total_gets>>

\* Swap the gets, drop the tunnels past their max age (any of them may be), and
\* store the new target.
ManagerSweep ==
  /\ mpc = "sweep"
  /\ mpc' = "sleep"
  /\ wait' = 0
  /\ total_gets' = 0
  /\ \E kept \in [Path -> 0..Total(idle)] :
       /\ \A p \in Path : kept[p] <= idle[p]
       /\ idle' = kept
       /\ target_size' =
            DecideNewTarget(target_size, wait, total_gets, Total(idle) - Total(kept))
  /\ ManagerFrame /\ UNCHANGED wait_events

-----------------------------------------------------------------------------
(* The network path and its watcher.                                       *)

\* net_monitor::bump: every tunnel built or being built is bound to the old path.
NetworkChange ==
  /\ PathMayChange
  /\ net_changed' = TRUE
  /\ idle' = Aged(idle)
  /\ connecting' = Aged(connecting)
  /\ ready' = Aged(ready)
  /\ UNCHANGED <<notifying, finishing, signalling, in_flight,
                 consecutive_failures, target_size, notifyVars, getVars,
                 builderVars, managerVars, metricVars, wpc, shutdown>>

\* Top of the watcher's loop.
WatcherCheck ==
  /\ wpc = "top"
  /\ wpc' = IF shutdown THEN "done" ELSE "enter"
  /\ WatcherFrame
  /\ UNCHANGED <<idle, consecutive_failures, demand_notify, net_shutdown,
                 net_changed>>

\* The first poll of the select!.
WatcherEnter ==
  /\ wpc = "enter"
  /\ wpc' = "wait"
  /\ WatcherFrame
  /\ UNCHANGED <<idle, consecutive_failures, demand_notify, net_shutdown,
                 net_changed>>

WatcherStop ==
  /\ wpc = "wait" /\ net_shutdown = 1
  /\ net_shutdown' = 0
  /\ wpc' = "done"
  /\ WatcherFrame
  /\ UNCHANGED <<idle, consecutive_failures, demand_notify, net_changed>>

WatcherWake ==
  /\ wpc = "wait" /\ net_changed
  /\ net_changed' = FALSE
  /\ wpc' = IF shutdown THEN "done" ELSE "flush"
  /\ WatcherFrame
  /\ UNCHANGED <<idle, consecutive_failures, demand_notify, net_shutdown>>

WatcherFlush ==
  /\ wpc = "flush"
  /\ idle' = NoTunnel
  /\ wpc' = "reset"
  /\ WatcherFrame
  /\ UNCHANGED <<consecutive_failures, demand_notify, net_shutdown, net_changed>>

\* PoolStats::on_network_change, then wake a builder in backoff.
WatcherReset ==
  /\ wpc = "reset"
  /\ consecutive_failures' = 0
  /\ demand_notify' = 1
  /\ wpc' = "top"
  /\ WatcherFrame /\ UNCHANGED <<idle, net_shutdown, net_changed>>

-----------------------------------------------------------------------------
\* Mutant: notify_waiters, which leaves no permit for a watcher not waiting yet.
StopWatcherIfWaiting == net_shutdown' = IF wpc = "wait" THEN 1 ELSE net_shutdown

StopWatcher == net_shutdown' = 1

\* Drop: notify_one leaves a permit for a loop that is not waiting yet, while
\* notify_waiters only reaches one that is; the queue is cleared if its lock is free.
DropPool ==
  /\ ~shutdown
  /\ Callers = 0
  /\ shutdown' = TRUE
  /\ demand_notify' = IF bpc \in {"waitFull", "backoff"} THEN 1 ELSE demand_notify
  /\ builder_shutdown' = 1
  /\ StopWatcher
  /\ idle' \in {NoTunnel, idle}
  /\ UNCHANGED <<taskVars, in_flight, consecutive_failures, target_size, notify,
                 task_done, getVars, builderVars, managerVars, metricVars,
                 watcherVars>>

-----------------------------------------------------------------------------
Get     == \/ GetStart \/ GetEmpty \/ GetPark \/ GetResume \/ GetTimeout
           \/ GetCancelled
           \/ \E p \in Path : GetServed(p) \/ GetDiscard(p)

Builder == \/ BuilderExit \/ BuilderReadIdle \/ BuilderReadInFlight
           \/ BuilderReadFailures \/ BuilderStop \/ BuilderWakeFull
           \/ BuilderWakeDone \/ BuilderWakeBackoff \/ BuilderWakeMinInterval
           \/ BuilderLaunch \/ BuilderSpawn \/ BuilderAbort

Task    == \/ TaskNotify \/ TaskRelease \/ TaskSignal
           \/ \E p \in Path : TaskConnected(p) \/ TaskFailed(p) \/ TaskPush(p)

Manager == ManagerExit \/ ManagerSwapWait \/ ManagerSweep

Watcher == \/ WatcherCheck \/ WatcherEnter \/ WatcherStop \/ WatcherWake
           \/ WatcherFlush \/ WatcherReset

Next == \/ Get \/ Builder \/ Task \/ Manager \/ Watcher
        \/ ProbeRecorded \/ NetworkChange \/ DropPool

Spec == Init /\ [][Next]_vars

(* tokio polls every spawned task that is ready, and every armed timer     *)
(* fires: each loop and each stage of a connect task is weakly fair.  A    *)
(* dial is bounded by its timeouts, so a connecting task ends one way or   *)
(* the other.  Network changes, callers, probes and Drop are the           *)
(* environment and promise nothing.                                        *)
Fairness ==
  /\ WF_vars(Builder)
  /\ WF_vars(Manager)
  /\ WF_vars(Watcher)
  /\ WF_vars(TaskNotify)
  /\ WF_vars(TaskRelease)
  /\ WF_vars(TaskSignal)
  /\ \A p \in Path : WF_vars(TaskConnected(p) \/ TaskFailed(p)) /\ WF_vars(TaskPush(p))

-----------------------------------------------------------------------------
(* Properties.                                                             *)

Counts == [Path -> Nat]

\* Every counter is a count, every Notify holds at most one permit and every loop is
\* at one of its stops.
TypeOK ==
  /\ idle \in Counts /\ connecting \in Counts /\ ready \in Counts
  /\ notifying \in Nat /\ finishing \in Nat /\ signalling \in Nat
  /\ in_flight \in Nat /\ consecutive_failures \in Nat /\ target_size \in Nat
  /\ notify \in 0..1 /\ demand_notify \in 0..1 /\ task_done \in 0..1
  /\ builder_shutdown \in 0..1 /\ net_shutdown \in 0..1
  /\ popping \in Nat /\ parking \in Nat /\ parked \in Nat /\ woken \in Nat
  /\ bpc \in BuilderPc
  /\ current_target \in Nat /\ current_idle \in Nat /\ current_in_flight \in Nat
  /\ mpc \in {"sleep", "sweep", "done"} /\ wait \in Nat
  /\ wait_events \in Nat /\ total_gets \in Nat
  /\ wpc \in {"top", "enter", "wait", "flush", "reset", "done"}
  /\ net_changed \in BOOLEAN /\ shutdown \in BOOLEAN

\* Connect tasks that have not given their slot back.
Building == Total(connecting) + Total(ready) + notifying + finishing

\* Tunnels of this pool that are idle or on their way to the queue.
Stock == Total(idle) + Total(connecting) + Total(ready)

\* in_flight is exact: one slot for each connect task that has not reached its
\* fetch_sub, plus the one the builder took before the stagger, on success, failure
\* and stop alike.  An excess would starve the pool for good, a deficit overfill it.
InFlightExact == in_flight = Building + (IF bpc = "stagger" THEN 1 ELSE 0)

\* The builder, which tests a sum of two values it read at different moments, still
\* never has more than pool_size connections under construction.
BuildConcurrencyBounded == in_flight <= PoolSize

\* Whatever finishes between the builder's two reads, the server never holds more
\* than twice pool_size tunnels of this pool that no caller uses.
TunnelsBounded == Stock <= 2 * PoolSize

\* The manager's steps never take the target below the floor or above pool_size.
TargetInRange == Floor <= target_size /\ target_size <= PoolSize

\* A builder waiting for the probing connection, the one wait without a timer, has a
\* task that will still signal it, or the signal already.
BuilderNeverStranded == bpc = "waitDone" => Building + signalling + task_done > 0

\* What the builder puts on the server is bounded, and the builder never stays asleep.
PoolSound == TunnelsBounded /\ BuilderNeverStranded

\* Drop ends the builder, the manager and the watcher: a hot reload leaks none.  (A pool stays
\* dropped and a loop ended: this is shutdown ~> every loop done.)
DropStopsTasks == []<>(shutdown => bpc = "done" /\ mpc = "done" /\ wpc = "done")

\* An empty queue is filled again, through failures, backoff and path changes, as
\* long as the upstream does not refuse every dial for ever.
Refill == SF_vars(TaskConnected("current")) => []<>(Total(idle) > 0 \/ shutdown)

\* A pool that was dropped leaves no loop behind, and one in use does not stay empty.
PoolLives == DropStopsTasks /\ Refill
=============================================================================
