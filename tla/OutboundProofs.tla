--------------------------- MODULE OutboundProofs ---------------------------
(***************************************************************************)
(* Theorems about the outbound side: WarmPool, for every pool size, floor  *)
(* and bound, and OutboundGroup, for every tree of groups, every number of *)
(* callers and every latency.                                              *)
(***************************************************************************)
EXTENDS WarmPool, OutboundGroup, WellFoundedInduction, FiniteSetTheorems, TLAPS

-----------------------------------------------------------------------------
(* The pool.                                                               *)

\* Floor is a positive number no larger than pool_size.
LEMMA FloorFacts == Floor \in Nat /\ 1 <= Floor /\ Floor <= PoolSize
  BY PoolSizeAssumption, FloorAssumption DEF Floor, Min2

\* DecideNewTarget stays between the floor and pool_size.
LEMMA DecideInRange ==
  ASSUME NEW cur \in Nat, NEW waited \in Nat, NEW gets \in Nat, NEW expired \in Nat,
         Floor <= cur, cur <= PoolSize
  PROVE  /\ DecideNewTarget(cur, waited, gets, expired) \in Nat
         /\ Floor <= DecideNewTarget(cur, waited, gets, expired)
         /\ DecideNewTarget(cur, waited, gets, expired) <= PoolSize
  <1>1. Floor \in Nat /\ PoolSize \in Nat
    BY FloorFacts, PoolSizeAssumption
  <1>2. cur \div 5 \in Nat
    OBVIOUS
  <1> QED
    BY <1>1, <1>2 DEF DecideNewTarget, Min2, Max2

\* Every action keeps every variable in its type.
LEMMA TypeStep == TypeOK /\ TargetInRange /\ InFlightExact /\ [Next]_vars => TypeOK'
  <1> SUFFICES ASSUME TypeOK, TargetInRange, InFlightExact, [Next]_vars PROVE TypeOK'
    OBVIOUS
  <1> USE DEF TypeOK, Counts, Path, BuilderPc, vars, queueVars, taskVars, notifyVars,
              getVars, builderVars, managerVars, metricVars, watcherVars, localVars,
              GetFrame, BuilderFrame, TaskFrame, ManagerFrame, WatcherFrame
  <1>1. CASE GetStart BY <1>1 DEF GetStart
  <1>2. ASSUME NEW p \in Path, GetServed(p) PROVE TypeOK' BY <1>2 DEF GetServed
  <1>3. ASSUME NEW p \in Path, GetDiscard(p) PROVE TypeOK' BY <1>3 DEF GetDiscard
  <1>4. CASE GetEmpty BY <1>4 DEF GetEmpty
  <1>5. CASE GetPark BY <1>5 DEF GetPark
  <1>6. CASE GetResume BY <1>6 DEF GetResume
  <1>7. CASE GetTimeout BY <1>7 DEF GetTimeout
  <1>8. CASE GetCancelled BY <1>8 DEF GetCancelled, NotifyOne
  <1>9. CASE BuilderExit BY <1>9 DEF BuilderExit
  <1>10. CASE BuilderReadIdle BY <1>10 DEF BuilderReadIdle, Total
  <1>11. CASE BuilderReadInFlight BY <1>11 DEF BuilderReadInFlight, AtCapacity
  <1>12. CASE BuilderReadFailures BY <1>12 DEF BuilderReadFailures, ProbeOut
  <1>13. CASE BuilderStop BY <1>13 DEF BuilderStop
  <1>14. CASE BuilderWakeFull BY <1>14 DEF BuilderWakeFull
  <1>15. CASE BuilderWakeDone BY <1>15 DEF BuilderWakeDone
  <1>16. CASE BuilderWakeBackoff BY <1>16 DEF BuilderWakeBackoff
  <1>17. CASE BuilderWakeMinInterval BY <1>17 DEF BuilderWakeMinInterval
  <1>18. CASE BuilderLaunch BY <1>18 DEF BuilderLaunch
  <1>19. CASE BuilderSpawn BY <1>19 DEF BuilderSpawn
  <1>20. CASE BuilderAbort
    BY <1>20 DEF BuilderAbort, ReleaseSlot, InFlightExact, Building, Total
  <1>21. ASSUME NEW p \in Path, TaskConnected(p) PROVE TypeOK'
    BY <1>21 DEF TaskConnected
  <1>22. ASSUME NEW p \in Path, TaskFailed(p) PROVE TypeOK'
    BY <1>22, BoundsAssumption DEF TaskFailed, RecordFailure, Min2
  <1>23. ASSUME NEW p \in Path, TaskPush(p) PROVE TypeOK' BY <1>23 DEF TaskPush
  <1>24. CASE TaskNotify BY <1>24 DEF TaskNotify, NotifyOne
  <1>25. CASE TaskRelease
    BY <1>25 DEF TaskRelease, ReleaseSlot, InFlightExact, Building, Total
  <1>26. CASE TaskSignal BY <1>26 DEF TaskSignal
  <1>27. CASE ManagerExit BY <1>27 DEF ManagerExit
  <1>28. CASE ManagerSwapWait BY <1>28 DEF ManagerSwapWait
  <1>29. CASE ManagerSweep
    <2>1. PICK kept \in [Path -> 0..Total(idle)] :
            /\ \A p \in Path : kept[p] <= idle[p]
            /\ idle' = kept
            /\ target_size' = DecideNewTarget(target_size, wait, total_gets,
                                              Total(idle) - Total(kept))
      BY <1>29 DEF ManagerSweep
    <2>2. Total(idle) \in Nat /\ Total(idle) - Total(kept) \in Nat
      BY <2>1 DEF Total
    <2>3. target_size' \in Nat
      BY <2>1, <2>2, DecideInRange DEF TargetInRange
    <2> QED BY <1>29, <2>1, <2>2, <2>3 DEF ManagerSweep
  <1>30. CASE NetworkChange BY <1>30 DEF NetworkChange, Aged, Total
  <1>31. CASE WatcherCheck BY <1>31 DEF WatcherCheck
  <1>32. CASE WatcherEnter BY <1>32 DEF WatcherEnter
  <1>33. CASE WatcherStop BY <1>33 DEF WatcherStop
  <1>34. CASE WatcherWake BY <1>34 DEF WatcherWake
  <1>35. CASE WatcherFlush BY <1>35 DEF WatcherFlush, NoTunnel
  <1>36. CASE WatcherReset BY <1>36 DEF WatcherReset
  <1>37. CASE ProbeRecorded
    BY <1>37, BoundsAssumption DEF ProbeRecorded, RecordFailure, Min2
  <1>38. CASE DropPool BY <1>38 DEF DropPool, NoTunnel, StopWatcher
  <1>39. CASE UNCHANGED vars BY <1>39
  <1> QED
    BY <1>1, <1>2, <1>3, <1>4, <1>5, <1>6, <1>7, <1>8, <1>9, <1>10, <1>11, <1>12,
       <1>13, <1>14, <1>15, <1>16, <1>17, <1>18, <1>19, <1>20, <1>21, <1>22, <1>23,
       <1>24, <1>25, <1>26, <1>27, <1>28, <1>29, <1>30, <1>31, <1>32, <1>33, <1>34,
       <1>35, <1>36, <1>37, <1>38, <1>39
       DEF Next, Get, Builder, Task, Manager, Watcher

\* Every action keeps the count of slots exact.
LEMMA SlotStep == TypeOK /\ InFlightExact /\ [Next]_vars => InFlightExact'
  <1> SUFFICES ASSUME TypeOK, InFlightExact, [Next]_vars PROVE InFlightExact'
    OBVIOUS
  <1> USE PoolSizeAssumption DEF TypeOK, Counts, Path, vars, queueVars, taskVars,
              notifyVars, getVars, builderVars, managerVars, metricVars, watcherVars,
              localVars, GetFrame, BuilderFrame, TaskFrame, ManagerFrame, WatcherFrame,
              InFlightExact, Building, Total
  <1>1. CASE GetStart BY <1>1 DEF GetStart
  <1>2. ASSUME NEW p \in Path, GetServed(p) PROVE InFlightExact' BY <1>2 DEF GetServed
  <1>3. ASSUME NEW p \in Path, GetDiscard(p) PROVE InFlightExact' BY <1>3 DEF GetDiscard
  <1>4. CASE GetEmpty BY <1>4 DEF GetEmpty
  <1>5. CASE GetPark BY <1>5 DEF GetPark
  <1>6. CASE GetResume BY <1>6 DEF GetResume
  <1>7. CASE GetTimeout BY <1>7 DEF GetTimeout
  <1>8. CASE GetCancelled BY <1>8 DEF GetCancelled, NotifyOne
  <1>9. CASE BuilderExit BY <1>9 DEF BuilderExit
  <1>10. CASE BuilderReadIdle BY <1>10 DEF BuilderReadIdle
  <1>11. CASE BuilderReadInFlight BY <1>11 DEF BuilderReadInFlight, AtCapacity
  <1>12. CASE BuilderReadFailures BY <1>12 DEF BuilderReadFailures, ProbeOut
  <1>13. CASE BuilderStop BY <1>13 DEF BuilderStop
  <1>14. CASE BuilderWakeFull BY <1>14 DEF BuilderWakeFull
  <1>15. CASE BuilderWakeDone BY <1>15 DEF BuilderWakeDone
  <1>16. CASE BuilderWakeBackoff BY <1>16 DEF BuilderWakeBackoff
  <1>17. CASE BuilderWakeMinInterval BY <1>17 DEF BuilderWakeMinInterval
  <1>18. CASE BuilderLaunch BY <1>18 DEF BuilderLaunch
  <1>19. CASE BuilderSpawn BY <1>19 DEF BuilderSpawn
  <1>20. CASE BuilderAbort BY <1>20 DEF BuilderAbort, ReleaseSlot
  <1>21. ASSUME NEW p \in Path, TaskConnected(p) PROVE InFlightExact'
    BY <1>21 DEF TaskConnected
  <1>22. ASSUME NEW p \in Path, TaskFailed(p) PROVE InFlightExact'
    BY <1>22 DEF TaskFailed
  <1>23. ASSUME NEW p \in Path, TaskPush(p) PROVE InFlightExact' BY <1>23 DEF TaskPush
  <1>24. CASE TaskNotify BY <1>24 DEF TaskNotify, NotifyOne
  <1>25. CASE TaskRelease BY <1>25 DEF TaskRelease, ReleaseSlot
  <1>26. CASE TaskSignal BY <1>26 DEF TaskSignal
  <1>27. CASE ManagerExit BY <1>27 DEF ManagerExit
  <1>28. CASE ManagerSwapWait BY <1>28 DEF ManagerSwapWait
  <1>29. CASE ManagerSweep BY <1>29 DEF ManagerSweep
  <1>30. CASE NetworkChange BY <1>30 DEF NetworkChange, Aged
  <1>31. CASE WatcherCheck BY <1>31 DEF WatcherCheck
  <1>32. CASE WatcherEnter BY <1>32 DEF WatcherEnter
  <1>33. CASE WatcherStop BY <1>33 DEF WatcherStop
  <1>34. CASE WatcherWake BY <1>34 DEF WatcherWake
  <1>35. CASE WatcherFlush BY <1>35 DEF WatcherFlush
  <1>36. CASE WatcherReset BY <1>36 DEF WatcherReset
  <1>37. CASE ProbeRecorded BY <1>37 DEF ProbeRecorded
  <1>38. CASE DropPool BY <1>38 DEF DropPool, StopWatcher
  <1>39. CASE UNCHANGED vars BY <1>39
  <1> QED
    BY <1>1, <1>2, <1>3, <1>4, <1>5, <1>6, <1>7, <1>8, <1>9, <1>10, <1>11, <1>12,
       <1>13, <1>14, <1>15, <1>16, <1>17, <1>18, <1>19, <1>20, <1>21, <1>22, <1>23,
       <1>24, <1>25, <1>26, <1>27, <1>28, <1>29, <1>30, <1>31, <1>32, <1>33, <1>34,
       <1>35, <1>36, <1>37, <1>38, <1>39
       DEF Next, Get, Builder, Task, Manager, Watcher

\* What the builder knows at each of its stops: the tunnels counted at the first read
\* and those built since stay within pool_size of it, and a round that passed the
\* capacity test still has room for the one connection it is going to start.
BuilderRoom ==
  /\ in_flight <= PoolSize
  /\ Stock <= 2 * PoolSize
  /\ bpc = "readInFlight" => Stock <= current_idle + PoolSize
  /\ bpc \in {"readFailures", "backoff", "minInterval", "launch"}
       => in_flight < PoolSize /\ Stock < 2 * PoolSize
  /\ bpc = "stagger" => Stock < 2 * PoolSize

\* Every action keeps that room.
LEMMA RoomStep == TypeOK /\ InFlightExact /\ BuilderRoom /\ [Next]_vars => BuilderRoom'
  <1> SUFFICES ASSUME TypeOK, InFlightExact, BuilderRoom, [Next]_vars PROVE BuilderRoom'
    OBVIOUS
  <1> USE PoolSizeAssumption DEF TypeOK, Counts, Path, vars, queueVars, taskVars,
              notifyVars, getVars, builderVars, managerVars, metricVars, watcherVars,
              localVars, GetFrame, BuilderFrame, TaskFrame, ManagerFrame, WatcherFrame,
              BuilderRoom, Stock, InFlightExact, Building, Total
  <1>1. CASE GetStart BY <1>1 DEF GetStart
  <1>2. ASSUME NEW p \in Path, GetServed(p) PROVE BuilderRoom' BY <1>2 DEF GetServed
  <1>3. ASSUME NEW p \in Path, GetDiscard(p) PROVE BuilderRoom' BY <1>3 DEF GetDiscard
  <1>4. CASE GetEmpty BY <1>4 DEF GetEmpty
  <1>5. CASE GetPark BY <1>5 DEF GetPark
  <1>6. CASE GetResume BY <1>6 DEF GetResume
  <1>7. CASE GetTimeout BY <1>7 DEF GetTimeout
  <1>8. CASE GetCancelled BY <1>8 DEF GetCancelled, NotifyOne
  <1>9. CASE BuilderExit BY <1>9 DEF BuilderExit
  <1>10. CASE BuilderReadIdle BY <1>10 DEF BuilderReadIdle
  <1>11. CASE BuilderReadInFlight BY <1>11 DEF BuilderReadInFlight, AtCapacity
  <1>12. CASE BuilderReadFailures BY <1>12 DEF BuilderReadFailures, ProbeOut
  <1>13. CASE BuilderStop BY <1>13 DEF BuilderStop
  <1>14. CASE BuilderWakeFull BY <1>14 DEF BuilderWakeFull
  <1>15. CASE BuilderWakeDone BY <1>15 DEF BuilderWakeDone
  <1>16. CASE BuilderWakeBackoff BY <1>16 DEF BuilderWakeBackoff
  <1>17. CASE BuilderWakeMinInterval BY <1>17 DEF BuilderWakeMinInterval
  <1>18. CASE BuilderLaunch BY <1>18 DEF BuilderLaunch
  <1>19. CASE BuilderSpawn BY <1>19 DEF BuilderSpawn
  <1>20. CASE BuilderAbort BY <1>20 DEF BuilderAbort, ReleaseSlot
  <1>21. ASSUME NEW p \in Path, TaskConnected(p) PROVE BuilderRoom'
    BY <1>21 DEF TaskConnected
  <1>22. ASSUME NEW p \in Path, TaskFailed(p) PROVE BuilderRoom' BY <1>22 DEF TaskFailed
  <1>23. ASSUME NEW p \in Path, TaskPush(p) PROVE BuilderRoom' BY <1>23 DEF TaskPush
  <1>24. CASE TaskNotify BY <1>24 DEF TaskNotify, NotifyOne
  <1>25. CASE TaskRelease BY <1>25 DEF TaskRelease, ReleaseSlot
  <1>26. CASE TaskSignal BY <1>26 DEF TaskSignal
  <1>27. CASE ManagerExit BY <1>27 DEF ManagerExit
  <1>28. CASE ManagerSwapWait BY <1>28 DEF ManagerSwapWait
  <1>29. CASE ManagerSweep 
    <2>1. /\ idle' \in Counts
          /\ Total(idle') <= Total(idle)
      BY <1>29 DEF ManagerSweep, Total
    <2> QED BY <1>29, <2>1 DEF ManagerSweep, Total
  <1>30. CASE NetworkChange BY <1>30 DEF NetworkChange, Aged
  <1>31. CASE WatcherCheck BY <1>31 DEF WatcherCheck
  <1>32. CASE WatcherEnter BY <1>32 DEF WatcherEnter
  <1>33. CASE WatcherStop BY <1>33 DEF WatcherStop
  <1>34. CASE WatcherWake BY <1>34 DEF WatcherWake
  <1>35. CASE WatcherFlush BY <1>35 DEF WatcherFlush, NoTunnel
  <1>36. CASE WatcherReset BY <1>36 DEF WatcherReset
  <1>37. CASE ProbeRecorded BY <1>37 DEF ProbeRecorded
  <1>38. CASE DropPool BY <1>38 DEF DropPool, NoTunnel, StopWatcher
  <1>39. CASE UNCHANGED vars BY <1>39
  <1> QED
    BY <1>1, <1>2, <1>3, <1>4, <1>5, <1>6, <1>7, <1>8, <1>9, <1>10, <1>11, <1>12,
       <1>13, <1>14, <1>15, <1>16, <1>17, <1>18, <1>19, <1>20, <1>21, <1>22, <1>23,
       <1>24, <1>25, <1>26, <1>27, <1>28, <1>29, <1>30, <1>31, <1>32, <1>33, <1>34,
       <1>35, <1>36, <1>37, <1>38, <1>39
       DEF Next, Get, Builder, Task, Manager, Watcher

\* The builder never starts to wait for a connection that cannot signal it.
SignalDue ==
  bpc = "waitDone" \/ (bpc = "readFailures" /\ current_in_flight > 0)
    => Building + signalling + task_done > 0

\* Every action keeps that signal due.
LEMMA SignalStep == TypeOK /\ InFlightExact /\ SignalDue /\ [Next]_vars => SignalDue'
  <1> SUFFICES ASSUME TypeOK, InFlightExact, SignalDue, [Next]_vars PROVE SignalDue'
    OBVIOUS
  <1> USE PoolSizeAssumption DEF TypeOK, Counts, Path, vars, queueVars, taskVars,
              notifyVars, getVars, builderVars, managerVars, metricVars, watcherVars,
              localVars, GetFrame, BuilderFrame, TaskFrame, ManagerFrame, WatcherFrame,
              SignalDue, InFlightExact, Building, Total
  <1>1. CASE GetStart BY <1>1 DEF GetStart
  <1>2. ASSUME NEW p \in Path, GetServed(p) PROVE SignalDue' BY <1>2 DEF GetServed
  <1>3. ASSUME NEW p \in Path, GetDiscard(p) PROVE SignalDue' BY <1>3 DEF GetDiscard
  <1>4. CASE GetEmpty BY <1>4 DEF GetEmpty
  <1>5. CASE GetPark BY <1>5 DEF GetPark
  <1>6. CASE GetResume BY <1>6 DEF GetResume
  <1>7. CASE GetTimeout BY <1>7 DEF GetTimeout
  <1>8. CASE GetCancelled BY <1>8 DEF GetCancelled, NotifyOne
  <1>9. CASE BuilderExit BY <1>9 DEF BuilderExit
  <1>10. CASE BuilderReadIdle BY <1>10 DEF BuilderReadIdle
  <1>11. CASE BuilderReadInFlight BY <1>11 DEF BuilderReadInFlight, AtCapacity
  <1>12. CASE BuilderReadFailures BY <1>12 DEF BuilderReadFailures, ProbeOut
  <1>13. CASE BuilderStop BY <1>13 DEF BuilderStop
  <1>14. CASE BuilderWakeFull BY <1>14 DEF BuilderWakeFull
  <1>15. CASE BuilderWakeDone BY <1>15 DEF BuilderWakeDone
  <1>16. CASE BuilderWakeBackoff BY <1>16 DEF BuilderWakeBackoff
  <1>17. CASE BuilderWakeMinInterval BY <1>17 DEF BuilderWakeMinInterval
  <1>18. CASE BuilderLaunch BY <1>18 DEF BuilderLaunch
  <1>19. CASE BuilderSpawn BY <1>19 DEF BuilderSpawn
  <1>20. CASE BuilderAbort BY <1>20 DEF BuilderAbort, ReleaseSlot
  <1>21. ASSUME NEW p \in Path, TaskConnected(p) PROVE SignalDue'
    BY <1>21 DEF TaskConnected
  <1>22. ASSUME NEW p \in Path, TaskFailed(p) PROVE SignalDue' BY <1>22 DEF TaskFailed
  <1>23. ASSUME NEW p \in Path, TaskPush(p) PROVE SignalDue' BY <1>23 DEF TaskPush
  <1>24. CASE TaskNotify BY <1>24 DEF TaskNotify, NotifyOne
  <1>25. CASE TaskRelease BY <1>25 DEF TaskRelease, ReleaseSlot
  <1>26. CASE TaskSignal BY <1>26 DEF TaskSignal
  <1>27. CASE ManagerExit BY <1>27 DEF ManagerExit
  <1>28. CASE ManagerSwapWait BY <1>28 DEF ManagerSwapWait
  <1>29. CASE ManagerSweep BY <1>29 DEF ManagerSweep
  <1>30. CASE NetworkChange BY <1>30 DEF NetworkChange, Aged
  <1>31. CASE WatcherCheck BY <1>31 DEF WatcherCheck
  <1>32. CASE WatcherEnter BY <1>32 DEF WatcherEnter
  <1>33. CASE WatcherStop BY <1>33 DEF WatcherStop
  <1>34. CASE WatcherWake BY <1>34 DEF WatcherWake
  <1>35. CASE WatcherFlush BY <1>35 DEF WatcherFlush
  <1>36. CASE WatcherReset BY <1>36 DEF WatcherReset
  <1>37. CASE ProbeRecorded BY <1>37 DEF ProbeRecorded
  <1>38. CASE DropPool BY <1>38 DEF DropPool, StopWatcher
  <1>39. CASE UNCHANGED vars BY <1>39
  <1> QED
    BY <1>1, <1>2, <1>3, <1>4, <1>5, <1>6, <1>7, <1>8, <1>9, <1>10, <1>11, <1>12,
       <1>13, <1>14, <1>15, <1>16, <1>17, <1>18, <1>19, <1>20, <1>21, <1>22, <1>23,
       <1>24, <1>25, <1>26, <1>27, <1>28, <1>29, <1>30, <1>31, <1>32, <1>33, <1>34,
       <1>35, <1>36, <1>37, <1>38, <1>39
       DEF Next, Get, Builder, Task, Manager, Watcher

\* The target stays in range: only ManagerSweep moves it.
LEMMA TargetStep == TypeOK /\ TargetInRange /\ [Next]_vars => TargetInRange'
  <1> SUFFICES ASSUME TypeOK, TargetInRange, [Next]_vars PROVE TargetInRange'
    OBVIOUS
  <1>1. CASE ManagerSweep
    <2>1. PICK kept \in [Path -> 0..Total(idle)] :
            /\ \A p \in Path : kept[p] <= idle[p]
            /\ target_size' = DecideNewTarget(target_size, wait, total_gets,
                                              Total(idle) - Total(kept))
      BY <1>1 DEF ManagerSweep
    <2>2. Total(idle) - Total(kept) \in Nat
      BY <2>1 DEF Total, TypeOK, Counts, Path
    <2> QED BY <2>1, <2>2, DecideInRange DEF TypeOK, TargetInRange
  <1>2. CASE UNCHANGED target_size
    BY <1>2 DEF TargetInRange
  <1>3. ManagerSweep \/ UNCHANGED target_size
    <2> USE DEF vars, queueVars, taskVars, notifyVars, getVars, builderVars,
                managerVars, metricVars, watcherVars, localVars, GetFrame, BuilderFrame,
                TaskFrame, ManagerFrame, WatcherFrame
    <2>1. Get => UNCHANGED target_size
      BY DEF Get, GetStart, GetServed, GetDiscard, GetEmpty, GetPark, GetResume,
             GetTimeout, GetCancelled
    <2>2. Builder => UNCHANGED target_size
      BY DEF Builder, BuilderExit, BuilderReadIdle, BuilderReadInFlight,
             BuilderReadFailures, BuilderStop, BuilderWakeFull, BuilderWakeDone,
             BuilderWakeBackoff, BuilderWakeMinInterval, BuilderLaunch, BuilderSpawn,
             BuilderAbort
    <2>3. Task => UNCHANGED target_size
      BY DEF Task, TaskConnected, TaskFailed, TaskPush, TaskNotify, TaskRelease,
             TaskSignal
    <2>4. ManagerExit \/ ManagerSwapWait => UNCHANGED target_size
      BY DEF ManagerExit, ManagerSwapWait
    <2>5. Watcher => UNCHANGED target_size
      BY DEF Watcher, WatcherCheck, WatcherEnter, WatcherStop, WatcherWake,
             WatcherFlush, WatcherReset
    <2>6. ProbeRecorded \/ NetworkChange \/ DropPool => UNCHANGED target_size
      BY DEF ProbeRecorded, NetworkChange, DropPool
    <2>7. CASE UNCHANGED vars BY <2>7
    <2> QED BY <2>1, <2>2, <2>3, <2>4, <2>5, <2>6, <2>7 DEF Next, Manager
  <1> QED BY <1>1, <1>2, <1>3

\* The inductive invariant.
IInv == TypeOK /\ TargetInRange /\ InFlightExact /\ BuilderRoom /\ SignalDue

\* The invariant holds of the empty pool.
LEMMA IInvInit == Init => IInv
  <1> SUFFICES ASSUME Init PROVE IInv
    OBVIOUS
  <1>1. TypeOK
    <2>1. NoTunnel \in Counts
      BY DEF NoTunnel, Counts, Path
    <2>2. /\ idle \in Counts /\ connecting \in Counts /\ ready \in Counts
          /\ target_size \in Nat
      BY <2>1, FloorFacts DEF Init
    <2>3. net_changed \in BOOLEAN /\ shutdown \in BOOLEAN
      BY DEF Init
    <2>4. /\ bpc \in BuilderPc /\ mpc \in {"sleep", "sweep", "done"}
          /\ wpc \in {"top", "enter", "wait", "flush", "reset", "done"}
      BY DEF Init, BuilderPc
    <2>5. /\ notify \in 0..1 /\ demand_notify \in 0..1 /\ task_done \in 0..1
          /\ builder_shutdown \in 0..1 /\ net_shutdown \in 0..1
      BY DEF Init
    <2>6. /\ notifying \in Nat /\ finishing \in Nat /\ signalling \in Nat
          /\ in_flight \in Nat /\ consecutive_failures \in Nat
          /\ popping \in Nat /\ parking \in Nat /\ parked \in Nat /\ woken \in Nat
          /\ current_target \in Nat /\ current_idle \in Nat
          /\ current_in_flight \in Nat /\ wait \in Nat
          /\ wait_events \in Nat /\ total_gets \in Nat
      BY DEF Init
    <2> QED BY <2>2, <2>3, <2>4, <2>5, <2>6 DEF TypeOK
  <1>2. Total(idle) = 0 /\ Total(connecting) = 0 /\ Total(ready) = 0
    BY DEF Init, Total, NoTunnel, Path
  <1>3. TargetInRange
    BY FloorFacts, PoolSizeAssumption DEF Init, TargetInRange
  <1>4. InFlightExact /\ BuilderRoom /\ SignalDue
    BY <1>2, PoolSizeAssumption
       DEF Init, InFlightExact, BuilderRoom, SignalDue, Stock, Building
  <1> QED BY <1>1, <1>3, <1>4 DEF IInv

\* It is inductive.
LEMMA IInvStep == IInv /\ [Next]_vars => IInv'
  BY TypeStep, TargetStep, SlotStep, RoomStep, SignalStep DEF IInv

\* Every reachable state satisfies the inductive invariant.
THEOREM Invariance == Spec => []IInv
  BY IInvInit, IInvStep, PTL DEF Spec

\* Counters stay counts and every Notify holds at most one permit: in_flight, an
\* AtomicUsize, never wraps below zero.
THEOREM TypeCorrect == Spec => []TypeOK
  <1>1. IInv => TypeOK BY DEF IInv
  <1> QED BY Invariance, <1>1, PTL

\* in_flight is exact at all times, whatever the order in which connect tasks end and
\* wherever the builder is stopped.
THEOREM SlotsExact == Spec => []InFlightExact
  <1>1. IInv => InFlightExact BY DEF IInv
  <1> QED BY Invariance, <1>1, PTL

\* Never more than pool_size connections are under construction.
THEOREM ConcurrencyBounded == Spec => []BuildConcurrencyBounded
  <1>1. IInv => BuildConcurrencyBounded
    BY DEF IInv, BuilderRoom, BuildConcurrencyBounded
  <1> QED BY Invariance, <1>1, PTL

\* Never more than twice pool_size tunnels are idle or under construction, although
\* the builder reads the two numbers at different moments.
THEOREM StockBounded == Spec => []TunnelsBounded
  <1>1. IInv => TunnelsBounded
    BY DEF IInv, BuilderRoom, TunnelsBounded
  <1> QED BY Invariance, <1>1, PTL

\* The target stays between the floor and pool_size.
THEOREM TargetBounded == Spec => []TargetInRange
  <1>1. IInv => TargetInRange BY DEF IInv
  <1> QED BY Invariance, <1>1, PTL

\* The builder's only wait without a timer is always going to be signalled.
THEOREM NeverStranded == Spec => []BuilderNeverStranded
  <1>1. IInv => BuilderNeverStranded
    BY DEF IInv, SignalDue, BuilderNeverStranded
  <1> QED BY Invariance, <1>1, PTL

\* So the stock is bounded, and no wait of the builder is without a signal.
THEOREM PoolAlwaysSound == Spec => []PoolSound
  <1>1. TunnelsBounded /\ BuilderNeverStranded => PoolSound
    BY DEF PoolSound
  <1> QED BY StockBounded, NeverStranded, <1>1, PTL

-----------------------------------------------------------------------------
(* Recursive definitions.                                                  *)

\* A nonempty set of numbers has a least one.
LEMMA LeastNumber ==
  ASSUME NEW S \in SUBSET Nat, S # {} PROVE \E m \in S : \A n \in S : m <= n
  <1>1. PICK m \in S : \A n \in S : ~ (<<n, m>> \in OpToRel(<, Nat))
    BY NatLessThanWellFounded, WFMin
  <1>2. \A n \in S : ~(n < m)
    BY <1>1 DEF OpToRel
  <1> QED BY <1>2

\* What holds of zero, and of a number when it holds of the one before, holds up to n.
LEMMA UpTo ==
  ASSUME NEW n \in Nat, NEW S, 0 \in S, \A i \in 1 .. n : i - 1 \in S => i \in S
  PROVE  0 .. n \subseteq S
  <1> DEFINE U == (0 .. n) \ S
  <1> SUFFICES ASSUME U # {} PROVE FALSE
    OBVIOUS
  <1>1. U \in SUBSET Nat
    OBVIOUS
  <1>2. PICK m \in U : \A k \in U : m <= k
    <2> HIDE DEF U
    <2> QED BY <1>1, LeastNumber
  <1>3. m \in 1 .. n /\ m - 1 \in 0 .. n
    BY <1>2
  <1>4. m - 1 \in S
    BY <1>2, <1>3
  <1> QED BY <1>2, <1>3, <1>4

\* A function takes n steps from where it begins.
Walks(g, base, n, step) == g[0] = base /\ \A i \in 1 .. n : g[i] = step[i][g[i - 1]]
Walk(A, base, n, step) == \E g \in [0 .. n -> A] : Walks(g, base, n, step)

\* There is such a function.
LEMMA Recursion ==
  ASSUME NEW A, NEW base \in A, NEW n \in Nat, NEW step \in [1 .. n -> [A -> A]]
  PROVE  Walk(A, base, n, step)
  <1> DEFINE Good(k) == \E g \in [0 .. k -> A] :
               g[0] = base /\ \A i \in 1 .. k : g[i] = step[i][g[i - 1]]
             S == {k \in 0 .. n : Good(k)}
  <1>1. 0 \in S
    <2>1. [i \in 0 .. 0 |-> base] \in [0 .. 0 -> A]
      OBVIOUS
    <2>2. Good(0)
      <3> WITNESS [i \in 0 .. 0 |-> base] \in [0 .. 0 -> A]
      <3> QED OBVIOUS
    <2> QED BY <2>2
  <1>2. ASSUME NEW k \in 1 .. n, k - 1 \in S PROVE k \in S
    <2>1. PICK g \in [0 .. (k - 1) -> A] :
            g[0] = base /\ \A i \in 1 .. (k - 1) : g[i] = step[i][g[i - 1]]
      BY <1>2
    <2> DEFINE h == [i \in 0 .. k |-> IF i = k THEN step[k][g[k - 1]] ELSE g[i]]
    <2>2. h \in [0 .. k -> A]
      BY <2>1
    <2>3. h[0] = base /\ \A i \in 1 .. k : h[i] = step[i][h[i - 1]]
      BY <2>1
    <2>4. Good(k)
      <3> WITNESS h \in [0 .. k -> A]
      <3> QED BY <2>3
    <2> QED
      <3> HIDE DEF Good
      <3> QED BY <2>4
  <1>3. 0 .. n \subseteq S
    <2> HIDE DEF S
    <2> QED BY <1>1, <1>2, UpTo
  <1> QED BY <1>3 DEF Walk, Walks

-----------------------------------------------------------------------------
(* Members kept in order.                                                  *)

\* What is kept of a sequence: those of its elements that are in the set, all of them, and none
\* twice that is not there twice.
LEMMA KeptFacts ==
  ASSUME NEW M, NEW s \in Seq(M), NEW T
  PROVE  /\ Kept(s, T) \in Seq(M) /\ Len(Kept(s, T)) <= Len(s)
         /\ \A k \in 1 .. Len(Kept(s, T)) :
              Kept(s, T)[k] \in T /\ \E j \in 1 .. Len(s) : s[j] = Kept(s, T)[k]
         /\ \A j \in 1 .. Len(s) : s[j] \in T =>
               \E k \in 1 .. Len(Kept(s, T)) : Kept(s, T)[k] = s[j]
         /\ (\A i, j \in 1 .. Len(s) : s[i] = s[j] => i = j) =>
              \A k, l \in 1 .. Len(Kept(s, T)) : Kept(s, T)[k] = Kept(s, T)[l] => k = l
  <1> DEFINE n == Len(s)
             A == Seq(M)
             base == <<>>
             add(i, a) == IF s[i] \in T THEN Append(a, s[i]) ELSE a
             step == [i \in 1 .. n |-> [a \in A |-> add(i, a)]]
             body(f) == [i \in 0 .. n |-> IF i = 0 THEN base ELSE add(i, f[i - 1])]
             F == CHOOSE f : f = body(f)
  <1>1. \A i \in 1 .. n, a \in A : add(i, a) \in A
    OBVIOUS
  <1>2. n \in Nat /\ base \in A
    OBVIOUS
  <1>3. Kept(s, T) = F[n]
    BY DEF Kept
  <1> HIDE DEF n, A, base, add
  <1>4. step \in [1 .. n -> [A -> A]]
    BY <1>1
  <1>5. PICK g \in [0 .. n -> A] : g[0] = base /\ \A i \in 1 .. n : g[i] = step[i][g[i - 1]]
    <2> HIDE DEF step
    <2>1. Walk(A, base, n, step)
      BY <1>4, <1>2, Recursion
    <2> QED BY <2>1 DEF Walk, Walks
  <1>6. \A i \in 1 .. n : g[i] = add(i, g[i - 1])
    <2> TAKE i \in 1 .. n
    <2>1. g[i - 1] \in A
      BY <1>2
    <2>2. step[i][g[i - 1]] = add(i, g[i - 1])
      BY <2>1
    <2> QED BY <2>2, <1>5
  <1>7. g = body(g)
    BY <1>5, <1>6
  <1>8. F = body(F)
    <2> HIDE DEF body
    <2> QED BY <1>7
  <1>9. F[0] = base /\ \A i \in 1 .. n : F[i] = add(i, F[i - 1])
    BY <1>8, <1>2
  <1>10. \A i \in 0 .. n : F[i] = g[i]
    <2> DEFINE Same == {i \in 0 .. n : F[i] = g[i]}
    <2>1. 0 \in Same
      BY <1>9, <1>5, <1>2
    <2>2. \A i \in 1 .. n : i - 1 \in Same => i \in Same
      BY <1>9, <1>6, <1>2
    <2>3. 0 .. n \subseteq Same
      <3> HIDE DEF Same, F
      <3> QED BY <2>1, <2>2, UpTo, <1>2
    <2> QED BY <2>3
  <1>11. Kept(s, T) = g[n]
    BY <1>3, <1>10, <1>2
  <1>12. /\ g \in [0 .. Len(s) -> Seq(M)] /\ g[0] = <<>> /\ Kept(s, T) = g[Len(s)]
         /\ \A i \in 1 .. Len(s) : /\ s[i] \in T => g[i] = Append(g[i - 1], s[i])
                                   /\ s[i] \notin T => g[i] = g[i - 1]
    <2> HIDE DEF F, step, body
    <2> QED BY <1>5, <1>6, <1>11 DEF n, A, base, add
  <1> HIDE DEF F, step, body
  <1> DEFINE Apart == \A i, j \in 1 .. Len(s) : s[i] = s[j] => i = j
             From(i) == \A k \in 1 .. Len(g[i]) : g[i][k] \in T /\ \E j \in 1 .. i : s[j] = g[i][k]
             All(i) == \A j \in 1 .. i : s[j] \in T => \E k \in 1 .. Len(g[i]) : g[i][k] = s[j]
             Once(i) == \A k, l \in 1 .. Len(g[i]) : g[i][k] = g[i][l] => k = l
             Good == {i \in 0 .. Len(s) :
                       Len(g[i]) <= i /\ From(i) /\ All(i) /\ (Apart => Once(i))}
  <1>13. 0 \in Good
    BY <1>12
  <1>14. ASSUME NEW i \in 1 .. Len(s), i - 1 \in Good PROVE i \in Good
    <2>0. i - 1 \in 0 .. Len(s) /\ Len(g[i - 1]) <= i - 1 /\ From(i - 1) /\ All(i - 1)
          /\ (Apart => Once(i - 1)) /\ g[i - 1] \in Seq(M) /\ s[i] \in M
      <3>1. i - 1 \in Good
        BY <1>14
      <3>2. Len(g[i - 1]) <= i - 1 /\ From(i - 1) /\ All(i - 1) /\ (Apart => Once(i - 1))
        <4> HIDE DEF From, All, Apart, Once
        <4> QED BY <3>1
      <3>3. Len(s) \in Nat /\ s[i] \in M
        OBVIOUS
      <3>4. i - 1 \in 0 .. Len(s)
        BY <3>3
      <3>5. g[i - 1] \in Seq(M)
        BY <3>4, <1>12
      <3> HIDE DEF From, All, Apart, Once
      <3> QED BY <3>2, <3>3, <3>4, <3>5
    <2>1. CASE s[i] \notin T
      <3>1. g[i] = g[i - 1]
        BY <1>12, <2>1
      <3>2. From(i)
        BY <2>0, <3>1
      <3>3. All(i)
        BY <2>0, <2>1, <3>1
      <3>4. Apart => Once(i)
        BY <2>0, <3>1
      <3>5. Len(g[i]) <= i
        BY <2>0, <3>1
      <3> QED
        <4> HIDE DEF Apart, From, All, Once
        <4> QED BY <3>2, <3>3, <3>4, <3>5
    <2>2. CASE s[i] \in T
      <3>1. g[i] = Append(g[i - 1], s[i])
        BY <1>12, <2>2
      <3> DEFINE m == Len(g[i - 1])
      <3>2. /\ m \in Nat /\ Len(g[i]) = m + 1 /\ g[i][m + 1] = s[i]
            /\ \A k \in 1 .. m : g[i][k] = g[i - 1][k]
        BY <2>0, <3>1
      <3> HIDE DEF m
      <3>3. Len(g[i]) <= i
        BY <2>0, <3>2 DEF m
      <3>4. From(i)
        <4> SUFFICES ASSUME NEW k \in 1 .. (m + 1)
                     PROVE g[i][k] \in T /\ \E j \in 1 .. i : s[j] = g[i][k]
          BY <3>2
        <4>1. CASE k = m + 1
          BY <4>1, <3>2, <2>2
        <4>2. CASE k \in 1 .. m
          <5>1. g[i - 1][k] \in T /\ \E j \in 1 .. (i - 1) : s[j] = g[i - 1][k]
            BY <2>0, <4>2 DEF m
          <5> QED BY <5>1, <3>2, <4>2
        <4> QED BY <4>1, <4>2, <3>2
      <3>5. All(i)
        <4> SUFFICES ASSUME NEW j \in 1 .. i, s[j] \in T
                     PROVE \E k \in 1 .. (m + 1) : g[i][k] = s[j]
          BY <3>2
        <4>1. CASE j = i
          BY <4>1, <3>2
        <4>2. CASE j \in 1 .. (i - 1)
          <5>1. \E k \in 1 .. m : g[i - 1][k] = s[j]
            BY <2>0, <4>2 DEF m
          <5> QED BY <5>1, <3>2
        <4> QED BY <4>1, <4>2
      <3>6. ASSUME Apart PROVE Once(i)
        <4> SUFFICES ASSUME NEW k \in 1 .. (m + 1), NEW l \in 1 .. (m + 1), g[i][k] = g[i][l]
                     PROVE k = l
          BY <3>2
        <4>1. \A x \in 1 .. m : g[i][x] # s[i]
          <5> TAKE x \in 1 .. m
          <5>1. PICK j \in 1 .. (i - 1) : s[j] = g[i - 1][x]
            BY <2>0 DEF m
          <5>2. s[j] # s[i]
            BY <3>6
          <5> QED BY <5>1, <5>2, <3>2
        <4>2. CASE k \in 1 .. m /\ l \in 1 .. m
          <5>1. g[i - 1][k] = g[i - 1][l]
            BY <4>2, <3>2
          <5> QED BY <5>1, <4>2, <2>0, <3>6 DEF m
        <4>3. CASE k = m + 1 \/ l = m + 1
          BY <4>3, <4>1, <3>2
        <4> QED BY <4>2, <4>3, <3>2
      <3> QED
        <4> HIDE DEF Apart, From, All, Once
        <4> QED BY <3>3, <3>4, <3>5, <3>6
    <2> QED BY <2>1, <2>2
  <1>15. 0 .. Len(s) \subseteq Good
    <2> HIDE DEF Good
    <2>1. Len(s) \in Nat
      OBVIOUS
    <2> QED BY <1>13, <1>14, <2>1, UpTo
  <1>16. Len(s) \in 0 .. Len(s)
    OBVIOUS
  <1>17. /\ Len(g[Len(s)]) <= Len(s) /\ From(Len(s)) /\ All(Len(s))
         /\ Apart => Once(Len(s))
    <2>1. Len(s) \in Good
      <3> HIDE DEF Good
      <3> QED BY <1>15, <1>16
    <2>2. \A i \in Good : Len(g[i]) <= i /\ From(i) /\ All(i) /\ (Apart => Once(i))
      <3> HIDE DEF From, All, Apart, Once
      <3> QED OBVIOUS
    <2> HIDE DEF From, All, Apart, Once, Good
    <2> QED BY <2>1, <2>2
  <1>18. g[Len(s)] \in Seq(M)
    BY <1>12, <1>16
  <1> QED BY <1>12, <1>17, <1>18

-----------------------------------------------------------------------------
(* The tree of groups.                                                     *)

LEMMA MembersFacts ==
  ASSUME NEW g \in DOMAIN Kind
  PROVE  /\ Members(g) \subseteq Node /\ Children[g] \in Seq(Members(g))
         /\ Len(Children[g]) \in Nat \ {0} /\ Children[g][1] \in Members(g)
         /\ \A i \in 1 .. Len(Children[g]) : Children[g][i] \in Members(g)
  BY TreeAssumption DEF Members

LEMMA BelowFacts ==
  ASSUME NEW n \in Node
  PROVE  /\ n \in Below(n) /\ Below(n) \subseteq Node
         /\ \A g \in Below(n) \ Leaf : g \in DOMAIN Kind /\ Members(g) \subseteq Below(n)
         /\ \A S \in SUBSET Node :
              n \in S /\ (\A g \in S \ Leaf : Members(g) \subseteq S) => Below(n) \subseteq S
  <1>1. n \in Below(n) /\ Below(n) \subseteq Node
    BY DEF Below
  <1>2. ASSUME NEW S \in SUBSET Node, n \in S, \A g \in S \ Leaf : Members(g) \subseteq S
        PROVE  Below(n) \subseteq S
    BY <1>2 DEF Below
  <1>3. ASSUME NEW g \in Below(n) \ Leaf PROVE g \in DOMAIN Kind /\ Members(g) \subseteq Below(n)
    <2>1. g \in DOMAIN Kind
      BY <1>1 DEF Node
    <2>2. ASSUME NEW m \in Members(g), NEW S \in SUBSET Node,
                 n \in S, \A h \in S \ Leaf : Members(h) \subseteq S
          PROVE  m \in S
      BY <1>2, <2>2
    <2>3. Members(g) \subseteq Node
      BY <2>1, MembersFacts
    <2> QED BY <2>1, <2>2, <2>3 DEF Below
  <1> QED BY <1>1, <1>2, <1>3

LEMMA BelowLeaf == ASSUME NEW l \in Leaf PROVE Configured[l] = {l} /\ l \in Node
  <1>1. l \in Node
    BY DEF Node
  <1>2. {l} \in SUBSET Node /\ \A g \in {l} \ Leaf : Members(g) \subseteq {l}
    BY <1>1
  <1>3. Below(l) \subseteq {l} /\ l \in Below(l)
    BY <1>1, <1>2, BelowFacts
  <1> QED BY <1>1, <1>3 DEF Configured

LEMMA BelowFlat ==
  ASSUME NEW g \in DOMAIN Kind, Flat(g)
  PROVE  Configured[g] = {g} \cup Members(g)
  <1>1. g \in Node /\ g \notin Leaf
    BY TreeAssumption DEF Node
  <1>2. {g} \cup Members(g) \in SUBSET Node
    BY <1>1, MembersFacts
  <1>3. \A h \in ({g} \cup Members(g)) \ Leaf : Members(h) \subseteq {g} \cup Members(g)
    BY DEF Flat
  <1>4. Below(g) \subseteq {g} \cup Members(g)
    BY <1>1, <1>2, <1>3, BelowFacts
  <1>5. g \in Below(g) /\ Members(g) \subseteq Below(g)
    BY <1>1, BelowFacts
  <1> QED BY <1>1, <1>4, <1>5 DEF Configured

-----------------------------------------------------------------------------
(* The types of what is kept.                                              *)

Ms == Latency \cup {NoLatency}

Views == [healthy : Seq(Node), candidates : Seq(Node), allow : BOOLEAN, ms : Seq(Ms)]
Sinces == [alive : SUBSET Leaf, clear : SUBSET Leaf, steady : SUBSET Leaf, steered : BOOLEAN]

\* What a call has read of the members of root.
ViewRead(c) ==
  LET v == view[c]
  IN  /\ pc[c] \in {"idle", "health"} => v = NoView
      /\ pc[c] \in {"penalty", "latency"} => Kind[root] = "urltest" /\ v.healthy # <<>>
      /\ v.healthy \in Seq(Members(root))
      /\ v.candidates \in Seq(Members(root))
      /\ pc[c] \in {"latency", "serve"} /\ Kind[root] = "urltest" /\ v.healthy # <<>>
           => v.candidates # <<>>
      /\ pc[c] = "serve" => Len(v.ms) = Len(v.candidates)

\* What the groups have chosen is among their members.
ChoicesOK ==
  \A g \in Group : /\ Kind[g] = "selector" => current[g] \in Members(g)
                   /\ Kind[g] = "urltest" => current[g] \in Members(g) \cup {NoNode}

GroupTypeOK ==
  /\ root \in Roots
  /\ dead \subseteq Leaf /\ penalized \subseteq Leaf /\ asleep \subseteq Leaf
  /\ lat \in [Leaf -> Ms]
  /\ Groups \in GroupStates
  /\ ChoicesOK
  /\ pc \in [Caller -> {"idle", "health", "penalty", "latency", "serve"}]
  /\ view \in [Caller -> Views] /\ since \in [Caller -> Sinces]
  /\ \A c \in Caller : ViewRead(c)

-----------------------------------------------------------------------------
(* Resolution, one level of groups at a time.                              *)

\* The resolver of each depth asks that of the depth before.
LEMMA ResolverStep ==
  /\ Resolver[0] = Unresolved
  /\ \A d \in Nat : Resolver[d + 1] = ResolveNode(Resolver[d])
  <1> DEFINE base == Unresolved
             next1(h) == ResolveNode(h)
             Chain(f, k) == f[0] = base /\ \A i \in 1 .. k : f[i] = next1(f[i - 1])
             body(f) == [d \in Nat |-> IF d = 0 THEN base ELSE next1(f[d - 1])]
  <1>2. Resolver = CHOOSE f : f = body(f)
    BY DEF Resolver
  <1> HIDE DEF base, next1, body
  <1>3. ASSUME NEW n \in Nat PROVE \E f : Chain(f, n)
    <2> DEFINE S == {k \in 0 .. n : \E f : Chain(f, k)}
    <2>1. 0 \in S
      <3>1. \E f : Chain(f, 0)
        <4> DEFINE e == [i \in {0} |-> base]
        <4>1. e[0] = base
          OBVIOUS
        <4> HIDE DEF e
        <4>2. \A i \in 1 .. 0 : FALSE
          OBVIOUS
        <4>3. \A i \in 1 .. 0 : e[i] = next1(e[i - 1])
          BY <4>2
        <4>4. Chain(e, 0)
          BY <4>1, <4>3
        <4> HIDE DEF Chain
        <4> QED BY <4>4
      <3> QED BY <3>1
    <2>2. ASSUME NEW k \in 1 .. n, k - 1 \in S PROVE k \in S
      <3>1. PICK f : Chain(f, k - 1)
        BY <2>2
      <3> DEFINE h == [i \in 0 .. k |-> IF i = k THEN next1(f[k - 1]) ELSE f[i]]
      <3>2. Chain(h, k)
        BY <3>1
      <3> QED
        <4> HIDE DEF Chain
        <4> QED BY <3>2
    <2>3. 0 .. n \subseteq S
      <3> HIDE DEF S
      <3> QED BY <2>1, <2>2, UpTo
    <2> QED BY <2>3
  <1>4. ASSUME NEW k \in Nat, NEW m \in Nat, k <= m, NEW f, NEW h, Chain(f, k), Chain(h, m)
        PROVE  f[k] = h[k]
    <2> DEFINE S == {i \in 0 .. k : f[i] = h[i]}
    <2>1. 0 \in S
      BY <1>4
    <2>2. \A i \in 1 .. k : i - 1 \in S => i \in S
      BY <1>4
    <2>3. 0 .. k \subseteq S
      <3> HIDE DEF S
      <3> QED BY <2>1, <2>2, UpTo
    <2> QED BY <2>3
  <1> DEFINE pick(k) == CHOOSE f : Chain(f, k)
             G == [k \in Nat |-> pick(k)[k]]
  <1>5. \A k \in Nat : Chain(pick(k), k)
    <2> HIDE DEF Chain
    <2> QED BY <1>3
  <1>6. G[0] = base
    BY <1>5
  <1>7. ASSUME NEW d \in Nat \ {0} PROVE G[d] = next1(G[d - 1])
    <2>1. Chain(pick(d), d) /\ Chain(pick(d - 1), d - 1)
      <3> HIDE DEF Chain, pick
      <3> QED BY <1>5
    <2>2. pick(d)[d] = next1(pick(d)[d - 1])
      <3> HIDE DEF pick
      <3> QED BY <2>1
    <2>3. pick(d - 1)[d - 1] = pick(d)[d - 1]
      <3> HIDE DEF Chain, pick
      <3> QED BY <2>1, <1>4
    <2> HIDE DEF pick
    <2> QED BY <2>2, <2>3
  <1>8. G = body(G)
    <2>1. \A d \in Nat : G[d] = IF d = 0 THEN base ELSE next1(G[d - 1])
      <3> HIDE DEF G
      <3> QED BY <1>6, <1>7
    <2>2. G = [d \in Nat |-> G[d]]
      OBVIOUS
    <2> HIDE DEF G
    <2> QED BY <2>1, <2>2 DEF body
  <1>9. Resolver = body(Resolver)
    <2> HIDE DEF G
    <2> QED BY <1>2, <1>8
  <1>10. Resolver = [d \in Nat |-> IF d = 0 THEN base ELSE next1(Resolver[d - 1])]
    BY <1>9 DEF body
  <1>11. Resolver[0] = base
    BY <1>10
  <1>12. ASSUME NEW d \in Nat PROVE Resolver[d + 1] = next1(Resolver[d])
    <2>1. d + 1 \in Nat /\ d + 1 # 0 /\ (d + 1) - 1 = d
      OBVIOUS
    <2> QED BY <2>1, <1>10
  <1> QED BY <1>11, <1>12 DEF base, next1

\* Resolving members from R stays in R, and what the groups keep stays in K.
Sound(resolve, R, K) ==
  \A n \in R, st \in K : resolve[<<n, st>>].leaf \in R /\ resolve[<<n, st>>].st \in K

LEMMA LatencyMsFacts ==
  ASSUME lat \in [Leaf -> Ms], NEW R, NEW K, NEW resolve, Sound(resolve, R, K),
         NEW n \in R, NEW st \in K
  PROVE  LatencyMs(resolve, n, st).ms \in Ms /\ LatencyMs(resolve, n, st).st \in K
  BY DEF LatencyMs, Sound, Ms

\* Each of the members asked has its latency, and what the groups keep stays in K.
LEMMA LatenciesFacts ==
  ASSUME lat \in [Leaf -> Ms], NEW R, NEW K, NEW resolve, Sound(resolve, R, K),
         NEW s \in Seq(R), NEW st \in K
  PROVE  /\ Latencies(resolve, s, st).ms \in Seq(Ms)
         /\ Len(Latencies(resolve, s, st).ms) = Len(s)
         /\ Latencies(resolve, s, st).st \in K
  <1> DEFINE n == Len(s)
             A == [ms : Seq(Ms), st : K]
             base == [ms |-> <<>>, st |-> st]
             add(i, a) == LET l == LatencyMs(resolve, s[i], a.st)
                          IN  [ms |-> Append(a.ms, l.ms), st |-> l.st]
             step == [i \in 1 .. n |-> [a \in A |-> add(i, a)]]
             body(f) == [i \in 0 .. n |-> IF i = 0 THEN base ELSE add(i, f[i - 1])]
             F == CHOOSE f : f = body(f)
  <1>1. ASSUME NEW i \in 1 .. n, NEW a \in A
        PROVE  add(i, a) \in A /\ Len(add(i, a).ms) = Len(a.ms) + 1
    <2> DEFINE l == LatencyMs(resolve, s[i], a.st)
    <2>1. l.ms \in Ms /\ l.st \in K
      <3>1. s[i] \in R /\ a.st \in K
        OBVIOUS
      <3> QED BY <3>1, LatencyMsFacts
    <2> HIDE DEF l
    <2>2. [ms |-> Append(a.ms, l.ms), st |-> l.st] \in A /\ Len(Append(a.ms, l.ms)) = Len(a.ms) + 1
      BY <2>1
    <2> QED BY <2>2 DEF l
  <1>2. n \in Nat /\ base \in A /\ Len(base.ms) = 0
    OBVIOUS
  <1>3. Latencies(resolve, s, st) = F[n]
    BY DEF Latencies
  <1> HIDE DEF n, A, base, add
  <1>4. step \in [1 .. n -> [A -> A]]
    BY <1>1
  <1>5. PICK g \in [0 .. n -> A] : g[0] = base /\ \A i \in 1 .. n : g[i] = step[i][g[i - 1]]
    <2>1. n \in Nat /\ base \in A
      BY <1>2
    <2> HIDE DEF step
    <2>2. Walk(A, base, n, step)
      BY <1>4, <2>1, Recursion
    <2> QED BY <2>2 DEF Walk, Walks
  <1>6. \A i \in 1 .. n : g[i] = add(i, g[i - 1]) /\ g[i - 1] \in A
    <2> TAKE i \in 1 .. n
    <2>1. g[i - 1] \in A
      BY <1>2
    <2>2. step[i][g[i - 1]] = add(i, g[i - 1])
      BY <2>1
    <2> QED BY <2>1, <2>2, <1>5
  <1>7. g = body(g)
    BY <1>5, <1>6
  <1>8. F = body(F)
    <2> HIDE DEF body
    <2> QED BY <1>7
  <1>9. F[0] = base /\ \A i \in 1 .. n : F[i] = add(i, F[i - 1])
    <2> HIDE DEF F
    <2> QED BY <1>8, <1>2
  <1>10. \A i \in 0 .. n : F[i] = g[i]
    <2> DEFINE Same == {i \in 0 .. n : F[i] = g[i]}
    <2>1. 0 \in Same
      BY <1>9, <1>5, <1>2
    <2>2. \A i \in 1 .. n : i - 1 \in Same => i \in Same
      BY <1>9, <1>6, <1>2
    <2>3. 0 .. n \subseteq Same
      <3> HIDE DEF Same, F
      <3> QED BY <2>1, <2>2, UpTo, <1>2
    <2> QED BY <2>3
  <1>11. Latencies(resolve, s, st) = g[n] /\ g[n] \in A
    BY <1>3, <1>10, <1>2
  <1> HIDE DEF F, step, body
  <1>12. Len(g[n].ms) = n
    <2> DEFINE Long == {i \in 0 .. n : Len(g[i].ms) = i}
    <2>1. 0 \in Long
      BY <1>2, <1>5
    <2>2. \A i \in 1 .. n : i - 1 \in Long => i \in Long
      <3> TAKE i \in 1 .. n
      <3>1. Len(g[i].ms) = Len(g[i - 1].ms) + 1
        BY <1>1, <1>6
      <3> QED BY <3>1, <1>2
    <2>3. 0 .. n \subseteq Long
      <3> HIDE DEF Long
      <3> QED BY <2>1, <2>2, UpTo, <1>2
    <2> QED BY <2>3, <1>2
  <1> QED BY <1>11, <1>12 DEF A, n

\* What a walk through the groups may leave of what they keep: no selection changes.
Keeping ==
  {st \in GroupStates : \A g \in Group :
     /\ Kind[g] = "selector" => st.current[g] = current[g]
     /\ Kind[g] = "urltest" => st.current[g] \in Members(g) \cup {NoNode}}

\* Nodes from which a walk does not leave.
Closed(R) ==
  /\ R \subseteq Configured[root]
  /\ \A g \in R \ Leaf : /\ Kind[g] = "selector" => current[g] \in R
                         /\ Kind[g] # "selector" => Members(g) \subseteq R

LEMMA GroupFacts ==
  ASSUME GroupTypeOK
  PROVE  /\ root \in Group /\ root \in Configured[root] /\ Configured[root] \subseteq Node
         /\ Group \subseteq DOMAIN Kind /\ Nodes \subseteq Leaf
         /\ \A g \in Group : Members(g) \subseteq Configured[root]
         /\ Groups \in Keeping
  <1>1. root \in DOMAIN Kind /\ root \in Node /\ root \notin Leaf
    BY TreeAssumption DEF GroupTypeOK, Node
  <1>2. Configured[root] = Below(root)
    BY <1>1 DEF Configured
  <1>3. Groups \in Keeping
    <2>1. Groups \in GroupStates
      BY DEF GroupTypeOK
    <2>2. Groups.current = current
      BY DEF Groups
    <2>3. ChoicesOK
      BY DEF GroupTypeOK
    <2>4. \A g \in Group : /\ Kind[g] = "selector" => Groups.current[g] = current[g]
                           /\ Kind[g] = "urltest" => Groups.current[g] \in Members(g) \cup {NoNode}
      <3> TAKE g \in Group
      <3>1. Groups.current[g] = current[g]
        BY <2>2
      <3>2. Kind[g] = "urltest" => current[g] \in Members(g) \cup {NoNode}
        BY <2>3 DEF ChoicesOK
      <3> QED BY <3>1, <3>2
    <2> QED BY <2>1, <2>4 DEF Keeping
  <1>4. Group = Below(root) \ Leaf
    BY <1>2 DEF Group
  <1> QED BY <1>1, <1>2, <1>3, <1>4, BelowFacts DEF Nodes

\* Among the latencies known there is a best.
LEMMA BestKnown ==
  ASSUME NEW ms \in Seq(Ms), Known(ms) # {} PROVE Best(ms) \in Known(ms)
  <1> DEFINE known == Known(ms)
             Low == {ms[i] : i \in known}
  <1>1. Low \subseteq Nat /\ Low # {} /\ known \subseteq Nat
    <2>1. \A i \in known : i \in Nat /\ ms[i] \in Ms /\ ms[i] # NoLatency
      BY DEF Known
    <2>2. \A i \in known : ms[i] \in Nat
      BY <2>1, LatencyAssumption DEF Ms
    <2> QED BY <2>1, <2>2
  <1>2. PICK m \in Low : \A x \in Low : m <= x
    <2> HIDE DEF Low
    <2> QED BY <1>1, LeastNumber
  <1> DEFINE First == {i \in known : ms[i] = m}
  <1>3. First \subseteq Nat /\ First # {}
    BY <1>1, <1>2
  <1>4. PICK i \in First : \A j \in First : i <= j
    <2> HIDE DEF First
    <2> QED BY <1>3, LeastNumber
  <1>5. \A j \in known \ {i} : ms[i] < ms[j] \/ (ms[i] = ms[j] /\ i < j)
    <2> TAKE j \in known \ {i}
    <2>1. ms[i] = m /\ i \in Nat /\ j \in Nat /\ ms[j] \in Nat /\ m \in Nat /\ m <= ms[j]
      BY <1>1, <1>2, <1>4
    <2>2. ms[j] = m => i <= j
      BY <1>4
    <2> QED BY <2>1, <2>2
  <1>6. i \in known
    BY <1>4
  <1> QED BY <1>5, <1>6 DEF Best

\* A urltest that makes a choice keeps the choices of the selectors.
LEMMA KeepingChoice ==
  ASSUME NEW st \in Keeping, NEW g \in Group, Kind[g] = "urltest", NEW n \in Members(g) \cap Node
  PROVE  [st EXCEPT !.current[g] = n] \in Keeping
  <1> DEFINE after == [st EXCEPT !.current[g] = n]
  <1>1. /\ st.current \in [Group -> Node \cup {NoNode}] /\ st.next \in [Group -> 0 .. Wrap - 1]
        /\ st = [current |-> st.current, next |-> st.next]
    BY DEF Keeping, GroupStates
  <1>2. after = [current |-> [st.current EXCEPT ![g] = n], next |-> st.next]
    BY <1>1
  <1>3. after \in GroupStates
    BY <1>1, <1>2 DEF GroupStates
  <1>4. \A h \in Group : after.current[h] = IF h = g THEN n ELSE st.current[h]
    BY <1>1, <1>2
  <1> HIDE DEF after
  <1>5. \A h \in Group : /\ Kind[h] = "selector" => after.current[h] = current[h]
                         /\ Kind[h] = "urltest" => after.current[h] \in Members(h) \cup {NoNode}
    BY <1>4 DEF Keeping
  <1>6. after \in Keeping
    BY <1>3, <1>5 DEF Keeping
  <1> QED BY <1>6 DEF after

\* A urltest resolves, further, its current member or one of those it compares.
Continues(resolve, g, v, st) ==
  \E chosen \in Members(g), after \in Keeping :
      /\ Urltest(resolve, g, v, st) = resolve[<<chosen, after>>]
      /\ \/ Keeps(chosen, v.allow)
         \/ \E i \in 1 .. Len(v.candidates) : chosen = v.candidates[i]

LEMMA UrltestFacts ==
  ASSUME GroupTypeOK, NEW R, NEW resolve, Sound(resolve, R, Keeping),
         NEW g \in Group, Members(g) \subseteq R, Kind[g] = "urltest", NEW st \in Keeping, NEW v,
         v.candidates \in Seq(Members(g)), v.candidates # <<>>, v.ms \in Seq(Ms),
         Len(v.ms) = Len(v.candidates)
  PROVE  Continues(resolve, g, v, st)
  <1> DEFINE curr   == st.current[g]
             any    == Known(v.ms) # {}
             keeps  == Keeps(curr, v.allow)
             asked  == IF keeps /\ any THEN LatencyMs(resolve, curr, st)
                       ELSE [ms |-> NoLatency, st |-> st]
             stays  == keeps /\ \/ ~any
                                \/ asked.ms # NoLatency
                                   /\ asked.ms <= v.ms[Best(v.ms)] + Tolerance
             chosen == IF stays THEN curr ELSE v.candidates[IF any THEN Best(v.ms) ELSE 1]
             after  == [asked.st EXCEPT !.current[g] = chosen]
  <1>1. curr \in Members(g) \cup {NoNode}
    BY DEF Keeping
  <1>2. keeps => curr \in Members(g)
    BY <1>1 DEF Keeps
  <1>3. asked.st \in Keeping
    <2>1. CASE keeps /\ any
      <3>1. asked = LatencyMs(resolve, curr, st)
        BY <2>1
      <3>2. curr \in R /\ lat \in [Leaf -> Ms]
        BY <2>1, <1>2 DEF GroupTypeOK
      <3> HIDE DEF asked, curr
      <3> QED BY <3>1, <3>2, LatencyMsFacts
    <2>2. CASE ~(keeps /\ any)
      <3> HIDE DEF any, keeps
      <3> QED BY <2>2
    <2> QED BY <2>1, <2>2
  <1>4. any => Best(v.ms) \in 1 .. Len(v.candidates)
    <2>1. any => Best(v.ms) \in Known(v.ms)
      BY BestKnown
    <2>2. Known(v.ms) \subseteq 1 .. Len(v.candidates)
      BY DEF Known
    <2> QED BY <2>1, <2>2
  <1>5. 1 \in 1 .. Len(v.candidates)
    OBVIOUS
  <1>6. \A i \in 1 .. Len(v.candidates) : v.candidates[i] \in Members(g)
    OBVIOUS
  <1>7. /\ chosen \in Members(g)
        /\ (keeps /\ chosen = curr) \/ \E i \in 1 .. Len(v.candidates) : chosen = v.candidates[i]
    <2> HIDE DEF any, curr, keeps, asked
    <2> QED BY <1>2, <1>4, <1>5, <1>6
  <1>8. after \in Keeping
    <2>1. chosen \in Node
      BY <1>7, GroupFacts, MembersFacts
    <2> HIDE DEF chosen, asked
    <2> QED BY <1>3, <1>7, <2>1, KeepingChoice
  <1>9. Urltest(resolve, g, v, st) = resolve[<<chosen, after>>]
    BY DEF Urltest
  <1>10. Keeps(chosen, v.allow) \/ \E i \in 1 .. Len(v.candidates) : chosen = v.candidates[i]
    <2> HIDE DEF chosen, curr
    <2> QED BY <1>7
  <1> HIDE DEF chosen, after
  <1> QED BY <1>7, <1>8, <1>9, <1>10 DEF Continues

\* A load_balance that moves its cursor keeps the choices of the others.
LEMMA KeepingTurn ==
  ASSUME NEW st \in Keeping, NEW g \in Group, NEW n \in Nat \ {0}
  PROVE  Take(g, n, st).st \in Keeping /\ Take(g, n, st).at \in 1 .. n
  <1> DEFINE after == [st EXCEPT !.next[g] = (@ + 1) % Wrap]
  <1>1. /\ st.current \in [Group -> Node \cup {NoNode}] /\ st.next \in [Group -> 0 .. Wrap - 1]
        /\ st = [current |-> st.current, next |-> st.next]
    BY DEF Keeping, GroupStates
  <1>2. after = [current |-> st.current, next |-> [st.next EXCEPT ![g] = (@ + 1) % Wrap]]
    BY <1>1
  <1>3. Wrap \in Nat \ {0} /\ st.next[g] \in Nat
    BY <1>1, TreeAssumption
  <1>4. (st.next[g] + 1) % Wrap \in 0 .. Wrap - 1 /\ 1 + (st.next[g] % n) \in 1 .. n
    BY <1>3
  <1>5. after \in GroupStates /\ after.current = st.current
    BY <1>1, <1>2, <1>4 DEF GroupStates
  <1> HIDE DEF after
  <1>6. after \in Keeping
    BY <1>5 DEF Keeping
  <1> QED BY <1>4, <1>6 DEF Take, after

\* What has been read of the members of g, for it to serve.
Readable(g, v) ==
  /\ v.healthy \in Seq(Members(g)) /\ v.candidates \in Seq(Members(g)) /\ v.ms \in Seq(Ms)
  /\ Kind[g] = "urltest" /\ v.healthy # <<>> =>
       v.candidates # <<>> /\ Len(v.ms) = Len(v.candidates)

LEMMA ServeSound ==
  ASSUME GroupTypeOK, NEW R, Closed(R), NEW resolve, Sound(resolve, R, Keeping),
         NEW g \in R \ Leaf, NEW st \in Keeping, NEW v, Readable(g, v)
  PROVE  Serve(resolve, g, v, st).leaf \in R /\ Serve(resolve, g, v, st).st \in Keeping
  <1>1. g \in Group /\ g \in DOMAIN Kind
    BY GroupFacts DEF Closed, Group
  <1>2. ASSUME NEW n \in R, NEW after \in Keeping
        PROVE  resolve[<<n, after>>].leaf \in R /\ resolve[<<n, after>>].st \in Keeping
    BY DEF Sound
  <1>3. Kind[g] \in {"urltest", "fallback", "selector", "loadbalance"}
    BY <1>1, TreeAssumption
  <1>4. CASE Kind[g] = "selector"
    <2>1. st.current[g] \in R
      <3>1. st.current[g] = current[g]
        BY <1>1, <1>4 DEF Keeping
      <3>2. current[g] \in R
        BY <1>4 DEF Closed
      <3> QED BY <3>1, <3>2
    <2>2. Serve(resolve, g, v, st) = resolve[<<st.current[g], st>>]
      BY <1>4 DEF Serve
    <2> QED BY <2>1, <2>2, <1>2
  <1>5. CASE Kind[g] = "urltest"
    <2>1. Members(g) \subseteq R
      BY <1>5 DEF Closed
    <2>2. CASE v.healthy = <<>>
      <3>1. Serve(resolve, g, v, st) = [leaf |-> g, st |-> st]
        BY <1>5, <2>2 DEF Serve
      <3> QED BY <3>1
    <2>3. CASE v.healthy # <<>>
      <3>1. Serve(resolve, g, v, st) = Urltest(resolve, g, v, st)
        BY <1>5, <2>3 DEF Serve
      <3>2. PICK chosen \in Members(g), after \in Keeping :
              /\ Urltest(resolve, g, v, st) = resolve[<<chosen, after>>]
              /\ \/ Keeps(chosen, v.allow)
                 \/ \E i \in 1 .. Len(v.candidates) : chosen = v.candidates[i]
        <4>1. /\ v.candidates \in Seq(Members(g)) /\ v.candidates # <<>>
              /\ v.ms \in Seq(Ms) /\ Len(v.ms) = Len(v.candidates)
          BY <1>5, <2>3 DEF Readable
        <4>2. Continues(resolve, g, v, st)
          BY <4>1, <1>1, <1>5, <2>1, UrltestFacts
        <4> QED BY <4>2 DEF Continues
      <3> QED BY <3>1, <3>2, <2>1, <1>2
    <2> QED BY <2>2, <2>3
  <1>6. ASSUME Kind[g] \in {"fallback", "loadbalance"}
        PROVE  /\ Members(g) \subseteq R /\ Children[g][1] \in R
               /\ \A i \in 1 .. Len(v.healthy) : v.healthy[i] \in R
    <2>1. Members(g) \subseteq R
      BY <1>6 DEF Closed
    <2>2. Children[g][1] \in R
      BY <2>1, <1>1, MembersFacts
    <2>3. \A i \in 1 .. Len(v.healthy) : v.healthy[i] \in Members(g)
      BY DEF Readable
    <2> QED BY <2>1, <2>2, <2>3
  <1>7. CASE Kind[g] = "fallback"
    <2>1. v.healthy # <<>> => 1 \in 1 .. Len(v.healthy)
      BY DEF Readable
    <2>2. Serve(resolve, g, v, st)
            = resolve[<<IF v.healthy = <<>> THEN Children[g][1] ELSE v.healthy[1], st>>]
      BY <1>7 DEF Serve
    <2> QED BY <2>1, <2>2, <1>2, <1>6, <1>7
  <1>8. CASE Kind[g] = "loadbalance"
    <2>1. CASE v.healthy = <<>>
      <3>1. Serve(resolve, g, v, st) = resolve[<<Children[g][1], st>>]
        BY <1>8, <2>1 DEF Serve
      <3> QED BY <3>1, <1>2, <1>6, <1>8
    <2>2. CASE v.healthy # <<>>
      <3> DEFINE turn == Take(g, Len(v.healthy), st)
      <3>1. Len(v.healthy) \in Nat \ {0}
        BY <2>2 DEF Readable
      <3>2. turn.st \in Keeping /\ turn.at \in 1 .. Len(v.healthy)
        BY <3>1, <1>1, KeepingTurn
      <3>3. Serve(resolve, g, v, st) = resolve[<<v.healthy[turn.at], turn.st>>]
        BY <1>8, <2>2 DEF Serve
      <3> HIDE DEF turn
      <3> QED BY <3>2, <3>3, <1>2, <1>6, <1>8
    <2> QED BY <2>1, <2>2
  <1> QED BY <1>3, <1>4, <1>5, <1>7, <1>8

\* The members that are read to be healthy are those that are.
LEMMA HealthyFacts ==
  ASSUME NEW g \in DOMAIN Kind
  PROVE  LET H == HealthyMembers(g)
         IN  /\ H \in Seq(Members(g)) /\ Len(H) <= Len(Children[g])
             /\ \A k \in 1 .. Len(H) : IsHealthy(H[k])
             /\ \A m \in Members(g) : IsHealthy(m) => \E k \in 1 .. Len(H) : H[k] = m
             /\ (\A i, j \in 1 .. Len(Children[g]) : Children[g][i] = Children[g][j] => i = j) =>
                  \A k, l \in 1 .. Len(H) : H[k] = H[l] => k = l
  <1> DEFINE T == {n \in Members(g) : IsHealthy(n)}
             H == Kept(Children[g], T)
  <1>1. Children[g] \in Seq(Members(g)) /\ DOMAIN Children[g] = 1 .. Len(Children[g])
    BY MembersFacts
  <1>2. \A m \in Members(g) : \E j \in 1 .. Len(Children[g]) : Children[g][j] = m
    BY <1>1 DEF Members
  <1>3. H = HealthyMembers(g)
    BY DEF HealthyMembers
  <1> HIDE DEF H
  <1>4. /\ H \in Seq(Members(g)) /\ Len(H) <= Len(Children[g])
        /\ \A k \in 1 .. Len(H) : H[k] \in T
        /\ \A j \in 1 .. Len(Children[g]) : Children[g][j] \in T =>
             \E k \in 1 .. Len(H) : H[k] = Children[g][j]
        /\ (\A i, j \in 1 .. Len(Children[g]) : Children[g][i] = Children[g][j] => i = j) =>
             \A k, l \in 1 .. Len(H) : H[k] = H[l] => k = l
    BY <1>1, KeptFacts DEF H
  <1>5. \A m \in Members(g) : IsHealthy(m) => \E k \in 1 .. Len(H) : H[k] = m
    BY <1>2, <1>4
  <1> QED BY <1>3, <1>4, <1>5

\* Of the healthy members a urltest compares those without a penalty, or all if there are none.
LEMMA PenaltyFacts ==
  ASSUME NEW g \in DOMAIN Kind, NEW v \in Views, v.healthy \in Seq(Members(g))
  PROVE  LET w == WithPenalties(v)
         IN  /\ w = [v EXCEPT !.candidates = w.candidates, !.allow = w.allow]
             /\ w \in Views /\ w.healthy = v.healthy /\ w.ms = v.ms
             /\ w.candidates \in Seq(Members(g))
             /\ v.healthy # <<>> => w.candidates # <<>>
             /\ ~w.allow => \A k \in 1 .. Len(w.candidates) :
                  /\ ~IsPenalized(w.candidates[k])
                  /\ \E j \in 1 .. Len(v.healthy) : v.healthy[j] = w.candidates[k]
             /\ w.allow => \A j \in 1 .. Len(v.healthy) : IsPenalized(v.healthy[j])
  <1> DEFINE T == {n \in Node : ~IsPenalized(n)}
             free == Kept(v.healthy, T)
             w == WithPenalties(v)
  <1>1. Members(g) \subseteq Node
    BY MembersFacts
  <1>2. /\ free \in Seq(Members(g))
        /\ \A k \in 1 .. Len(free) : free[k] \in T /\
                 \E j \in 1 .. Len(v.healthy) : v.healthy[j] = free[k]
        /\ \A j \in 1 .. Len(v.healthy) : v.healthy[j] \in T =>
                 \E k \in 1 .. Len(free) : free[k] = v.healthy[j]
    <2> HIDE DEF T
    <2> QED BY KeptFacts
  <1>3. w = [v EXCEPT !.candidates = IF free = <<>> THEN v.healthy ELSE free,
                !.allow = (free = <<>>)]
    BY DEF WithPenalties
  <1> HIDE DEF free, w, T
  <1>4. /\ w.healthy = v.healthy /\ w.ms = v.ms
        /\ w.candidates = IF free = <<>> THEN v.healthy ELSE free
        /\ w.allow = (free = <<>>)
    BY <1>3 DEF Views
  <1>5. free \in Seq(Node) /\ v.healthy \in Seq(Node)
    BY <1>1, <1>2
  <1>6. w \in Views
    BY <1>3, <1>5 DEF Views
  <1>7. w = [v EXCEPT !.candidates = w.candidates, !.allow = w.allow]
    BY <1>3, <1>4
  <1>8. w.candidates \in Seq(Members(g)) /\ (v.healthy # <<>> => w.candidates # <<>>)
    BY <1>2, <1>4
  <1>9. ASSUME ~w.allow, NEW k \in 1 .. Len(w.candidates)
        PROVE  /\ ~IsPenalized(w.candidates[k])
               /\ \E j \in 1 .. Len(v.healthy) : v.healthy[j] = w.candidates[k]
    BY <1>2, <1>4, <1>9 DEF T
  <1>10. ASSUME w.allow, NEW j \in 1 .. Len(v.healthy) PROVE IsPenalized(v.healthy[j])
    <2>1. v.healthy[j] \in Node
      BY <1>5
    <2>2. Len(free) = 0
      <3>1. free = <<>>
        BY <1>4, <1>10
      <3> QED BY <3>1
    <2> QED BY <2>1, <2>2, <1>2 DEF T
  <1> QED BY <1>4, <1>6, <1>7, <1>8, <1>9, <1>10 DEF w

LEMMA NoViewFacts ==
  /\ NoView \in Views /\ NoView.healthy = <<>> /\ NoView.candidates = <<>> /\ NoView.ms = <<>>
  BY DEF NoView, Views

LEMMA GroupSound ==
  ASSUME GroupTypeOK, NEW R, Closed(R), NEW resolve, Sound(resolve, R, Keeping),
         NEW g \in R \ Leaf, NEW st \in Keeping
  PROVE  ResolveGroup(resolve, g, st).leaf \in R /\ ResolveGroup(resolve, g, st).st \in Keeping
  <1> DEFINE v == [NoView EXCEPT !.healthy =
                     IF Kind[g] = "selector" THEN <<>> ELSE HealthyMembers(g)]
             w == IF Kind[g] = "urltest" THEN WithPenalties(v) ELSE v
             l == Latencies(resolve, w.candidates, st)
             r == [w EXCEPT !.ms = l.ms]
  <1>1. g \in Group /\ g \in DOMAIN Kind
    BY GroupFacts DEF Closed, Group
  <1>2. HealthyMembers(g) \in Seq(Members(g)) /\ HealthyMembers(g) \in Seq(Node)
    BY <1>1, HealthyFacts, MembersFacts
  <1>3. v \in Views /\ v.healthy \in Seq(Members(g)) /\ v.candidates = <<>> /\ v.ms = <<>>
    <2> DEFINE h == IF Kind[g] = "selector" THEN <<>> ELSE HealthyMembers(g)
    <2>1. h \in Seq(Node) /\ h \in Seq(Members(g))
      BY <1>2
    <2>2. v = [NoView EXCEPT !.healthy = h]
      OBVIOUS
    <2> HIDE DEF v, h
    <2>3. v.healthy = h /\ v.candidates = <<>> /\ v.ms = <<>>
      BY <2>2, NoViewFacts DEF Views
    <2>4. v \in Views
      BY <2>1, <2>2, NoViewFacts DEF Views
    <2> QED BY <2>1, <2>3, <2>4
  <1> HIDE DEF v
  <1>4. /\ w \in Views /\ w.healthy = v.healthy /\ w.candidates \in Seq(Members(g))
        /\ Kind[g] = "urltest" /\ w.healthy # <<>> => w.candidates # <<>>
    <2>1. CASE Kind[g] = "urltest"
      <3>1. w = WithPenalties(v)
        BY <2>1
      <3> HIDE DEF w
      <3> QED BY <3>1, <1>1, <1>3, PenaltyFacts
    <2>2. CASE Kind[g] # "urltest"
      <3>1. w = v
        BY <2>2
      <3>2. <<>> \in Seq(Members(g))
        OBVIOUS
      <3> HIDE DEF w
      <3> QED BY <2>2, <3>1, <3>2, <1>3
    <2> QED BY <2>1, <2>2
  <1> HIDE DEF w
  <1>5. l.ms \in Seq(Ms) /\ Len(l.ms) = Len(w.candidates) /\ l.st \in Keeping
    <2>1. w.candidates \in Seq(R)
      <3>1. CASE Kind[g] = "urltest"
        <4>1. Members(g) \subseteq R
          BY <3>1 DEF Closed
        <4> QED BY <4>1, <1>4
      <3>2. CASE Kind[g] # "urltest"
        <4>1. w.candidates = <<>>
          BY <3>2, <1>3 DEF w
        <4> QED BY <4>1
      <3> QED BY <3>1, <3>2
    <2>2. lat \in [Leaf -> Ms]
      BY DEF GroupTypeOK
    <2> QED BY <2>1, <2>2, LatenciesFacts
  <1> HIDE DEF l
  <1>6. r.healthy = w.healthy /\ r.candidates = w.candidates /\ r.ms = l.ms
    BY <1>4 DEF Views
  <1> HIDE DEF r
  <1>7. Readable(g, r)
    BY <1>3, <1>4, <1>5, <1>6 DEF Readable
  <1>8. ResolveGroup(resolve, g, st) = Serve(resolve, g, r, l.st)
    BY DEF ResolveGroup, v, w, l, r
  <1> QED BY <1>5, <1>7, <1>8, ServeSound

LEMMA Resolved ==
  ASSUME NEW n, NEW st, NEW r, r = [leaf |-> n, st |-> st] PROVE r.leaf = n /\ r.st = st
  OBVIOUS

LEMMA ResolveNodeAt ==
  ASSUME NEW resolve, NEW n \in Node, NEW st \in GroupStates
  PROVE  /\ Unresolved[<<n, st>>] = [leaf |-> n, st |-> st]
         /\ ResolveNode(resolve)[<<n, st>>] = IF n \in Leaf THEN [leaf |-> n, st |-> st]
                                          ELSE ResolveGroup(resolve, n, st)
  <1>1. Unresolved[<<n, st>>] = [leaf |-> n, st |-> st]
    BY DEF Unresolved
  <1>2. ResolveNode(resolve)[<<n, st>>] = IF n \in Leaf THEN Unresolved[<<n, st>>]
                                      ELSE ResolveGroup(resolve, n, st)
    BY DEF ResolveNode
  <1> QED BY <1>1, <1>2

LEMMA ResolverLeaf ==
  ASSUME NEW d \in Nat, NEW n \in Leaf, NEW st \in GroupStates
  PROVE  Resolver[d][<<n, st>>] = [leaf |-> n, st |-> st]
  <1>1. n \in Node
    BY DEF Node
  <1>2. CASE d = 0
    BY <1>1, <1>2, ResolverStep, ResolveNodeAt
  <1>3. CASE d # 0
    <2>1. d - 1 \in Nat /\ (d - 1) + 1 = d
      BY <1>3
    <2>2. Resolver[d] = ResolveNode(Resolver[d - 1])
      BY <2>1, ResolverStep
    <2>3. ResolveNode(Resolver[d - 1])[<<n, st>>] = [leaf |-> n, st |-> st]
      BY <1>1, ResolveNodeAt
    <2> QED BY <2>2, <2>3
  <1> QED BY <1>2, <1>3

\* A walk stays where it leads, and keeps the selections.
LEMMA ResolverSound ==
  ASSUME GroupTypeOK, NEW R, Closed(R), NEW n \in Nat
  PROVE  Sound(Resolver[n], R, Keeping)
  <1> DEFINE S == {d \in 0 .. n : Sound(Resolver[d], R, Keeping)}
  <1>1. R \subseteq Node /\ Keeping \subseteq GroupStates
    BY GroupFacts DEF Closed, Keeping
  <1>2. 0 \in S
    <2>0. ASSUME NEW m \in R, NEW st \in Keeping
          PROVE  Resolver[0][<<m, st>>].leaf \in R /\ Resolver[0][<<m, st>>].st \in Keeping
      <3>1. Unresolved[<<m, st>>] = [leaf |-> m, st |-> st]
        BY <1>1, ResolveNodeAt
      <3>2. Resolver[0][<<m, st>>] = [leaf |-> m, st |-> st]
        BY <3>1, ResolverStep
      <3>3. Resolver[0][<<m, st>>].leaf = m /\ Resolver[0][<<m, st>>].st = st
        BY <3>2, Resolved
      <3> QED BY <3>3
    <2>1. Sound(Resolver[0], R, Keeping)
      BY <2>0 DEF Sound
    <2> QED BY <2>1
  <1>3. ASSUME NEW d \in 1 .. n, d - 1 \in S PROVE d \in S
    <2>1. Sound(Resolver[d - 1], R, Keeping)
      BY <1>3
    <2>2. d - 1 \in Nat /\ (d - 1) + 1 = d
      OBVIOUS
    <2>3. Resolver[d] = ResolveNode(Resolver[d - 1])
      BY <2>2, ResolverStep
    <2>4. ASSUME NEW m \in R, NEW st \in Keeping
          PROVE  Resolver[d][<<m, st>>].leaf \in R /\ Resolver[d][<<m, st>>].st \in Keeping
      <3>1. Resolver[d][<<m, st>>] = IF m \in Leaf THEN [leaf |-> m, st |-> st]
                                 ELSE ResolveGroup(Resolver[d - 1], m, st)
        <4>1. ResolveNode(Resolver[d - 1])[<<m, st>>] = IF m \in Leaf THEN [leaf |-> m, st |-> st]
                                                   ELSE ResolveGroup(Resolver[d - 1], m, st)
          <5>1. m \in Node /\ st \in GroupStates
            BY <1>1
          <5> QED BY <5>1, ResolveNodeAt
        <4> QED BY <2>3, <4>1
      <3>2. CASE m \in Leaf
        <4>1. Resolver[d][<<m, st>>] = [leaf |-> m, st |-> st]
          BY <3>1, <3>2
        <4>2. Resolver[d][<<m, st>>].leaf = m /\ Resolver[d][<<m, st>>].st = st
          BY <4>1, Resolved
        <4> QED BY <4>2
      <3>3. CASE m \notin Leaf
        <4>1. Resolver[d][<<m, st>>] = ResolveGroup(Resolver[d - 1], m, st)
          BY <3>1, <3>3
        <4>2. m \in R \ Leaf
          BY <3>3
        <4>3. /\ ResolveGroup(Resolver[d - 1], m, st).leaf \in R
              /\ ResolveGroup(Resolver[d - 1], m, st).st \in Keeping
          BY <4>2, <2>1, GroupSound
        <4> QED BY <4>1, <4>3
      <3> QED BY <3>2, <3>3
    <2>5. Sound(Resolver[d], R, Keeping)
      BY <2>4 DEF Sound
    <2> QED BY <2>5
  <1>4. 0 .. n \subseteq S
    <2> HIDE DEF S
    <2> QED BY <1>2, <1>3, UpTo
  <1> QED BY <1>4

LEMMA ResolveLeafSound ==
  ASSUME GroupTypeOK, NEW R, Closed(R)
  PROVE  Sound(ResolveLeaf, R, Keeping)
  <1>1. Cardinality(DOMAIN Kind) \in Nat
    BY TreeAssumption, FS_CardinalityType
  <1> QED BY <1>1, ResolverSound DEF ResolveLeaf

LEMMA ResolveLeafLeaf ==
  ASSUME NEW n \in Leaf, NEW st \in GroupStates
  PROVE  ResolveLeaf[<<n, st>>] = [leaf |-> n, st |-> st]
  <1>1. Cardinality(DOMAIN Kind) \in Nat
    BY TreeAssumption, FS_CardinalityType
  <1> QED BY <1>1, ResolverLeaf DEF ResolveLeaf

LEMMA AllClosed ==
  ASSUME GroupTypeOK PROVE Closed(Configured[root])
  <1>1. ChoicesOK
    BY DEF GroupTypeOK
  <1>2. \A g \in Configured[root] \ Leaf : g \in Group
    BY DEF Group
  <1> QED BY <1>1, <1>2, GroupFacts DEF Closed, ChoicesOK

-----------------------------------------------------------------------------
(* What the calls read and leave.                                          *)

LEMMA SameRoot ==
  ASSUME root' = root
  PROVE  Group' = Group /\ Nodes' = Nodes /\ GroupStates' = GroupStates
  BY DEF Group, Nodes, GroupStates

\* Leaving what a walk has made of the groups.
LEMMA LeaveFacts ==
  ASSUME GroupTypeOK, NEW st \in Keeping, Leave(st), root' = root
  PROVE  /\ Groups' \in GroupStates' /\ ChoicesOK'
         /\ \A g \in Group : Kind[g] = "selector" => current'[g] = current[g]
  <1>1. /\ st.current \in [Group -> Node \cup {NoNode}] /\ st.next \in [Group -> 0 .. Wrap - 1]
        /\ st = [current |-> st.current, next |-> st.next]
    BY DEF Keeping, GroupStates
  <1>2. current' = st.current /\ next' = st.next
    BY DEF Leave
  <1>3. Groups' = st
    BY <1>1, <1>2 DEF Groups
  <1>4. Groups' \in GroupStates'
    BY <1>3, SameRoot DEF Keeping
  <1>5. \A g \in Group : /\ Kind[g] = "selector" => current'[g] = current[g]
                         /\ Kind[g] = "urltest" => current'[g] \in Members(g) \cup {NoNode}
    BY <1>2 DEF Keeping
  <1>6. ChoicesOK
    BY DEF GroupTypeOK
  <1>7. ChoicesOK'
    BY <1>5, <1>6, SameRoot DEF ChoicesOK
  <1> QED BY <1>4, <1>5, <1>7

\* What a caller has read serves it.
LEMMA ReadableRoot ==
  ASSUME GroupTypeOK, NEW c \in Caller, pc[c] = "serve" PROVE Readable(root, view[c])
  <1>1. view[c] \in Views /\ ViewRead(c)
    BY DEF GroupTypeOK
  <1>2. view[c].ms \in Seq(Ms)
    BY <1>1 DEF Views
  <1> QED BY <1>1, <1>2 DEF ViewRead, Readable

LEMMA ServedFacts ==
  ASSUME GroupTypeOK, NEW c \in Caller, pc[c] = "serve", NEW R, Closed(R), root \in R
  PROVE  /\ Serve(ResolveLeaf, root, view[c], Groups).leaf \in R
         /\ Serve(ResolveLeaf, root, view[c], Groups).st \in Keeping
  <1>1. Sound(ResolveLeaf, R, Keeping) /\ Readable(root, view[c]) /\ Groups \in Keeping
    BY ResolveLeafSound, ReadableRoot, GroupFacts
  <1>2. root \in R \ Leaf
    BY GroupFacts DEF Group
  <1> QED BY <1>1, <1>2, ServeSound

LEMMA ListFacts ==
  ASSUME GroupTypeOK, NEW g \in Group, NEW n \in Members(g)
  PROVE  LatencyMs(ResolveLeaf, n, Groups).st \in Keeping
  <1>1. n \in Configured[root] /\ Groups \in Keeping /\ lat \in [Leaf -> Ms]
    BY GroupFacts DEF GroupTypeOK
  <1>2. Sound(ResolveLeaf, Configured[root], Keeping)
    BY AllClosed, ResolveLeafSound
  <1> QED BY <1>1, <1>2, LatencyMsFacts

\* The latencies that a call asks for.
Asked(c) == Latencies(ResolveLeaf, view[c].candidates, Groups)

LEMMA AskedFacts ==
  ASSUME GroupTypeOK, NEW c \in Caller
  PROVE  /\ Asked(c).ms \in Seq(Ms) /\ Len(Asked(c).ms) = Len(view[c].candidates)
         /\ Asked(c).st \in Keeping
  <1>1. view[c].candidates \in Seq(Members(root))
    BY DEF GroupTypeOK, ViewRead
  <1>2. Members(root) \subseteq Configured[root] /\ Groups \in Keeping
    BY GroupFacts
  <1>3. view[c].candidates \in Seq(Configured[root])
    BY <1>1, <1>2
  <1>4. Sound(ResolveLeaf, Configured[root], Keeping) /\ lat \in [Leaf -> Ms]
    BY AllClosed, ResolveLeafSound DEF GroupTypeOK
  <1> QED BY <1>2, <1>3, <1>4, LatenciesFacts DEF Asked

-----------------------------------------------------------------------------
(* Types.                                                                  *)

LEMMA SameGroups ==
  ASSUME GroupTypeOK, root' = root, UNCHANGED groupVars
  PROVE  Groups' \in GroupStates' /\ ChoicesOK' /\ Marked' = Marked
  <1>1. ChoicesOK /\ Groups \in GroupStates
    BY DEF GroupTypeOK
  <1>2. Group' = Group /\ GroupStates' = GroupStates /\ current' = current /\ next' = next
    BY SameRoot DEF groupVars
  <1>3. Groups' = Groups /\ (ChoicesOK' <=> ChoicesOK)
    BY <1>2 DEF Groups, ChoicesOK
  <1>4. Marked' = Marked
    BY <1>2 DEF Marked, MarkedGroups, LeadsTo
  <1> QED BY <1>1, <1>2, <1>3, <1>4

LEMMA NoSinceType == NoSince \in Sinces /\ NoSince.steered = FALSE
  BY DEF NoSince, Sinces

\* A view that changes for one caller only.
LEMMA OneView ==
  ASSUME GroupTypeOK, root' = root, NEW c \in Caller, NEW v \in Views,
         view' = [view EXCEPT ![c] = v], NEW p, pc' = [pc EXCEPT ![c] = p],
         p \in {"idle", "health", "penalty", "latency", "serve"},
         ViewRead(c)'
  PROVE  /\ pc' \in [Caller -> {"idle", "health", "penalty", "latency", "serve"}]
         /\ view' \in [Caller -> Views] /\ \A u \in Caller : ViewRead(u)'
  <1>1. /\ pc \in [Caller -> {"idle", "health", "penalty", "latency", "serve"}]
        /\ view \in [Caller -> Views] /\ \A u \in Caller : ViewRead(u)
    BY DEF GroupTypeOK
  <1>2. \A u \in Caller \ {c} : view'[u] = view[u] /\ pc'[u] = pc[u]
    BY <1>1
  <1>3. \A u \in Caller \ {c} : ViewRead(u)'
    BY <1>1, <1>2 DEF ViewRead
  <1> QED BY <1>1, <1>3

LEMMA StartTypes ==
  ASSUME GroupTypeOK, root' = root, NEW c \in Caller, Start(c) PROVE GroupTypeOK'
  <1>1. Groups' \in GroupStates' /\ ChoicesOK'
    BY SameGroups DEF Start
  <1> DEFINE p == IF Kind[root] = "selector" THEN "serve" ELSE "health"
             s == IF ~Compares(root) THEN NoSince
                  ELSE [alive |-> Nodes \ dead, clear |-> Nodes \ penalized,
                        steady |-> (Nodes \ dead) \ penalized, steered |-> FALSE]
  <1>2. s \in Sinces
    <2>1. Nodes \subseteq Leaf
      BY DEF Nodes
    <2> QED BY <2>1, NoSinceType DEF Sinces
  <1>3. since' = [since EXCEPT ![c] = s]
    BY DEF Start
  <1>4. since' \in [Caller -> Sinces]
    <2> HIDE DEF s
    <2> QED BY <1>2, <1>3 DEF GroupTypeOK
  <1>5. /\ pc[c] = "idle" /\ view[c] = NoView /\ view' = view /\ pc' = [pc EXCEPT ![c] = p]
        /\ pc'[c] = p
    BY DEF Start, GroupTypeOK, ViewRead
  <1>6. view[c] \in Views /\ view' = [view EXCEPT ![c] = view[c]]
    BY <1>5 DEF GroupTypeOK
  <1>7. ViewRead(c)'
    <2>1. view'[c] = NoView /\ NoView.healthy = <<>> /\ NoView.candidates = <<>> /\ NoView.ms = <<>>
      BY <1>5, NoViewFacts
    <2>2. <<>> \in Seq(Members(root)) /\ Len(<<>>) = 0
      OBVIOUS
    <2> QED BY <2>1, <2>2, <1>5 DEF ViewRead
  <1>8. p \in {"idle", "health", "penalty", "latency", "serve"}
    OBVIOUS
  <1>9. /\ pc' \in [Caller -> {"idle", "health", "penalty", "latency", "serve"}]
        /\ view' \in [Caller -> Views] /\ \A u \in Caller : ViewRead(u)'
    <2> HIDE DEF p
    <2> QED BY <1>5, <1>6, <1>7, <1>8, OneView
  <1>10. /\ dead' = dead /\ penalized' = penalized /\ lat' = lat /\ asleep' \subseteq asleep
    BY DEF Start
  <1> HIDE DEF s, p
  <1> QED BY <1>1, <1>4, <1>9, <1>10 DEF GroupTypeOK

LEMMA ReadHealthTypes ==
  ASSUME GroupTypeOK, root' = root, NEW c \in Caller, ReadHealth(c) PROVE GroupTypeOK'
  <1>1. Groups' \in GroupStates' /\ ChoicesOK'
    BY SameGroups DEF ReadHealth
  <1> DEFINE H == HealthyMembers(root)
             v == [view[c] EXCEPT !.healthy = H]
             p == IF Kind[root] = "urltest" /\ view'[c].healthy # <<>> THEN "penalty" ELSE "serve"
  <1>2. H \in Seq(Members(root)) /\ H \in Seq(Node)
    <2>1. root \in DOMAIN Kind
      BY GroupFacts
    <2> QED BY <2>1, HealthyFacts, MembersFacts
  <1>3. view[c] = NoView /\ view \in [Caller -> Views] /\
         pc \in [Caller -> {"idle", "health", "penalty", "latency", "serve"}]
    BY DEF ReadHealth, GroupTypeOK, ViewRead
  <1>4. view' = [view EXCEPT ![c] = v] /\ pc' = [pc EXCEPT ![c] = p]
    BY DEF ReadHealth
  <1> HIDE DEF H
  <1>5. /\ v \in Views /\ v.healthy = H /\ v.candidates = <<>> /\ v.ms = <<>>
    BY <1>2, <1>3, NoViewFacts DEF Views
  <1> HIDE DEF v
  <1>6. view'[c] = v /\ pc'[c] = p
    BY <1>3, <1>4
  <1>7. ViewRead(c)'
    <2>1. <<>> \in Seq(Members(root)) /\ Len(<<>>) = 0
      OBVIOUS
    <2>2. p = IF Kind[root] = "urltest" /\ H # <<>> THEN "penalty" ELSE "serve"
      BY <1>5, <1>6
    <2> HIDE DEF p
    <2> QED BY <2>1, <2>2, <1>2, <1>5, <1>6 DEF ViewRead
  <1>8. p \in {"idle", "health", "penalty", "latency", "serve"}
    OBVIOUS
  <1>9. /\ pc' \in [Caller -> {"idle", "health", "penalty", "latency", "serve"}]
        /\ view' \in [Caller -> Views] /\ \A u \in Caller : ViewRead(u)'
    <2> HIDE DEF p
    <2> QED BY <1>4, <1>5, <1>7, <1>8, OneView
  <1>10. UNCHANGED <<dead, penalized, lat, asleep, since>>
    BY DEF ReadHealth, nodeVars
  <1> QED BY <1>1, <1>9, <1>10 DEF GroupTypeOK

LEMMA ReadPenaltyTypes ==
  ASSUME GroupTypeOK, root' = root, NEW c \in Caller, ReadPenalty(c) PROVE GroupTypeOK'
  <1>1. Groups' \in GroupStates' /\ ChoicesOK'
    BY SameGroups DEF ReadPenalty
  <1> DEFINE v == WithPenalties(view[c])
  <1>2. /\ pc[c] = "penalty" /\ ViewRead(c) /\ view[c] \in Views /\ view \in [Caller -> Views]
        /\ pc \in [Caller -> {"idle", "health", "penalty", "latency", "serve"}]
    BY DEF ReadPenalty, GroupTypeOK
  <1>3. view' = [view EXCEPT ![c] = v] /\ pc' = [pc EXCEPT ![c] = "latency"]
    BY DEF ReadPenalty
  <1>4. Kind[root] = "urltest" /\ view[c].healthy # <<>> /\ view[c].healthy \in Seq(Members(root))
    BY <1>2 DEF ViewRead
  <1>5. /\ v \in Views /\ v.healthy = view[c].healthy
        /\ v.candidates \in Seq(Members(root)) /\ v.candidates # <<>>
    <2>1. root \in DOMAIN Kind
      BY GroupFacts
    <2> QED BY <2>1, <1>2, <1>4, PenaltyFacts
  <1> HIDE DEF v
  <1>6. view'[c] = v /\ pc'[c] = "latency"
    BY <1>2, <1>3
  <1>7. ViewRead(c)'
    BY <1>4, <1>5, <1>6 DEF ViewRead
  <1>9. /\ pc' \in [Caller -> {"idle", "health", "penalty", "latency", "serve"}]
        /\ view' \in [Caller -> Views] /\ \A u \in Caller : ViewRead(u)'
    BY <1>3, <1>5, <1>7, OneView
  <1>10. UNCHANGED <<dead, penalized, lat, asleep, since>>
    BY DEF ReadPenalty, nodeVars
  <1> QED BY <1>1, <1>9, <1>10 DEF GroupTypeOK

LEMMA ReadLatencyTypes ==
  ASSUME GroupTypeOK, root' = root, NEW c \in Caller, ReadLatency(c) PROVE GroupTypeOK'
  <1> DEFINE l == Asked(c)
             v == [view[c] EXCEPT !.ms = l.ms]
  <1>0. view' = [view EXCEPT ![c].ms = l.ms] /\ Leave(l.st) /\ pc' = [pc EXCEPT ![c] = "serve"]
    BY DEF ReadLatency, Asked
  <1>1. l.ms \in Seq(Ms) /\ Len(l.ms) = Len(view[c].candidates) /\ l.st \in Keeping
    BY AskedFacts
  <1> HIDE DEF l
  <1>2. Groups' \in GroupStates' /\ ChoicesOK'
    BY <1>0, <1>1, LeaveFacts
  <1>3. /\ pc[c] = "latency" /\ ViewRead(c) /\ view[c] \in Views /\ view \in [Caller -> Views]
        /\ pc \in [Caller -> {"idle", "health", "penalty", "latency", "serve"}]
    BY DEF ReadLatency, GroupTypeOK
  <1>4. view' = [view EXCEPT ![c] = v]
    BY <1>0
  <1>5. /\ v \in Views /\ v.healthy = view[c].healthy /\ v.candidates = view[c].candidates
        /\ v.ms = l.ms
    BY <1>1, <1>3 DEF Views
  <1> HIDE DEF v
  <1>6. view'[c] = v /\ pc'[c] = "serve"
    BY <1>0, <1>3, <1>4
  <1>7. ViewRead(c)'
    BY <1>1, <1>3, <1>5, <1>6 DEF ViewRead
  <1>9. /\ pc' \in [Caller -> {"idle", "health", "penalty", "latency", "serve"}]
        /\ view' \in [Caller -> Views] /\ \A u \in Caller : ViewRead(u)'
    BY <1>0, <1>4, <1>5, <1>7, OneView
  <1>10. UNCHANGED <<dead, penalized, lat, asleep, since>>
    BY DEF ReadLatency, nodeVars
  <1> QED BY <1>2, <1>9, <1>10 DEF GroupTypeOK

LEMMA ServeCallTypes ==
  ASSUME GroupTypeOK, root' = root, NEW c \in Caller, ServeCall(c) PROVE GroupTypeOK'
  <1> DEFINE r == Serve(ResolveLeaf, root, view[c], Groups)
  <1>1. Leave(r.st) /\ pc[c] = "serve"
    BY DEF ServeCall
  <1>2. r.st \in Keeping
    BY <1>1, AllClosed, GroupFacts, ServedFacts
  <1> HIDE DEF r
  <1>3. Groups' \in GroupStates' /\ ChoicesOK'
    BY <1>1, <1>2, LeaveFacts
  <1>4. /\ view' = [view EXCEPT ![c] = NoView] /\ pc' = [pc EXCEPT ![c] = "idle"]
        /\ since' = [since EXCEPT ![c] = NoSince]
    BY DEF ServeCall
  <1>5. view'[c] = NoView /\ pc'[c] = "idle"
    BY <1>4 DEF GroupTypeOK
  <1>7. ViewRead(c)'
    <2>1. <<>> \in Seq(Members(root)) /\ Len(<<>>) = 0
      OBVIOUS
    <2> QED BY <2>1, <1>5, NoViewFacts DEF ViewRead
  <1>8. since' \in [Caller -> Sinces]
    BY <1>4, NoSinceType DEF GroupTypeOK
  <1>9. /\ pc' \in [Caller -> {"idle", "health", "penalty", "latency", "serve"}]
        /\ view' \in [Caller -> Views] /\ \A u \in Caller : ViewRead(u)'
    BY <1>4, <1>7, NoViewFacts, OneView
  <1>10. UNCHANGED <<dead, penalized, lat, asleep>>
    BY DEF ServeCall, nodeVars
  <1> QED BY <1>3, <1>8, <1>9, <1>10 DEF GroupTypeOK

LEMMA SameViews ==
  ASSUME GroupTypeOK, root' = root, UNCHANGED <<pc, view>>
  PROVE  \A u \in Caller : ViewRead(u)'
  <1>1. \A u \in Caller : ViewRead(u)
    BY DEF GroupTypeOK
  <1> QED BY <1>1 DEF ViewRead

LEMMA ListTypes ==
  ASSUME GroupTypeOK, root' = root, ListProxies PROVE GroupTypeOK'
  <1>0. PICK g \in Group : \E n \in Members(g) : Leave(LatencyMs(ResolveLeaf, n, Groups).st)
    BY DEF ListProxies
  <1>1. PICK n \in Members(g) : Leave(LatencyMs(ResolveLeaf, n, Groups).st)
    BY <1>0
  <1>2. Groups' \in GroupStates' /\ ChoicesOK'
    BY <1>1, ListFacts, LeaveFacts
  <1>3. UNCHANGED <<dead, penalized, lat, asleep, pc, view, since>>
    BY DEF ListProxies, nodeVars, callVars
  <1>4. \A u \in Caller : ViewRead(u)'
    BY <1>3, SameViews
  <1> QED BY <1>2, <1>3, <1>4 DEF GroupTypeOK

LEMMA SelectTypes ==
  ASSUME GroupTypeOK, root' = root, NEW g \in Group, NEW n, Select(g, n) PROVE GroupTypeOK'
  <1>1. Kind[g] = "selector" /\ n \in Members(g) /\ current' = [current EXCEPT ![g] = n]
    BY DEF Select
  <1>2. UNCHANGED <<dead, penalized, lat, asleep, next, pc, view>>
    BY DEF Select, nodeVars
  <1>3. n \in Node
    BY <1>1, GroupFacts, MembersFacts
  <1>4. ChoicesOK /\ current \in [Group -> Node \cup {NoNode}] /\ next \in [Group -> 0 .. Wrap - 1]
    BY DEF GroupTypeOK, Groups, GroupStates
  <1>5. Groups' \in GroupStates'
    BY <1>1, <1>2, <1>3, <1>4, SameRoot DEF Groups, GroupStates
  <1>6. ChoicesOK'
    BY <1>1, <1>4, SameRoot DEF ChoicesOK
  <1>7. since' \in [Caller -> Sinces]
    <2>1. since' = [u \in Caller |-> [since[u] EXCEPT !.steered = pc[u] # "idle"]]
      BY DEF Select
    <2>2. \A u \in Caller : since[u] \in Sinces
      BY DEF GroupTypeOK
    <2> QED BY <2>1, <2>2 DEF Sinces
  <1>8. \A u \in Caller : ViewRead(u)'
    BY <1>2, SameViews
  <1> QED BY <1>2, <1>5, <1>6, <1>7, <1>8 DEF GroupTypeOK

LEMMA WitnessTypes ==
  ASSUME GroupTypeOK, NEW d, NEW p, Witness(d, p) PROVE since' \in [Caller -> Sinces]
  <1>1. \A u \in Caller : since[u] \in Sinces
    BY DEF GroupTypeOK
  <1>2. Nodes \subseteq Leaf
    BY DEF Nodes
  <1>3. \A u \in Caller :
          [since[u] EXCEPT !.alive = @ \cup (Nodes \ d), !.clear = @ \cup (Nodes \ p),
                           !.steady = (@ \ d) \ p] \in Sinces
    BY <1>1, <1>2 DEF Sinces
  <1> QED BY <1>1, <1>3 DEF Witness

LEMMA NodeChangeTypes ==
  ASSUME GroupTypeOK, root' = root, NEW l \in Nodes, NodeChange(l) PROVE GroupTypeOK'
  <1>1. UNCHANGED <<groupVars, pc, view>>
    BY DEF NodeChange, HealthChange, PenaltyChange, LatencyChange, FallAsleep, callVars
  <1>2. Groups' \in GroupStates' /\ ChoicesOK' /\ \A u \in Caller : ViewRead(u)'
    BY <1>1, SameGroups, SameViews
  <1>3. l \in Leaf
    BY DEF Nodes
  <1>4. since' \in [Caller -> Sinces]
    <2>1. CASE HealthChange(l)
      BY <2>1, WitnessTypes DEF HealthChange
    <2>2. CASE PenaltyChange(l)
      BY <2>2, WitnessTypes DEF PenaltyChange
    <2>3. CASE LatencyChange(l) \/ FallAsleep(l)
      <3>1. since' = since
        BY <2>3 DEF LatencyChange, FallAsleep, callVars
      <3> QED BY <3>1 DEF GroupTypeOK
    <2> QED BY <2>1, <2>2, <2>3 DEF NodeChange
  <1>5. dead' \subseteq Leaf /\ penalized' \subseteq Leaf /\ asleep' \subseteq Leaf
    BY <1>3 DEF GroupTypeOK, NodeChange, HealthChange, PenaltyChange, LatencyChange, FallAsleep
  <1>6. lat' \in [Leaf -> Ms]
    <2>1. CASE LatencyChange(l)
      <3>1. PICK ms \in Latency : lat' = [lat EXCEPT ![l] = ms]
        BY <2>1 DEF LatencyChange
      <3> QED BY <3>1 DEF GroupTypeOK, Ms
    <2>2. CASE ~LatencyChange(l)
      <3>1. lat' = lat
        BY <2>2 DEF NodeChange, HealthChange, PenaltyChange, FallAsleep
      <3> QED BY <3>1 DEF GroupTypeOK
    <2> QED BY <2>1, <2>2
  <1> QED BY <1>1, <1>2, <1>4, <1>5, <1>6 DEF GroupTypeOK

LEMMA InitTypes == OutboundInit => GroupTypeOK
  <1> SUFFICES ASSUME OutboundInit PROVE GroupTypeOK
    OBVIOUS
  <1>1. root \in Roots /\ root \in DOMAIN Kind /\ root \in Node
    BY TreeAssumption DEF OutboundInit, Node
  <1>2. Group \subseteq DOMAIN Kind
    BY <1>1, BelowFacts DEF Group, Configured
  <1>3. ChoicesOK
    BY <1>2, MembersFacts DEF OutboundInit, ChoicesOK
  <1>4. Groups \in GroupStates
    <2>1. current \in [Group -> Node \cup {NoNode}]
      BY <1>2, MembersFacts DEF OutboundInit
    <2>2. next \in [Group -> 0 .. Wrap - 1]
      <3>1. 0 \in 0 .. Wrap - 1
        BY TreeAssumption
      <3> QED BY <3>1 DEF OutboundInit
    <2> QED BY <2>1, <2>2 DEF Groups, GroupStates
  <1>5. lat \in [Leaf -> Ms]
    BY DEF OutboundInit, Ms
  <1>6. /\ pc = [c \in Caller |-> "idle"] /\ view = [c \in Caller |-> NoView]
        /\ since = [c \in Caller |-> NoSince]
    BY DEF OutboundInit
  <1>7. \A u \in Caller : ViewRead(u)
    <2>1. <<>> \in Seq(Members(root)) /\ Len(<<>>) = 0
      OBVIOUS
    <2> QED BY <2>1, <1>6, NoViewFacts DEF ViewRead
  <1>8. dead = {} /\ penalized = {} /\ asleep = {}
    BY DEF OutboundInit
  <1> QED BY <1>1, <1>3, <1>4, <1>5, <1>6, <1>7, <1>8, NoViewFacts, NoSinceType DEF GroupTypeOK

LEMMA StepTypes == GroupTypeOK /\ [OutboundNext]_outboundVars => GroupTypeOK'
  <1> SUFFICES ASSUME GroupTypeOK, [OutboundNext]_outboundVars PROVE GroupTypeOK'
    OBVIOUS
  <1>1. CASE OutboundNext
    <2>1. root' = root
      BY <1>1 DEF OutboundNext
    <2>2. ASSUME NEW c \in Caller, Call(c) PROVE GroupTypeOK'
      BY <2>1, <2>2, StartTypes, ReadHealthTypes, ReadPenaltyTypes, ReadLatencyTypes, ServeCallTypes
         DEF Call
    <2>3. ASSUME NEW l \in Nodes, NodeChange(l) PROVE GroupTypeOK'
      BY <2>1, <2>3, NodeChangeTypes
    <2>4. ASSUME NEW g \in Group, NEW n \in Leaf \cup Group, Select(g, n) PROVE GroupTypeOK'
      BY <2>1, <2>4, SelectTypes
    <2>5. CASE ListProxies
      BY <2>1, <2>5, ListTypes
    <2> QED BY <1>1, <2>2, <2>3, <2>4, <2>5 DEF OutboundNext
  <1>2. CASE UNCHANGED outboundVars
    <2>1. /\ root' = root /\ UNCHANGED groupVars
          /\ UNCHANGED <<pc, view, since, dead, penalized, lat, asleep>>
      BY <1>2 DEF outboundVars, nodeVars, groupVars, callVars
    <2>2. Groups' \in GroupStates' /\ ChoicesOK' /\ \A u \in Caller : ViewRead(u)'
      BY <2>1, SameGroups, SameViews
    <2> QED BY <2>1, <2>2 DEF GroupTypeOK
  <1> QED BY <1>1, <1>2

\* The groups choose among their members and the callers read only members, all through:
\* whatever is asked of the groups, resolve_leaf can answer from what they keep.
THEOREM GroupTypes == OutboundSpec => []GroupTypeOK
  BY InitTypes, StepTypes, PTL DEF OutboundSpec

-----------------------------------------------------------------------------
(* Who serves is awake.                                                    *)

\* No node is asleep that a call under way may come to, unless a selection has changed.
AwakeInv ==
  \A c \in Caller : pc[c] # "idle" /\ ~since[c].steered => asleep \cap Marked = {}

LEMMA SameMarks ==
  ASSUME root' = root, \A g \in Group : Kind[g] = "selector" => current'[g] = current[g]
  PROVE  Marked' = Marked
  <1>1. Group' = Group
    BY SameRoot
  <1>2. \A g \in Group : LeadsTo(g)' = LeadsTo(g)
    BY DEF LeadsTo
  <1>3. MarkedGroups' = MarkedGroups
    <2>1. MarkedGroups' = {g \in Group : \A S \in SUBSET Group :
             root \in S /\ (\A h \in S : LeadsTo(h)' \ Leaf \subseteq S) => g \in S}
      BY <1>1 DEF MarkedGroups
    <2>2. \A S \in SUBSET Group : (\A h \in S : LeadsTo(h)' \ Leaf \subseteq S)
                                  <=> (\A h \in S : LeadsTo(h) \ Leaf \subseteq S)
      BY <1>2
    <2> QED BY <2>1, <2>2 DEF MarkedGroups
  <1>4. MarkedGroups \subseteq Group
    BY DEF MarkedGroups
  <1>5. {LeadsTo(g)' : g \in MarkedGroups} = {LeadsTo(g) : g \in MarkedGroups}
    BY <1>2, <1>4
  <1> QED BY <1>3, <1>5 DEF Marked

\* What mark_active reaches is closed: a walk from root does not leave it.
LEMMA MarkedClosed ==
  ASSUME GroupTypeOK
  PROVE  /\ root \in MarkedGroups /\ MarkedGroups \cap Leaf = {}
         /\ Closed(MarkedGroups \cup Marked)
  <1>1. /\ root \in Group /\ Configured[root] \subseteq Node
        /\ \A g \in Group : Members(g) \subseteq Configured[root]
    BY GroupFacts
  <1>2. root \in MarkedGroups /\ MarkedGroups \subseteq Group
    BY <1>1 DEF MarkedGroups
  <1>3. \A g \in Group : LeadsTo(g) \subseteq Configured[root]
    <2>1. ChoicesOK
      BY DEF GroupTypeOK
    <2> QED BY <1>1, <2>1 DEF LeadsTo, ChoicesOK
  <1>4. ASSUME NEW g \in MarkedGroups, NEW m \in LeadsTo(g) PROVE m \in MarkedGroups \cup Marked
    <2>1. CASE m \in Leaf
      BY <2>1 DEF Marked
    <2>2. CASE m \notin Leaf
      <3>1. m \in Group
        BY <1>2, <1>3, <2>2 DEF Group
      <3>2. ASSUME NEW S \in SUBSET Group, root \in S, \A h \in S : LeadsTo(h) \ Leaf \subseteq S
            PROVE  m \in S
        <4>1. g \in S
          BY <3>2 DEF MarkedGroups
        <4> QED BY <4>1, <3>2, <2>2
      <3> QED BY <3>1, <3>2 DEF MarkedGroups
    <2> QED BY <2>1, <2>2
  <1>5. Marked \subseteq Configured[root] /\ Marked \subseteq Leaf
    <2>1. Marked \subseteq Leaf
      BY DEF Marked
    <2>2. ASSUME NEW m \in Marked PROVE m \in Configured[root]
      <3>1. PICK g \in MarkedGroups : m \in LeadsTo(g)
        BY DEF Marked
      <3> QED BY <3>1, <1>2, <1>3
    <2> QED BY <2>1, <2>2
  <1>6. MarkedGroups \subseteq Configured[root] /\ MarkedGroups \cap Leaf = {}
    BY <1>2 DEF Group
  <1>7. ASSUME NEW g \in (MarkedGroups \cup Marked) \ Leaf
        PROVE  /\ Kind[g] = "selector" => current[g] \in MarkedGroups \cup Marked
               /\ Kind[g] # "selector" => Members(g) \subseteq MarkedGroups \cup Marked
    <2>1. g \in MarkedGroups
      BY <1>5
    <2>2. LeadsTo(g) \subseteq MarkedGroups \cup Marked
      BY <2>1, <1>4
    <2> QED BY <2>2 DEF LeadsTo
  <1> QED BY <1>2, <1>5, <1>6, <1>7 DEF Closed

\* A call ends in the step that serves it.
LEMMA EndsServe ==
  ASSUME GroupTypeOK, OutboundNext, NEW c \in Caller, Ends(c) PROVE ServeCall(c)
  <1>1. pc[c] = "serve" /\ pc'[c] = "idle"
    BY DEF Ends
  <1>2. pc \in [Caller -> {"idle", "health", "penalty", "latency", "serve"}]
    BY DEF GroupTypeOK
  <1>3. ASSUME NEW u \in Caller, Call(u) PROVE ServeCall(c)
    <2>1. CASE u = c
      BY <1>1, <1>3, <2>1 DEF Call, Start, ReadHealth, ReadPenalty, ReadLatency
    <2>2. CASE u # c
      <3>1. pc'[c] = pc[c]
        BY <1>2, <1>3, <2>2 DEF Call, Start, ReadHealth, ReadPenalty, ReadLatency, ServeCall
      <3> QED BY <3>1, <1>1
    <2> QED BY <2>1, <2>2
  <1>4. ASSUME NEW l \in Nodes, NodeChange(l) PROVE pc' = pc
    BY <1>4 DEF NodeChange, HealthChange, PenaltyChange, LatencyChange, FallAsleep, callVars
  <1>5. ASSUME NEW g \in Group, NEW n \in Leaf \cup Group, Select(g, n) PROVE pc' = pc
    BY <1>5 DEF Select
  <1>6. ListProxies => pc' = pc
    BY DEF ListProxies, callVars
  <1> QED BY <1>1, <1>3, <1>4, <1>5, <1>6 DEF OutboundNext

\* The invariant holds as long as no call comes to be counted and no mark is lost.
LEMMA StaysAwake ==
  ASSUME AwakeInv, asleep' \subseteq asleep, Marked' = Marked,
         \A u \in Caller : pc'[u] # "idle" /\ ~since'[u].steered =>
              pc[u] # "idle" /\ ~since[u].steered
  PROVE  AwakeInv'
  BY DEF AwakeInv

LEMMA AwakeStep ==
  ASSUME GroupTypeOK, AwakeInv, [OutboundNext]_outboundVars PROVE AwakeInv'
  <1>1. CASE UNCHANGED outboundVars
    <2>1. UNCHANGED <<root, pc, since, asleep, current, next>>
      BY <1>1 DEF outboundVars, nodeVars, groupVars, callVars
    <2>2. Marked' = Marked
      BY <2>1, SameMarks
    <2> QED BY <2>1, <2>2, StaysAwake
  <1>2. CASE OutboundNext
    <2>1. root' = root
      BY <1>2 DEF OutboundNext
    <2>2. /\ pc \in [Caller -> {"idle", "health", "penalty", "latency", "serve"}]
          /\ since \in [Caller -> Sinces]
      BY DEF GroupTypeOK
    <2>3. ASSUME NEW c \in Caller, Call(c) PROVE AwakeInv'
      <3>1. CASE Start(c)
        <4>1. asleep' = asleep \ Marked /\ UNCHANGED groupVars
          BY <3>1 DEF Start
        <4>2. Marked' = Marked
          BY <4>1, <2>1, SameGroups
        <4> QED BY <4>1, <4>2 DEF AwakeInv
      <3>2. CASE ReadHealth(c) \/ ReadPenalty(c)
        <4>1. UNCHANGED groupVars /\ UNCHANGED <<asleep, since>>
          BY <3>2 DEF ReadHealth, ReadPenalty, nodeVars
        <4>2. Marked' = Marked
          BY <4>1, <2>1, SameGroups
        <4>3. pc[c] # "idle" /\ \A u \in Caller \ {c} : pc'[u] = pc[u]
          BY <2>2, <3>2 DEF ReadHealth, ReadPenalty
        <4> QED BY <4>1, <4>2, <4>3, StaysAwake
      <3>3. CASE ReadLatency(c)
        <4>1. UNCHANGED <<asleep, since>> /\ Leave(Asked(c).st)
          BY <3>3 DEF ReadLatency, Asked, nodeVars
        <4>2. Marked' = Marked
          BY <4>1, <2>1, AskedFacts, LeaveFacts, SameMarks
        <4>3. pc[c] # "idle" /\ \A u \in Caller \ {c} : pc'[u] = pc[u]
          BY <2>2, <3>3 DEF ReadLatency
        <4> QED BY <4>1, <4>2, <4>3, StaysAwake
      <3>4. CASE ServeCall(c)
        <4> DEFINE r == Serve(ResolveLeaf, root, view[c], Groups)
        <4>1. asleep' = asleep /\ Leave(r.st) /\ pc[c] = "serve"
          BY <3>4 DEF ServeCall, nodeVars
        <4>2. r.st \in Keeping
          BY <4>1, AllClosed, GroupFacts, ServedFacts
        <4> HIDE DEF r
        <4>3. Marked' = Marked
          BY <4>1, <4>2, <2>1, LeaveFacts, SameMarks
        <4>4. pc'[c] = "idle" /\ \A u \in Caller \ {c} : pc'[u] = pc[u] /\ since'[u] = since[u]
          BY <2>2, <3>4 DEF ServeCall
        <4> QED BY <4>1, <4>3, <4>4, StaysAwake
      <3> QED BY <2>3, <3>1, <3>2, <3>3, <3>4 DEF Call
    <2>4. ASSUME NEW l \in Nodes, NodeChange(l) PROVE AwakeInv'
      <3>1. UNCHANGED groupVars /\ UNCHANGED pc
        BY <2>4 DEF NodeChange, HealthChange, PenaltyChange, LatencyChange, FallAsleep, callVars
      <3>2. Marked' = Marked
        BY <3>1, <2>1, SameGroups
      <3>3. CASE FallAsleep(l)
        <4>1. \A c \in Caller : pc'[c] = "idle"
          BY <3>1, <3>3 DEF FallAsleep
        <4> QED BY <4>1 DEF AwakeInv
      <3>4. CASE LatencyChange(l)
        <4>1. since' = since /\ asleep' = asleep
          BY <3>4 DEF LatencyChange, callVars
        <4> QED BY <4>1, <3>1, <3>2, StaysAwake
      <3>5. CASE HealthChange(l) \/ PenaltyChange(l)
        <4>1. asleep' = asleep
          BY <3>5 DEF HealthChange, PenaltyChange
        <4>2. PICK d, p : Witness(d, p)
          BY <3>5 DEF HealthChange, PenaltyChange
        <4>3. \A u \in Caller : since'[u].steered = since[u].steered
          BY <2>2, <4>2 DEF Witness, Sinces
        <4> QED BY <4>1, <4>3, <3>1, <3>2, StaysAwake
      <3> QED BY <2>4, <3>3, <3>4, <3>5 DEF NodeChange
    <2>5. ASSUME NEW g \in Group, NEW n \in Leaf \cup Group, Select(g, n) PROVE AwakeInv'
      <3>1. pc' = pc /\ \A u \in Caller : since'[u].steered = (pc[u] # "idle")
        BY <2>2, <2>5 DEF Select, Sinces
      <3> QED BY <3>1 DEF AwakeInv
    <2>6. CASE ListProxies
      <3>0. PICK g \in Group : \E n \in Members(g) : Leave(LatencyMs(ResolveLeaf, n, Groups).st)
        BY <2>6 DEF ListProxies
      <3>1. PICK n \in Members(g) : Leave(LatencyMs(ResolveLeaf, n, Groups).st)
        BY <3>0
      <3>2. Marked' = Marked
        BY <3>1, <2>1, ListFacts, LeaveFacts, SameMarks
      <3>3. UNCHANGED <<pc, since, asleep>>
        BY <2>6 DEF ListProxies, nodeVars, callVars
      <3> QED BY <3>2, <3>3, StaysAwake
    <2> QED BY <1>2, <2>3, <2>4, <2>5, <2>6 DEF OutboundNext
  <1> QED BY <1>1, <1>2

\* The node that serves a call has been woken by it, unless a selection changed meanwhile.
LEMMA ServedAwakeStep ==
  ASSUME GroupTypeOK, AwakeInv, OutboundNext, NEW c \in Caller, Ends(c), ~since[c].steered
  PROVE  served' \notin asleep
  <1> DEFINE r == Serve(ResolveLeaf, root, view[c], Groups)
  <1>1. ServeCall(c)
    BY EndsServe
  <1>2. served' = r.leaf /\ pc[c] = "serve"
    BY <1>1 DEF ServeCall
  <1>3. r.leaf \in MarkedGroups \cup Marked
    BY <1>2, MarkedClosed, ServedFacts
  <1>4. asleep \cap Marked = {} /\ asleep \subseteq Leaf /\ MarkedGroups \cap Leaf = {}
    BY <1>2, MarkedClosed DEF AwakeInv, GroupTypeOK
  <1> HIDE DEF r
  <1> QED BY <1>2, <1>3, <1>4

\* Whatever group is called, and however groups nest, share members or choose: no connection
\* is given a node whose probes are asleep, unless the user selected meanwhile.
THEOREM CallsAwake == OutboundSpec => ServedAwake
  <1>1. OutboundInit => AwakeInv
    BY DEF OutboundInit, AwakeInv
  <1>2. GroupTypeOK /\ AwakeInv /\ [OutboundNext]_outboundVars => AwakeInv'
    BY AwakeStep
  <1>3. GroupTypeOK /\ AwakeInv /\ [OutboundNext]_outboundVars =>
          [\A c \in Caller : Ends(c) /\ ~since[c].steered => served' \notin asleep]_outboundVars
    BY ServedAwakeStep
  <1> QED BY <1>1, <1>2, <1>3, GroupTypes, PTL DEF OutboundSpec, ServedAwake

-----------------------------------------------------------------------------
(* Who serves is usable.                                                   *)

\* What a call of a urltest has read, and how the nodes have been since it began.
SinceOK(c) ==
  LET s == since[c]
      v == view[c]
  IN  /\ s.steady \subseteq Nodes /\ s.steady \cap dead = {} /\ s.steady \cap penalized = {}
      /\ Nodes \ dead \subseteq s.alive /\ Nodes \ penalized \subseteq s.clear
      /\ pc[c] \in {"penalty", "latency", "serve"} =>
           /\ \A m \in s.steady : \E k \in 1 .. Len(v.healthy) : v.healthy[k] = m
           /\ \A k \in 1 .. Len(v.healthy) : v.healthy[k] \in s.alive
      /\ pc[c] \in {"latency", "serve"} =>
           /\ s.steady # {} => ~v.allow
           /\ ~v.allow => \A k \in 1 .. Len(v.candidates) : v.candidates[k] \in s.alive \cap s.clear

SinceInv == Compares(root) => \A c \in Caller : pc[c] # "idle" => SinceOK(c)

\* Only the calls of such groups are watched.
OnlyCompared == ~Compares(root) => \A c \in Caller : since[c].steady = {}

LEMMA HealthyLeaf ==
  ASSUME NEW l \in Leaf PROVE IsHealthy(l) <=> l \notin dead
  BY BelowLeaf DEF IsHealthy

\* The nodes of a group of nodes are its members.
LEMMA FlatNodes ==
  ASSUME GroupTypeOK, Flat(root) PROVE Nodes = Members(root) /\ Members(root) \subseteq Leaf
  <1>1. root \in DOMAIN Kind /\ root \notin Leaf
    BY TreeAssumption DEF GroupTypeOK
  <1>2. Configured[root] = {root} \cup Members(root)
    BY <1>1, BelowFlat
  <1> QED BY <1>1, <1>2 DEF Nodes, Flat

\* What a call knows stays true while the nodes stay as they are.
LEMMA SinceSame ==
  ASSUME NEW c \in Caller, SinceOK(c), root' = root, dead' = dead, penalized' = penalized,
         pc'[c] = pc[c], view'[c] = view[c],
         since'[c].alive = since[c].alive, since'[c].clear = since[c].clear,
         since'[c].steady = since[c].steady
  PROVE  SinceOK(c)'
  <1>1. Nodes' = Nodes
    BY SameRoot
  <1> QED BY <1>1 DEF SinceOK

\* And becomes true of the nodes as they become.
LEMMA SinceWitness ==
  ASSUME GroupTypeOK, Compares(root), NEW c \in Caller, pc[c] # "idle", SinceOK(c), root' = root,
         pc' = pc, view' = view, Witness(dead', penalized')
  PROVE  SinceOK(c)'
  <1>1. since[c] \in Sinces
    BY DEF GroupTypeOK
  <1>2. /\ since'[c].alive = since[c].alive \cup (Nodes \ dead')
        /\ since'[c].clear = since[c].clear \cup (Nodes \ penalized')
        /\ since'[c].steady = (since[c].steady \ dead') \ penalized'
    BY <1>1 DEF Witness, Sinces
  <1>3. Nodes' = Nodes
    BY SameRoot
  <1> QED BY <1>2, <1>3 DEF SinceOK

LEMMA SinceCall ==
  ASSUME GroupTypeOK, Compares(root), SinceInv, root' = root, NEW c \in Caller, Call(c),
         NEW u \in Caller, pc'[u] # "idle"
  PROVE  SinceOK(u)'
  <1>1. /\ pc \in [Caller -> {"idle", "health", "penalty", "latency", "serve"}]
        /\ view \in [Caller -> Views] /\ since \in [Caller -> Sinces]
        /\ ViewRead(c) /\ view[c] \in Views
    BY DEF GroupTypeOK
  <1>2. /\ Nodes = Members(root) /\ Members(root) \subseteq Leaf /\ Kind[root] = "urltest"
        /\ root \in DOMAIN Kind /\ Nodes' = Nodes
    BY FlatNodes, GroupFacts, SameRoot DEF Compares
  <1>3. CASE u # c
    <2>1. pc'[u] = pc[u] /\ view'[u] = view[u] /\ since'[u] = since[u]
      BY <1>1, <1>3 DEF Call, Start, ReadHealth, ReadPenalty, ReadLatency, ServeCall
    <2>2. dead' = dead /\ penalized' = penalized
      BY DEF Call, Start, ReadHealth, ReadPenalty, ReadLatency, ServeCall, nodeVars
    <2>3. SinceOK(u)
      BY <2>1 DEF SinceInv
    <2> QED BY <2>1, <2>2, <2>3, SinceSame
  <1>4. CASE u = c
    <2>1. CASE Start(c)
      <3>1. /\ pc'[c] = "health" /\ dead' = dead /\ penalized' = penalized
            /\ since'[c] = [alive |-> Nodes \ dead, clear |-> Nodes \ penalized,
                            steady |-> (Nodes \ dead) \ penalized, steered |-> FALSE]
        BY <1>1, <1>2, <2>1 DEF Start
      <3>2. /\ since'[c].alive = Nodes \ dead /\ since'[c].clear = Nodes \ penalized
            /\ since'[c].steady = (Nodes \ dead) \ penalized
        BY <3>1
      <3> QED BY <3>1, <3>2, <1>2, <1>4 DEF SinceOK
    <2>2. CASE ReadHealth(c)
      <3> DEFINE H == HealthyMembers(root)
      <3>1. /\ pc[c] = "health" /\ since' = since /\ dead' = dead /\ penalized' = penalized
            /\ view'[c] = [view[c] EXCEPT !.healthy = H] /\ pc'[c] \in {"penalty", "serve"}
        BY <1>1, <2>2 DEF ReadHealth, nodeVars
      <3>2. H \in Seq(Members(root))
        BY <1>2, HealthyFacts
      <3>3. \A k \in 1 .. Len(H) : IsHealthy(H[k])
        BY <1>2, HealthyFacts
      <3>4. \A m \in Members(root) : IsHealthy(m) => \E k \in 1 .. Len(H) : H[k] = m
        BY <1>2, HealthyFacts
      <3> HIDE DEF H
      <3>5. /\ view'[c].healthy = H /\ view'[c].candidates = <<>> /\ view'[c].allow = FALSE
        <4>1. view[c] = NoView
          BY <1>1, <3>1 DEF ViewRead
        <4> QED BY <3>1, <4>1 DEF NoView
      <3>6. SinceOK(c)
        BY <3>1 DEF SinceInv
      <3>7. \A k \in 1 .. Len(H) : H[k] \in since[c].alive
        <4> TAKE k \in 1 .. Len(H)
        <4>1. H[k] \in Nodes /\ H[k] \in Leaf
          BY <3>2, <1>2
        <4>2. H[k] \notin dead
          BY <4>1, <3>3, HealthyLeaf
        <4> QED BY <4>1, <4>2, <3>6 DEF SinceOK
      <3>8. \A m \in since[c].steady : \E k \in 1 .. Len(H) : H[k] = m
        <4> TAKE m \in since[c].steady
        <4>1. m \in Members(root) /\ m \in Leaf /\ m \notin dead
          BY <3>6, <1>2 DEF SinceOK
        <4> QED BY <4>1, <3>4, HealthyLeaf
      <3>9. \A k \in 1 .. Len(<<>>) : FALSE
        OBVIOUS
      <3>10. SinceOK(c)'
        BY <3>1, <3>5, <3>6, <3>7, <3>8, <3>9, <1>2 DEF SinceOK
      <3> QED BY <3>10, <1>4
    <2>3. CASE ReadPenalty(c)
      <3> DEFINE w == WithPenalties(view[c])
      <3>1. /\ pc[c] = "penalty" /\ since' = since /\ dead' = dead /\ penalized' = penalized
            /\ view'[c] = w /\ pc'[c] = "latency"
        BY <1>1, <2>3 DEF ReadPenalty, nodeVars
      <3>2. view[c].healthy \in Seq(Members(root)) /\ SinceOK(c)
        BY <1>1, <3>1 DEF ViewRead, SinceInv
      <3>3. /\ w.healthy = view[c].healthy /\ w.candidates \in Seq(Members(root))
            /\ ~w.allow => \A k \in 1 .. Len(w.candidates) :
                 /\ ~IsPenalized(w.candidates[k])
                 /\ \E j \in 1 .. Len(view[c].healthy) : view[c].healthy[j] = w.candidates[k]
            /\ w.allow => \A j \in 1 .. Len(view[c].healthy) : IsPenalized(view[c].healthy[j])
        <4>1. /\ root \in DOMAIN Kind /\ view[c] \in Views
              /\ view[c].healthy \in Seq(Members(root))
          BY <1>1, <1>2, <3>2
        <4> QED BY <4>1, PenaltyFacts
      <3> HIDE DEF w
      <3>4. /\ \A m \in since[c].steady :
               \E k \in 1 .. Len(view[c].healthy) : view[c].healthy[k] = m
            /\ \A k \in 1 .. Len(view[c].healthy) : view[c].healthy[k] \in since[c].alive
            /\ since[c].steady \cap penalized = {} /\ Nodes \ penalized \subseteq since[c].clear
        BY <3>1, <3>2 DEF SinceOK
      <3>5. since[c].steady # {} => ~w.allow
        BY <3>3, <3>4 DEF IsPenalized
      <3>6. ~w.allow => \A k \in 1 .. Len(w.candidates) :
                  w.candidates[k] \in since[c].alive \cap since[c].clear
        <4> SUFFICES ASSUME ~w.allow, NEW k \in 1 .. Len(w.candidates)
                     PROVE  w.candidates[k] \in since[c].alive \cap since[c].clear
          OBVIOUS
        <4>1. w.candidates[k] \in Nodes
          BY <3>3, <1>2
        <4> QED BY <4>1, <3>3, <3>4 DEF IsPenalized
      <3>7. SinceOK(c)'
        BY <3>1, <3>2, <3>3, <3>4, <3>5, <3>6, <1>2 DEF SinceOK
      <3> QED BY <3>7, <1>4
    <2>4. CASE ReadLatency(c)
      <3>1. /\ pc[c] = "latency" /\ since' = since /\ dead' = dead /\ penalized' = penalized
            /\ view'[c] = [view[c] EXCEPT !.ms = Asked(c).ms] /\ pc'[c] = "serve"
        BY <1>1, <2>4 DEF ReadLatency, Asked, nodeVars
      <3>2. /\ view'[c].healthy = view[c].healthy /\ view'[c].candidates = view[c].candidates
            /\ view'[c].allow = view[c].allow
        BY <3>1, <1>1 DEF Views
      <3>3. SinceOK(c)
        BY <3>1 DEF SinceInv
      <3>4. SinceOK(c)'
        BY <3>1, <3>2, <3>3, <1>2 DEF SinceOK
      <3> QED BY <3>4, <1>4
    <2>5. CASE ServeCall(c)
      <3>1. pc'[c] = "idle"
        BY <1>1, <2>5 DEF ServeCall
      <3> QED BY <3>1, <1>4
    <2> QED BY <1>4, <2>1, <2>2, <2>3, <2>4, <2>5 DEF Call
  <1> QED BY <1>3, <1>4

LEMMA OnlyComparedStep ==
  ASSUME GroupTypeOK, OnlyCompared, [OutboundNext]_outboundVars PROVE OnlyCompared'
  <1>0. root' = root
    BY DEF OutboundNext, outboundVars
  <1>1. Compares(root)' = Compares(root)
    BY <1>0 DEF Compares, Flat
  <1> SUFFICES ASSUME ~Compares(root), NEW u \in Caller PROVE since'[u].steady = {}
    BY <1>1 DEF OnlyCompared
  <1>2. since[u].steady = {} /\ since \in [Caller -> Sinces] /\ NoSince.steady = {}
    BY DEF OnlyCompared, GroupTypeOK, NoSince
  <1>3. CASE UNCHANGED outboundVars
    BY <1>2, <1>3 DEF outboundVars, callVars
  <1>4. CASE OutboundNext
    <2>1. ASSUME NEW c \in Caller, Call(c) PROVE since'[u].steady = {}
      <3>1. CASE Start(c)
        <4>1. since' = [since EXCEPT ![c] = NoSince]
          BY <3>1 DEF Start
        <4> QED BY <4>1, <1>2
      <3>2. CASE ServeCall(c)
        <4>1. since' = [since EXCEPT ![c] = NoSince]
          BY <3>2 DEF ServeCall
        <4> QED BY <4>1, <1>2
      <3>3. CASE ReadHealth(c) \/ ReadPenalty(c) \/ ReadLatency(c)
        <4>1. since' = since
          BY <3>3 DEF ReadHealth, ReadPenalty, ReadLatency
        <4> QED BY <4>1, <1>2
      <3> QED BY <2>1, <3>1, <3>2, <3>3 DEF Call
    <2>2. ASSUME NEW l \in Nodes, NodeChange(l) PROVE since'[u].steady = {}
      <3>1. since'[u] = since[u]
        BY <2>2 DEF NodeChange, HealthChange, PenaltyChange, LatencyChange, FallAsleep, callVars,
             Witness
      <3> QED BY <3>1, <1>2
    <2>3. ASSUME NEW g \in Group, NEW n \in Leaf \cup Group, Select(g, n)
                PROVE since'[u].steady = {}
      BY <2>3, <1>2 DEF Select, Sinces
    <2>4. CASE ListProxies
      BY <2>4, <1>2 DEF ListProxies, callVars
    <2> QED BY <1>4, <2>1, <2>2, <2>3, <2>4 DEF OutboundNext
  <1> QED BY <1>3, <1>4

LEMMA SinceStep ==
  ASSUME GroupTypeOK, SinceInv, [OutboundNext]_outboundVars PROVE SinceInv'
  <1>0. root' = root
    BY DEF OutboundNext, outboundVars
  <1>1. Compares(root)' = Compares(root)
    BY <1>0 DEF Compares, Flat
  <1> SUFFICES ASSUME Compares(root), NEW u \in Caller, pc'[u] # "idle" PROVE SinceOK(u)'
    BY <1>1 DEF SinceInv
  <1>2. pc'[u] = pc[u] => SinceOK(u)
    BY DEF SinceInv
  <1>3. CASE UNCHANGED outboundVars
    <2>1. UNCHANGED <<pc, view, since, dead, penalized>>
      BY <1>3 DEF outboundVars, nodeVars, callVars
    <2> QED BY <2>1, <1>0, <1>2, SinceSame
  <1>4. CASE OutboundNext
    <2>1. ASSUME NEW c \in Caller, Call(c) PROVE SinceOK(u)'
      BY <2>1, <1>0, SinceCall
    <2>2. ASSUME NEW l \in Nodes, NodeChange(l) PROVE SinceOK(u)'
      <3>1. pc' = pc /\ view' = view
        BY <2>2 DEF NodeChange, HealthChange, PenaltyChange, LatencyChange, FallAsleep, callVars
      <3>2. CASE HealthChange(l) \/ PenaltyChange(l)
        <4>1. Witness(dead', penalized')
          BY <3>2 DEF HealthChange, PenaltyChange, Witness
        <4> QED BY <4>1, <3>1, <1>0, <1>2, SinceWitness
      <3>3. CASE LatencyChange(l) \/ FallAsleep(l)
        <4>1. UNCHANGED <<since, dead, penalized>>
          BY <3>3 DEF LatencyChange, FallAsleep, callVars
        <4> QED BY <4>1, <3>1, <1>0, <1>2, SinceSame
      <3> QED BY <2>2, <3>2, <3>3 DEF NodeChange
    <2>3. ASSUME NEW g \in Group, NEW n \in Leaf \cup Group, Select(g, n) PROVE SinceOK(u)'
      <3>1. UNCHANGED <<pc, view, dead, penalized>>
        BY <2>3 DEF Select, nodeVars
      <3>2. since[u] \in Sinces
        BY DEF GroupTypeOK
      <3>3. /\ since'[u].alive = since[u].alive /\ since'[u].clear = since[u].clear
            /\ since'[u].steady = since[u].steady
        BY <2>3, <3>2 DEF Select, Sinces
      <3> QED BY <3>1, <3>3, <1>0, <1>2, SinceSame
    <2>4. CASE ListProxies
      <3>1. UNCHANGED <<pc, view, since, dead, penalized>>
        BY <2>4 DEF ListProxies, nodeVars, callVars
      <3> QED BY <3>1, <1>0, <1>2, SinceSame
    <2> QED BY <1>4, <2>1, <2>2, <2>3, <2>4 DEF OutboundNext
  <1> QED BY <1>3, <1>4

\* A call of a urltest of nodes ends with one that was fit for it.
LEMMA UsableStep ==
  ASSUME GroupTypeOK, SinceInv, OnlyCompared, OutboundNext, NEW c \in Caller, Ends(c),
         since[c].steady # {}
  PROVE  served' \in since[c].alive \cap since[c].clear
  <1>0. Compares(root)
    BY DEF OnlyCompared
  <1> DEFINE v == view[c]
  <1>1. /\ served' = Serve(ResolveLeaf, root, v, Groups).leaf /\ pc[c] = "serve"
    BY EndsServe DEF ServeCall
  <1>2. /\ Nodes = Members(root) /\ Members(root) \subseteq Leaf /\ Kind[root] = "urltest"
        /\ root \in Group /\ Members(root) \subseteq Configured[root] /\ Groups \in Keeping
    BY <1>0, FlatNodes, GroupFacts DEF Compares
  <1>3. SinceOK(c) /\ Readable(root, v)
    BY <1>0, <1>1, ReadableRoot DEF SinceInv
  <1>4. v.healthy # <<>>
    <2>1. PICK m \in since[c].steady : TRUE
      OBVIOUS
    <2>2. \E k \in 1 .. Len(v.healthy) : v.healthy[k] = m
      BY <1>1, <1>3 DEF SinceOK
    <2> QED BY <2>2
  <1>5. /\ v.candidates \in Seq(Members(root)) /\ v.candidates # <<>>
        /\ v.ms \in Seq(Ms) /\ Len(v.ms) = Len(v.candidates)
    BY <1>2, <1>3, <1>4 DEF Readable
  <1>6. /\ ~v.allow /\ \A k \in 1 .. Len(v.candidates) :
             v.candidates[k] \in since[c].alive \cap since[c].clear
        /\ Nodes \ dead \subseteq since[c].alive /\ Nodes \ penalized \subseteq since[c].clear
    BY <1>1, <1>3 DEF SinceOK
  <1> HIDE DEF v
  <1>7. Serve(ResolveLeaf, root, v, Groups) = Urltest(ResolveLeaf, root, v, Groups)
    BY <1>2, <1>4 DEF Serve
  <1>8. Continues(ResolveLeaf, root, v, Groups)
    <2>1. Sound(ResolveLeaf, Configured[root], Keeping)
      BY AllClosed, ResolveLeafSound
    <2> QED BY <2>1, <1>2, <1>5, UrltestFacts
  <1>9. PICK chosen \in Members(root) : \E after \in Keeping :
          /\ Urltest(ResolveLeaf, root, v, Groups) = ResolveLeaf[<<chosen, after>>]
          /\ \/ Keeps(chosen, v.allow)
             \/ \E i \in 1 .. Len(v.candidates) : chosen = v.candidates[i]
    BY <1>8 DEF Continues
  <1>10. PICK after \in Keeping :
          /\ Urltest(ResolveLeaf, root, v, Groups) = ResolveLeaf[<<chosen, after>>]
          /\ \/ Keeps(chosen, v.allow)
             \/ \E i \in 1 .. Len(v.candidates) : chosen = v.candidates[i]
    BY <1>9
  <1>11. chosen \in Leaf /\ chosen \in Nodes /\ after \in GroupStates
    BY <1>2 DEF Keeping
  <1>12. served' = chosen
    <2>1. ResolveLeaf[<<chosen, after>>] = [leaf |-> chosen, st |-> after]
      BY <1>11, ResolveLeafLeaf
    <2>2. Serve(ResolveLeaf, root, v, Groups) = [leaf |-> chosen, st |-> after]
      BY <2>1, <1>7, <1>10
    <2>3. Serve(ResolveLeaf, root, v, Groups).leaf = chosen
      BY <2>2
    <2> QED BY <2>3, <1>1 DEF v
  <1>13. CASE Keeps(chosen, v.allow)
    <2>1. chosen \notin dead /\ chosen \notin penalized
      BY <1>6, <1>11, <1>13, HealthyLeaf DEF Keeps, IsPenalized
    <2> QED BY <2>1, <1>6, <1>11, <1>12
  <1>14. CASE \E i \in 1 .. Len(v.candidates) : chosen = v.candidates[i]
    BY <1>14, <1>6, <1>12
  <1> QED BY <1>10, <1>13, <1>14

\* While some member of a urltest of nodes is healthy and without a penalty all through a call,
\* the call gets a node that was healthy and one that had no penalty during it.
THEOREM CallsUsable == OutboundSpec => UsableNode
  <1>1. OutboundInit => SinceInv /\ OnlyCompared
    BY DEF OutboundInit, SinceInv, OnlyCompared, NoSince
  <1>2. GroupTypeOK /\ SinceInv /\ OnlyCompared /\ [OutboundNext]_outboundVars
          => SinceInv' /\ OnlyCompared'
    BY SinceStep, OnlyComparedStep
  <1>3. GroupTypeOK /\ SinceInv /\ OnlyCompared /\ [OutboundNext]_outboundVars =>
          [\A c \in Caller : Ends(c) /\ since[c].steady # {} =>
             served' \in since[c].alive \cap since[c].clear]_outboundVars
    BY UsableStep
  <1> QED BY <1>1, <1>2, <1>3, GroupTypes, PTL DEF OutboundSpec, UsableNode

\* A call of any group, whatever comes between its reads, is served by a node that is fit for it
\* and awake.
THEOREM CallsServed == OutboundSpec => CallServed
  BY CallsUsable, CallsAwake DEF CallServed

-----------------------------------------------------------------------------
(* Turns.                                                                  *)

LEMMA NextTurn ==
  ASSUME NEW a \in Nat, NEW b \in Nat, NEW n \in Nat \ {0}, a % n = b % n
  PROVE  (a + 1) % n = (b + 1) % n
  <1> DEFINE q == a \div n
             r == a % n
             p == b \div n
  <1>1. /\ q \in Nat /\ p \in Nat /\ r \in 0 .. n - 1 /\ a = n * q + r /\ b = n * p + r
    OBVIOUS
  <1> HIDE DEF q, r, p
  <1>2. CASE r + 1 < n
    <2>1. (a + 1) % n = r + 1
      <3>1. a + 1 = n * q + (r + 1)
        BY <1>1
      <3> QED BY <3>1, <1>1, <1>2
    <2>2. (b + 1) % n = r + 1
      <3>1. b + 1 = n * p + (r + 1)
        BY <1>1
      <3> QED BY <3>1, <1>1, <1>2
    <2> QED BY <2>1, <2>2
  <1>3. CASE r + 1 = n
    <2>1. (a + 1) % n = 0
      <3>1. a + 1 = n * (q + 1) + 0
        BY <1>1, <1>3
      <3> QED BY <3>1, <1>1
    <2>2. (b + 1) % n = 0
      <3>1. b + 1 = n * (p + 1) + 0
        BY <1>1, <1>3
      <3> QED BY <3>1, <1>1
    <2> QED BY <2>1, <2>2
  <1> QED BY <1>1, <1>2, <1>3

\* Turns that come out the same are a round apart.
LEMMA SameTurn ==
  ASSUME NEW a \in Nat, NEW b \in Nat, NEW n \in Nat \ {0}, a % n = b % n, a < b
  PROVE  b - a >= n
  <1> DEFINE q == a \div n
             r == a % n
             p == b \div n
  <1>1. /\ q \in Nat /\ p \in Nat /\ r \in 0 .. n - 1 /\ a = n * q + r /\ b = n * p + r
    OBVIOUS
  <1> HIDE DEF q, r, p
  <1>2. b - a = n * (p - q)
    BY <1>1
  <1>3. p - q >= 1
    BY <1>1, <1>2
  <1>4. n * (p - q) >= n * 1
    BY <1>1, <1>3
  <1> QED BY <1>2, <1>4

\* A cursor that starts again at a multiple of n keeps its turns.
LEMMA WrappedTurn ==
  ASSUME NEW x \in Nat, NEW w \in Nat \ {0}, NEW n \in Nat \ {0}, w % n = 0
  PROVE  (x % w) % n = x % n
  <1> DEFINE q == x \div w
             y == x % w
             k == w \div n
             p == y \div n
             r == y % n
  <1>1. q \in Nat /\ y \in Nat /\ x = w * q + y
    OBVIOUS
  <1>2. k \in Nat /\ w = n * k
    OBVIOUS
  <1> HIDE DEF q, y, k
  <1>3. p \in Nat /\ r \in 0 .. n - 1 /\ y = n * p + r
    BY <1>1
  <1> HIDE DEF p, r
  <1>4. x = n * (k * q + p) + r
    <2>1. (n * k) * q = n * (k * q)
      BY <1>1, <1>2
    <2>2. x = n * (k * q) + (n * p + r)
      BY <1>1, <1>2, <1>3, <2>1
    <2>3. k * q \in Nat
      BY <1>1, <1>2
    <2> QED BY <2>2, <2>3, <1>1, <1>3
  <1>5. x % n = r
    <2>1. k * q \in Nat
      BY <1>1, <1>2
    <2>2. k * q + p \in Nat
      BY <2>1, <1>3
    <2>3. PICK m \in Nat : x = n * m + r
      BY <2>2, <1>4
    <2> QED BY <2>3, <1>3
  <1> QED BY <1>5 DEF r, y

-----------------------------------------------------------------------------
(* Who serves in a row.                                                    *)

\* The nodes of s are those that n turns from t on lead to among H.
InTurn(s, t, H) == \A i \in 1 .. Len(s) : s[i] = H[1 + ((t + i - 1) % Len(H))]

\* The last nodes served are, in order, those that the turns before next lead to.
SpreadInv ==
  LET H == HealthyMembers(root)
  IN  /\ got \in Seq(Node) /\ (~Spreads(root) => got = <<>>)
      /\ Spreads(root) /\ Len(H) > 0 =>
           \E t \in Nat : (t + Len(got)) % Len(H) = next[root] % Len(H) /\ InTurn(got, t, H)

LEMMA SameHealthy ==
  ASSUME root' = root, dead' = dead PROVE HealthyMembers(root)' = HealthyMembers(root)
  BY DEF HealthyMembers, IsHealthy

\* None served in a row: the turns begin at next.
LEMMA SpreadFresh ==
  ASSUME GroupTypeOK', got' = <<>> PROVE SpreadInv'
  <1>1. next'[root'] \in Nat
    <2>1. root' \in Group'
      <3>1. GroupTypeOK' => (root \in Group)'
        BY GroupFacts, PTL
      <3> QED BY <3>1
    <2>2. next' \in [Group' -> 0 .. Wrap - 1]
      BY DEF GroupTypeOK, Groups, GroupStates
    <2> QED BY <2>1, <2>2, TreeAssumption
  <1>2. <<>> \in Seq(Node) /\ Len(<<>>) = 0 /\ \A i \in 1 .. 0 : FALSE
    OBVIOUS
  <1>3. next'[root'] + Len(<<>>) = next'[root']
    BY <1>1, <1>2
  <1>4. InTurn(<<>>, next'[root'], HealthyMembers(root)')
    BY <1>2 DEF InTurn
  <1> QED BY <1>1, <1>2, <1>3, <1>4 DEF SpreadInv

LEMMA SpreadSame ==
  ASSUME SpreadInv, root' = root, dead' = dead, got' = got,
         Spreads(root) => next'[root] = next[root]
  PROVE  SpreadInv'
  <1>1. HealthyMembers(root)' = HealthyMembers(root)
    BY SameHealthy
  <1>2. Spreads(root)' = Spreads(root)
    BY DEF Spreads, Flat
  <1> QED BY <1>1, <1>2 DEF SpreadInv

\* A turn more.
LEMMA InTurnMore ==
  ASSUME NEW H \in Seq(Node), Len(H) > 0, NEW s \in Seq(Node), NEW t \in Nat, NEW k \in Nat,
         (t + Len(s)) % Len(H) = k % Len(H), InTurn(s, t, H),
         NEW m \in Node, m = H[1 + (k % Len(H))]
  PROVE  /\ Append(s, m) \in Seq(Node) /\ InTurn(Append(s, m), t, H)
         /\ (t + Len(Append(s, m))) % Len(H) = (k + 1) % Len(H)
  <1>1. /\ Append(s, m) \in Seq(Node) /\ Len(Append(s, m)) = Len(s) + 1 /\ Len(s) \in Nat
        /\ Append(s, m)[Len(s) + 1] = m /\ \A i \in 1 .. Len(s) : Append(s, m)[i] = s[i]
    OBVIOUS
  <1>2. InTurn(Append(s, m), t, H)
    <2> SUFFICES ASSUME NEW i \in 1 .. Len(s) + 1
                 PROVE  Append(s, m)[i] = H[1 + ((t + i - 1) % Len(H))]
      BY <1>1 DEF InTurn
    <2>1. CASE i \in 1 .. Len(s)
      BY <2>1, <1>1 DEF InTurn
    <2>2. CASE i = Len(s) + 1
      <3>1. t + i - 1 = t + Len(s)
        BY <2>2, <1>1
      <3> QED BY <3>1, <2>2, <1>1
    <2> QED BY <2>1, <2>2, <1>1
  <1>3. ((t + Len(s)) + 1) % Len(H) = (k + 1) % Len(H)
    <2>1. t + Len(s) \in Nat /\ Len(H) \in Nat \ {0}
      BY <1>1
    <2> QED BY <2>1, NextTurn
  <1>4. t + Len(Append(s, m)) = (t + Len(s)) + 1
    BY <1>1
  <1> QED BY <1>1, <1>2, <1>3, <1>4

\* And the first forgotten.
LEMMA InTurnLess ==
  ASSUME NEW H \in Seq(Node), NEW s \in Seq(Node), s # <<>>, NEW t \in Nat, InTurn(s, t, H)
  PROVE  /\ Tail(s) \in Seq(Node) /\ InTurn(Tail(s), t + 1, H)
         /\ (t + 1) + Len(Tail(s)) = t + Len(s)
  <1>1. /\ Tail(s) \in Seq(Node) /\ Len(Tail(s)) = Len(s) - 1 /\ Len(s) \in Nat
        /\ \A i \in 1 .. Len(s) - 1 : Tail(s)[i] = s[i + 1]
    OBVIOUS
  <1>2. ASSUME NEW i \in 1 .. Len(s) - 1
        PROVE  Tail(s)[i] = H[1 + (((t + 1) + i - 1) % Len(H))]
    <2>1. i + 1 \in 1 .. Len(s) /\ t + (i + 1) - 1 = (t + 1) + i - 1
      BY <1>1
    <2> QED BY <2>1, <1>1 DEF InTurn
  <1> QED BY <1>1, <1>2 DEF InTurn

LEMMA SpreadServe ==
  ASSUME GroupTypeOK, GroupTypeOK', SpreadInv, root' = root, NEW c \in Caller, ServeCall(c)
  PROVE  SpreadInv'
  <1> DEFINE H == HealthyMembers(root)
             v == view[c]
             r == Serve(ResolveLeaf, root, v, Groups)
             turn == Take(root, Len(H), Groups)
  <1>0. /\ pc[c] = "serve" /\ Leave(r.st) /\ got' = Got(c, r.leaf) /\ dead' = dead
    BY DEF ServeCall, nodeVars
  <1>5. Spreads(root)' = Spreads(root)
    BY DEF Spreads, Flat
  <1>1. CASE ~Spreads(root) \/ v.healthy # H
    <2>1. got' = <<>>
      BY <1>0, <1>1 DEF Got
    <2> QED BY <2>1, SpreadFresh
  <1>2. CASE Spreads(root) /\ v.healthy = H
    <2>0. /\ root \in Group /\ root \in DOMAIN Kind /\ Groups \in Keeping
          /\ Nodes = Members(root) /\ Members(root) \subseteq Leaf /\ Kind[root] = "loadbalance"
          /\ Members(root) \subseteq Node
      BY <1>2, GroupFacts, FlatNodes, MembersFacts DEF Spreads
    <2>1. H \in Seq(Members(root)) /\ H \in Seq(Node) /\ Len(H) <= Len(Children[root])
      <3>1. H \in Seq(Members(root)) /\ Len(H) <= Len(Children[root])
        BY <2>0, HealthyFacts
      <3> HIDE DEF H
      <3> QED BY <3>1, <2>0
    <2>2. r.leaf \in Node
      <3>1. r.leaf \in Configured[root]
        BY <1>0, AllClosed, GroupFacts, ServedFacts
      <3> HIDE DEF r
      <3> QED BY <3>1, GroupFacts
    <2> DEFINE s == Append(got, r.leaf)
    <2>3. got' = IF Len(s) > Len(Children[root]) THEN Tail(s) ELSE s
      BY <1>0, <1>2 DEF Got
    <2>4. s \in Seq(Node) /\ s # <<>> /\ Tail(s) \in Seq(Node) /\ got \in Seq(Node)
      <3>1. got \in Seq(Node)
        BY DEF SpreadInv
      <3> HIDE DEF r
      <3> QED BY <3>1, <2>2
    <2>5. CASE Len(H) > 0
      <3>1. H # <<>> /\ Len(H) \in Nat \ {0}
        BY <2>1, <2>5
      <3>2. turn.st \in Keeping /\ turn.at \in 1 .. Len(H)
        BY <2>0, <3>1, KeepingTurn
      <3>3. /\ turn.at = 1 + (next[root] % Len(H))
            /\ turn.st = [Groups EXCEPT !.next[root] = (@ + 1) % Wrap]
        BY DEF Take, Groups
      <3> HIDE DEF turn
      <3>4. r = ResolveLeaf[<<H[turn.at], turn.st>>]
        <4>1. Kind[root] = "loadbalance" /\ v.healthy = H /\ v.healthy # <<>>
          BY <1>2, <2>0, <3>1
        <4> HIDE DEF H, v
        <4> QED BY <4>1 DEF Serve, turn
      <3>5. H[turn.at] \in Leaf /\ turn.st \in GroupStates
        <4>1. H[turn.at] \in Members(root)
          BY <2>1, <3>2
        <4> QED BY <4>1, <2>0, <3>2 DEF Keeping
      <3>6. r = [leaf |-> H[turn.at], st |-> turn.st]
        <4> HIDE DEF H, r
        <4> QED BY <3>4, <3>5, ResolveLeafLeaf
      <3>7. r.leaf = H[1 + (next[root] % Len(H))] /\ r.st = turn.st
        <4> HIDE DEF r, H
        <4> QED BY <3>3, <3>6
      <3>8. next \in [Group -> 0 .. Wrap - 1] /\ next[root] \in Nat /\ Wrap \in Nat \ {0}
        <4>1. next \in [Group -> 0 .. Wrap - 1]
          BY DEF GroupTypeOK, Groups, GroupStates
        <4> QED BY <4>1, <2>0, TreeAssumption
      <3>9. next'[root] = (next[root] + 1) % Wrap
        <4>1. next' = turn.st.next
          BY <1>0, <3>7 DEF Leave
        <4>2. turn.st.next = [next EXCEPT ![root] = (next[root] + 1) % Wrap]
          BY <3>3 DEF Groups
        <4> QED BY <4>1, <4>2, <3>8, <2>0
      <3>10. next'[root] % Len(H) = (next[root] + 1) % Len(H)
        <4>1. Wrap % Len(H) = 0
          <5>1. Len(H) \in 1 .. Len(Children[root])
            BY <2>0, <2>1, <3>1, MembersFacts
          <5>2. \A m \in 1 .. Len(Children[root]) : Wrap % m = 0
            BY <2>0, TreeAssumption
          <5> QED BY <5>1, <5>2
        <4>2. next[root] + 1 \in Nat
          BY <3>8
        <4> HIDE DEF H
        <4>3. ((next[root] + 1) % Wrap) % Len(H) = (next[root] + 1) % Len(H)
          BY <4>1, <4>2, <3>1, <3>8, WrappedTurn
        <4> QED BY <4>3, <3>9
      <3>11. PICK t \in Nat : (t + Len(got)) % Len(H) = next[root] % Len(H) /\ InTurn(got, t, H)
        BY <1>2, <2>5 DEF SpreadInv
      <3> HIDE DEF H, r
      <3>12. InTurn(s, t, H) /\ (t + Len(s)) % Len(H) = (next[root] + 1) % Len(H)
        BY <2>1, <2>2, <2>4, <2>5, <3>7, <3>8, <3>11, InTurnMore
      <3> HIDE DEF s
      <3>13. \E x \in Nat : (x + Len(got')) % Len(H) = next'[root] % Len(H) /\ InTurn(got', x, H)
        <4>1. CASE Len(s) > Len(Children[root])
          <5>1. got' = Tail(s)
            BY <2>3, <4>1
          <5>2. InTurn(Tail(s), t + 1, H) /\ (t + 1) + Len(Tail(s)) = t + Len(s)
            BY <2>1, <2>4, <3>12, InTurnLess
          <5>3. t + 1 \in Nat
            OBVIOUS
          <5> QED BY <5>1, <5>2, <5>3, <3>10, <3>12
        <4>2. CASE ~(Len(s) > Len(Children[root]))
          <5>1. got' = s
            BY <2>3, <4>2
          <5> QED BY <5>1, <3>10, <3>12
        <4> QED BY <4>1, <4>2
      <3>14. got' \in Seq(Node)
        BY <2>3, <2>4
      <3>15. HealthyMembers(root)' = H
        BY <1>0, SameHealthy DEF H
      <3> QED BY <3>13, <3>14, <3>15, <1>2, <1>5 DEF SpreadInv
    <2>6. CASE ~(Len(H) > 0)
      <3> HIDE DEF s
      <3>1. got' \in Seq(Node)
        BY <2>3, <2>4
      <3>2. HealthyMembers(root)' = H
        BY <1>0, SameHealthy
      <3> QED BY <3>1, <3>2, <2>6, <1>2, <1>5 DEF SpreadInv
    <2> QED BY <2>5, <2>6
  <1> QED BY <1>1, <1>2

LEMMA SpreadStep ==
  ASSUME GroupTypeOK, SpreadInv, [OutboundNext]_outboundVars PROVE SpreadInv'
  <1>0. GroupTypeOK'
    BY StepTypes
  <1>1. CASE UNCHANGED outboundVars
    BY <1>1, SpreadSame DEF outboundVars, nodeVars, groupVars, callVars
  <1>2. CASE OutboundNext
    <2>0. root' = root
      BY <1>2 DEF OutboundNext
    <2>1. ASSUME NEW c \in Caller, Call(c) PROVE SpreadInv'
      <3>1. CASE Start(c) \/ ReadHealth(c) \/ ReadPenalty(c)
        <4>1. UNCHANGED <<dead, next, got>>
          BY <3>1 DEF Start, ReadHealth, ReadPenalty, nodeVars, groupVars
        <4> QED BY <4>1, <2>0, SpreadSame
      <3>2. CASE ReadLatency(c)
        <4>1. UNCHANGED <<dead, got>> /\ pc[c] = "latency"
          BY <3>2 DEF ReadLatency, nodeVars
        <4>2. Kind[root] = "urltest"
          BY <4>1 DEF GroupTypeOK, ViewRead
        <4>3. ~Spreads(root)
          BY <4>2 DEF Spreads
        <4> QED BY <4>1, <4>3, <2>0, SpreadSame
      <3>3. CASE ServeCall(c)
        BY <3>3, <1>0, <2>0, SpreadServe
      <3> QED BY <2>1, <3>1, <3>2, <3>3 DEF Call
    <2>2. ASSUME NEW l \in Nodes, NodeChange(l) PROVE SpreadInv'
      <3>1. CASE HealthChange(l)
        BY <3>1, <1>0, SpreadFresh DEF HealthChange
      <3>2. CASE PenaltyChange(l) \/ LatencyChange(l) \/ FallAsleep(l)
        <4>1. UNCHANGED <<dead, next, got>>
          BY <3>2 DEF PenaltyChange, LatencyChange, FallAsleep, groupVars, callVars
        <4> QED BY <4>1, <2>0, SpreadSame
      <3> QED BY <2>2, <3>1, <3>2 DEF NodeChange
    <2>3. ASSUME NEW g \in Group, NEW n \in Leaf \cup Group, Select(g, n) PROVE SpreadInv'
      <3>1. UNCHANGED <<dead, next, got>>
        BY <2>3 DEF Select, nodeVars
      <3> QED BY <3>1, <2>0, SpreadSame
    <2>4. CASE ListProxies
      <3>1. UNCHANGED <<dead, got>>
        BY <2>4 DEF ListProxies, nodeVars, callVars
      <3>2. ASSUME Spreads(root) PROVE next' = next
        <4>1. PICK g \in Group : \E n \in Members(g) : Leave(LatencyMs(ResolveLeaf, n, Groups).st)
          BY <2>4 DEF ListProxies
        <4>2. PICK n \in Members(g) : Leave(LatencyMs(ResolveLeaf, n, Groups).st)
          BY <4>1
        <4>3. root \in DOMAIN Kind /\ Flat(root)
          BY <3>2, GroupFacts DEF Spreads
        <4>4. Group \subseteq {root}
          BY <4>3, BelowFlat DEF Group, Flat
        <4>5. n \in Leaf
          BY <4>3, <4>4 DEF Flat
        <4>6. Groups \in GroupStates
          BY DEF GroupTypeOK
        <4>7. ResolveLeaf[<<n, Groups>>] = [leaf |-> n, st |-> Groups]
          BY <4>5, <4>6, ResolveLeafLeaf
        <4>8. ResolveLeaf[<<n, Groups>>].st = Groups
          BY <4>7
        <4>9. LatencyMs(ResolveLeaf, n, Groups).st = Groups
          BY <4>8 DEF LatencyMs
        <4> QED BY <4>2, <4>9 DEF Leave, Groups
      <3> QED BY <3>1, <3>2, <2>0, SpreadSame
    <2> QED BY <1>2, <2>1, <2>2, <2>3, <2>4 DEF OutboundNext
  <1> QED BY <1>1, <1>2

LEMMA SpreadHolds == ASSUME GroupTypeOK, SpreadInv PROVE Spread
  <1> DEFINE H == HealthyMembers(root)
  <1> SUFFICES ASSUME NEW i \in DOMAIN got, NEW j \in DOMAIN got, i < j, j - i < Len(H),
                      got[i] = got[j]
               PROVE  FALSE
    BY DEF Spread
  <1>1. got \in Seq(Node) /\ got # <<>>
    BY DEF SpreadInv
  <1>2. i \in 1 .. Len(got) /\ j \in 1 .. Len(got) /\ i \in Nat /\ j \in Nat /\ i >= 1
    BY <1>1
  <1>3. Spreads(root) /\ root \in DOMAIN Kind
    BY <1>1, GroupFacts DEF SpreadInv
  <1>4. H \in Seq(Members(root))
    BY <1>3, HealthyFacts
  <1>5. \A k, l \in 1 .. Len(H) : H[k] = H[l] => k = l
    <2>1. \A x, y \in 1 .. Len(Children[root]) : Children[root][x] = Children[root][y] => x = y
      <3>1. DOMAIN Children[root] = 1 .. Len(Children[root])
        BY <1>3, MembersFacts
      <3> QED BY <1>3, <3>1 DEF Spreads
    <2> QED BY <2>1, <1>3, HealthyFacts
  <1>6. Len(H) \in Nat /\ Len(H) > 0
    <2> HIDE DEF H
    <2> QED BY <1>2, <1>4
  <1>7. PICK t \in Nat : InTurn(got, t, H)
    BY <1>3, <1>6 DEF SpreadInv
  <1> HIDE DEF H
  <1>8. got[i] = H[1 + ((t + i - 1) % Len(H))] /\ got[j] = H[1 + ((t + j - 1) % Len(H))]
    BY <1>2, <1>7 DEF InTurn
  <1> DEFINE a == t + i - 1
             b == t + j - 1
  <1>9. a \in Nat /\ b \in Nat /\ a < b /\ b - a = j - i
    BY <1>2
  <1>10. got[i] = H[1 + (a % Len(H))] /\ got[j] = H[1 + (b % Len(H))]
    BY <1>8
  <1> HIDE DEF a, b
  <1>11. 1 + (a % Len(H)) \in 1 .. Len(H) /\ 1 + (b % Len(H)) \in 1 .. Len(H)
    BY <1>6, <1>9
  <1>12. 1 + (a % Len(H)) = 1 + (b % Len(H))
    BY <1>5, <1>10, <1>11
  <1>13. a % Len(H) = b % Len(H)
    BY <1>6, <1>9, <1>12
  <1>14. b - a >= Len(H)
    <2>1. Len(H) \in Nat \ {0}
      BY <1>6
    <2> QED BY <2>1, <1>9, <1>13, SameTurn
  <1> QED BY <1>2, <1>6, <1>9, <1>14

\* Connections to a load_balance of nodes are spread: as many in a row as there are healthy
\* members get different ones, whatever the callers' reads fall between.
THEOREM CallsSpread == OutboundSpec => []Spread
  <1>1. OutboundInit => SpreadInv
    <2> SUFFICES ASSUME OutboundInit PROVE SpreadInv
      OBVIOUS
    <2> DEFINE H == HealthyMembers(root)
    <2>1. got = <<>> /\ next[root] = 0
      <3>1. GroupTypeOK
        BY InitTypes
      <3> QED BY <3>1, GroupFacts DEF OutboundInit
    <2>2. <<>> \in Seq(Node) /\ Len(<<>>) = 0 /\ 0 + 0 = 0 /\ \A i \in 1 .. 0 : FALSE
      OBVIOUS
    <2>3. InTurn(<<>>, 0, H)
      BY <2>2 DEF InTurn
    <2> HIDE DEF H
    <2>4. \E t \in Nat : (t + Len(got)) % Len(H) = next[root] % Len(H) /\ InTurn(got, t, H)
      <3> WITNESS 0 \in Nat
      <3> QED BY <2>1, <2>2, <2>3
    <2> QED BY <2>1, <2>2, <2>4 DEF SpreadInv, H
  <1>2. GroupTypeOK /\ SpreadInv /\ [OutboundNext]_outboundVars => SpreadInv'
    BY SpreadStep
  <1>3. GroupTypeOK /\ SpreadInv => Spread
    BY SpreadHolds
  <1> QED BY <1>1, <1>2, <1>3, GroupTypes, PTL DEF OutboundSpec

=============================================================================
