---------------------------- MODULE MCDnsServer ----------------------------
(* Bounded instance of the names an application asks the client for        *)
(* (DnsServer), and of what must happen in the end to the tunnels that are *)
(* kept ready for its connections (WarmPool).  They are checked side by    *)
(* side: a behaviour moves the one that focus names.                       *)
EXTENDS DnsServer

VARIABLES
  focus,
  idle, connecting, ready, notifying, finishing, signalling, in_flight, consecutive_failures,
  target_size, notify, demand_notify, task_done, builder_shutdown, net_shutdown, popping,
  parking, parked, woken, bpc, current_target, current_idle, current_in_flight, mpc, wait,
  wait_events, total_gets, wpc, net_changed, shutdown      \* of the pool

poolVars ==
  <<idle, connecting, ready, notifying, finishing, signalling, in_flight, consecutive_failures,
  target_size, notify, demand_notify, task_done, builder_shutdown, net_shutdown, popping,
  parking, parked, woken, bpc, current_target, current_idle, current_in_flight, mpc, wait,
  wait_events, total_gets, wpc, net_changed, shutdown>>

\* A pool of one tunnel on a network whose path changes, with nobody to take the tunnel.
Pool == INSTANCE WarmPool WITH
          PoolSize <- 1, MinTargetFloor <- 1, MaxTasks <- 1, MaxGetters <- 0, MaxLoad <- 0,
          FailureCap <- 1, PathMayChange <- TRUE

-----------------------------------------------------------------------------
(* One name, and scenarios that bring out the flights of equal questions,  *)
(* clients of two sizes, the two paths, the classification, and the        *)
(* questions that are answered at once.                                    *)

Ask(t, z, o) == [name |-> "n", qtype |-> t, size |-> z, options |-> o]

Same == {<<Ask("A", 1, FALSE), "direct">>}
Sizes == {<<Ask("A", 1, FALSE), "direct">>, <<Ask("A", 2, FALSE), "direct">>}
Paths == {<<Ask("A", 1, FALSE), "ruleCn">>, <<Ask("A", 1, FALSE), "ruleRemote">>}
Probes == {<<Ask("A", 1, FALSE), "autoVerify">>}
AtOnce == {<<Ask("A", 1, FALSE), c>> : c \in {"static", "reject", "block", "directV6"}}
          \cup {<<Ask("MX", 1, FALSE), "auto">>, <<Ask("AAAA", 1, FALSE), "auto">>,
                <<Ask("A", 1, TRUE), "direct">>, <<Ask("A", 1, FALSE), "proxyFake">>}

MCScenarios == {[asks |-> Same, most |-> 3]}
               \cup {[asks |-> a, most |-> 2] : a \in {Sizes, Paths, Probes, AtOnce}}
MCRemoteServers == <<"r1", "r2">>
Quietest == CHOOSE s \in MCScenarios : s.asks = AtOnce

-----------------------------------------------------------------------------
AppInit ==
  /\ focus \in {"names", "pool"}
  /\ Init /\ (focus # "names" => scenario = Quietest)
  /\ Pool!Init

AppNext ==
  /\ UNCHANGED focus
  /\ \/ focus = "names" /\ Next /\ UNCHANGED poolVars
     \/ focus = "pool" /\ Pool!Next /\ UNCHANGED vars

appVars == <<focus, vars, poolVars>>
Answering == focus = "names" /\ (\E s \in Slot : Step(s))
             /\ UNCHANGED <<focus, scenario, poolVars>>

\* The fairness of the pool's loops, as in WarmPool, for the behaviours that move it.  At most
\* one connect task is alive, at one of its stages: that each stage is fair is that the task is.
InPool(A) == focus = "pool" /\ A /\ UNCHANGED <<focus, vars>>
PoolFairness ==
  /\ WF_appVars(InPool(Pool!Builder))
  /\ WF_appVars(InPool(Pool!Manager))
  /\ WF_appVars(InPool(Pool!Watcher))
  /\ WF_appVars(InPool(Pool!Task))

AppSpec == AppInit /\ [][AppNext]_appVars /\ WF_appVars(Answering) /\ PoolFairness

\* A pool that was dropped leaves no loop behind: DropStopsTasks and Refill of WarmPool, for the
\* behaviours that move the pool.
PoolLives ==
  /\ Pool!DropStopsTasks
  /\ SF_appVars(InPool(Pool!TaskConnected("current")))
       => []<>(focus = "pool" => Pool!Total(idle) > 0 \/ shutdown)
=============================================================================
