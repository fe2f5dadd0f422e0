-------------------------- MODULE MCOutboundGroup --------------------------
(* Three small configurations for OutboundGroup.                           *)
EXTENDS OutboundGroup, TLC

CONSTANTS a, b, c

\* A urltest and a load_balance of nodes, and a selector between a node and a urltest of
\* groups that share members.
Kinds == [flat |-> "urltest", share |-> "loadbalance",
          pick |-> "selector", auto |-> "urltest", lb |-> "loadbalance", back |-> "fallback"]
MembersOf == [flat |-> <<a, b>>, share |-> <<a, b>>,
            pick |-> <<"auto", c>>, auto |-> <<"lb", "back", c>>, lb |-> <<a, b>>,
            back |-> <<"lb", c>>]

\* What changes of the nodes under each root.
Varied == [flat |-> {"health", "penalty", "latency"}, share |-> {"health"},
           pick |-> {"health", "latency", "sleep"}]

\* The nested groups are asked by one caller at a time; only there latencies differ.  Of two
\* nodes the second is measured first.
Scope ==
  /\ root = "pick" => Cardinality({u \in Caller : pc'[u] # "idle"}) <= 1
  /\ root # "pick" => (\A l \in Leaf : lat'[l] \in {NoLatency, 1})
  /\ root = "flat" /\ lat'[a] # NoLatency => lat'[b] # NoLatency

\* Callers are interchangeable.
Symmetry == Permutations(Caller)
=============================================================================
