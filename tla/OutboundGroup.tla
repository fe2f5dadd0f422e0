---------------------------- MODULE OutboundGroup ----------------------------
(***************************************************************************)
(* How a connection finds its node: the groups of src/src/proxy/outbound.rs *)
(* (urltest, fallback, selector, load_balance) and the console's requests  *)
(* on them (src/src/api/handlers/proxies.rs).                              *)
(*                                                                         *)
(* resolve_leaf is walked step by step in the group that a caller asks     *)
(* first, so that other callers, the console and changes of the nodes'     *)
(* health come between its reads; in the groups below it the walk is one   *)
(* step.  Health, penalty and latency of a node are those of NodeHealth,   *)
(* read here as they are and changed by NodeChange.                        *)
(***************************************************************************)
EXTENDS Integers, Sequences, FiniteSets

CONSTANTS
  Leaf,        \* nodes that are not groups
  Kind,        \* the kind of each group, by its name
  Children,    \* the members of each group, in order, none without members
  Roots,       \* groups that rules may route connections to, each of another configuration
  Latency, NoLatency, NoNode,
  Tolerance,
  Wrap,        \* a multiple of every number of members: next is kept modulo Wrap
  Caller,
  Changes      \* bound: what may change of the nodes of a root

Node == Leaf \cup DOMAIN Kind
Members(g) == {Children[g][i] : i \in DOMAIN Children[g]}

ASSUME TreeAssumption ==
  /\ DOMAIN Kind \cap Leaf = {} /\ NoNode \notin Node
  /\ IsFiniteSet(DOMAIN Kind) /\ Roots \subseteq DOMAIN Kind
  /\ Kind \in [DOMAIN Kind -> {"urltest", "fallback", "selector", "loadbalance"}]
  /\ \A g \in DOMAIN Kind : Children[g] \in Seq(Node) /\ Children[g] # <<>>
  /\ Wrap \in Nat \ {0}
  /\ \A g \in DOMAIN Kind : Kind[g] = "loadbalance" =>
       \A n \in 1 .. Len(Children[g]) : Wrap % n = 0
ASSUME LatencyAssumption == Latency \subseteq Nat /\ NoLatency \notin Nat /\ Tolerance \in Nat

VARIABLES
  root,              \* the group that the connections of this run are routed to
  dead, penalized,   \* the nodes that are
  lat,               \* latency of each node
  asleep,            \* the nodes whose probes are paused for want of traffic
  current, next,     \* of each group
  pc, view,          \* where a caller is in resolve_leaf, and what it has read
  since,             \* history: what held of a urltest's nodes since the call began
  served,            \* the node the last call returned
  got                \* history: the last nodes served from an unchanged load_balance

nodeVars  == <<dead, penalized, lat, asleep>>
groupVars == <<current, next>>
callVars  == <<pc, view, since, served, got>>
outboundVars == <<root, nodeVars, groupVars, callVars>>

\* The nodes of the configuration that n is the root of.
Below(n) ==
  {m \in Node : \A S \in SUBSET Node :
     n \in S /\ (\A g \in S \ Leaf : Members(g) \subseteq S) => m \in S}
Configured == [n \in Node |-> Below(n)]

Group == Configured[root] \ Leaf
Nodes == Configured[root] \cap Leaf

\* What the groups keep between calls.
GroupStates == [current : [Group -> Node \cup {NoNode}], next : [Group -> 0 .. Wrap - 1]]
Groups == [current |-> current, next |-> next]
Leave(st) == current' = st.current /\ next' = st.next

NoView  == [healthy |-> <<>>, candidates |-> <<>>, allow |-> FALSE, ms |-> <<>>]
NoSince == [alive |-> {}, clear |-> {}, steady |-> {}, steered |-> FALSE]

\* Groups of nodes, and those of them that have no node twice.
Flat(g) == Members(g) \subseteq Leaf
Spreads(g) == /\ Kind[g] = "loadbalance" /\ Flat(g)
              /\ \A i, j \in DOMAIN Children[g] : Children[g][i] = Children[g][j] => i = j
Compares(g) == Kind[g] = "urltest" /\ Flat(g)

OutboundInit ==
  /\ root \in Roots
  /\ dead = {} /\ penalized = {} /\ asleep = {}
  /\ lat = [l \in Leaf |-> NoLatency]
  /\ current = [g \in Group |-> IF Kind[g] = "selector" THEN Children[g][1] ELSE NoNode]
  /\ next = [g \in Group |-> 0]
  /\ pc = [c \in Caller |-> "idle"] /\ view = [c \in Caller |-> NoView]
  /\ since = [c \in Caller |-> NoSince]
  /\ served = NoNode /\ got = <<>>

-----------------------------------------------------------------------------
(* is_healthy, latency_ms and resolve_leaf.  The last two move the cursors *)
(* and the choices of the groups they pass: st is what the groups keep,    *)
(* and resolve is resolve_leaf for the members of a group.                 *)

\* The members in s that are in T, in order.
Kept(s, T) ==
  LET kept[i \in 0 .. Len(s)] ==
        IF i = 0 THEN <<>>
        ELSE IF s[i] \in T THEN Append(kept[i - 1], s[i]) ELSE kept[i - 1]
  IN kept[Len(s)]

\* is_healthy: a group is when some node below it is.
IsHealthy(n) == ~ Configured[n] \cap Leaf \subseteq dead
HealthyMembers(g) == Kept(Children[g], {n \in Members(g) : IsHealthy(n)})

\* Only a node carries a penalty, never a group.
IsPenalized(n) == n \in penalized

\* latency_http_ms: a group's latency is that of the node it resolves to.
LatencyMs(resolve, n, st) ==
  LET r == resolve[<<n, st>>]
  IN  [ms |-> IF r.leaf \in Leaf THEN lat[r.leaf] ELSE NoLatency, st |-> r.st]

\* The latencies of the members in s, one after the other.
Latencies(resolve, s, st) ==
  LET asked[i \in 0 .. Len(s)] ==
        IF i = 0 THEN [ms |-> <<>>, st |-> st]
        ELSE LET before == asked[i - 1]
                 l == LatencyMs(resolve, s[i], before.st)
             IN  [ms |-> Append(before.ms, l.ms), st |-> l.st]
  IN asked[Len(s)]

\* Mutant: the current member only has to be alive.
KeepsAlive(n, allow) == n # NoNode /\ IsHealthy(n)

\* The current member may be kept: it is healthy, and penalised only if all are.
Keeps(n, allow) == n # NoNode /\ IsHealthy(n) /\ (allow \/ ~IsPenalized(n))

\* with_lat, and the first of the least latencies in it.
Known(ms) == {i \in DOMAIN ms : ms[i] # NoLatency}
Best(ms) == CHOOSE i \in Known(ms) : \A j \in Known(ms) \ {i} :
              ms[i] < ms[j] \/ (ms[i] = ms[j] /\ i < j)

\* The lock on current is taken, with v what has been read of the members before.
Urltest(resolve, g, v, st) ==
  LET curr   == st.current[g]
      any    == Known(v.ms) # {}
      keeps  == Keeps(curr, v.allow)
      asked  == IF keeps /\ any THEN LatencyMs(resolve, curr, st)
                ELSE [ms |-> NoLatency, st |-> st]
      stays  == keeps /\ \/ ~any
                         \/ asked.ms # NoLatency /\ asked.ms <= v.ms[Best(v.ms)] + Tolerance
      chosen == IF stays THEN curr ELSE v.candidates[IF any THEN Best(v.ms) ELSE 1]
  IN  resolve[<<chosen, [asked.st EXCEPT !.current[g] = chosen]>>]

\* Mutant: the cursor is read and not moved.
TakeLoad(g, n, st) == [at |-> 1 + (st.next[g] % n), st |-> st]

\* fetch_add: the turn of this call, and the cursor moved on.
Take(g, n, st) == [at |-> 1 + (st.next[g] % n),
                   st |-> [st EXCEPT !.next[g] = (@ + 1) % Wrap]]

\* The member of g that v leads to, resolved further.
Serve(resolve, g, v, st) ==
  CASE Kind[g] = "selector" -> resolve[<<st.current[g], st>>]
    [] Kind[g] = "urltest" ->
         IF v.healthy = <<>> THEN [leaf |-> g, st |-> st] ELSE Urltest(resolve, g, v, st)
    [] Kind[g] = "fallback" ->
         resolve[<<IF v.healthy = <<>> THEN Children[g][1] ELSE v.healthy[1], st>>]
    [] Kind[g] = "loadbalance" ->
         IF v.healthy = <<>> THEN resolve[<<Children[g][1], st>>]
         ELSE LET turn == Take(g, Len(v.healthy), st)
              IN  resolve[<<v.healthy[turn.at], turn.st>>]

\* The members a urltest compares, among those found healthy.
WithPenalties(v) ==
  LET free == Kept(v.healthy, {n \in Node : ~IsPenalized(n)})
  IN  [v EXCEPT !.candidates = IF free = <<>> THEN v.healthy ELSE free,
                !.allow = (free = <<>>)]

ResolveGroup(resolve, g, st) ==
  LET v == [NoView EXCEPT !.healthy = IF Kind[g] = "selector" THEN <<>> ELSE HealthyMembers(g)]
      w == IF Kind[g] = "urltest" THEN WithPenalties(v) ELSE v
      l == Latencies(resolve, w.candidates, st)
  IN  Serve(resolve, g, [w EXCEPT !.ms = l.ms], l.st)

\* resolve_leaf, with resolve for the groups within a group.
Unresolved == [p \in Node \X GroupStates |-> [leaf |-> p[1], st |-> p[2]]]
ResolveNode(resolve) ==
  [p \in Node \X GroupStates |->
     IF p[1] \in Leaf THEN Unresolved[p] ELSE ResolveGroup(resolve, p[1], p[2])]

\* For groups within groups to a given depth.
Resolver[depth \in Nat] ==
  IF depth = 0 THEN Unresolved ELSE ResolveNode(Resolver[depth - 1])

\* No circle of groups is accepted: none is deeper than there are groups.
ResolveLeaf == Resolver[Cardinality(DOMAIN Kind)]

-----------------------------------------------------------------------------
(* Callers: resolve_leaf_active on root.                                  *)

\* Mutant: a urltest wakes the member it uses and no other.
LeadsToCurrent(g) == IF Kind[g] \in {"selector", "urltest"} /\ current[g] # NoNode
                     THEN {current[g]} ELSE Members(g)

\* mark_active_at: a selector leads to its choice, other groups to all members.
LeadsTo(g) == IF Kind[g] = "selector" THEN {current[g]} ELSE Members(g)

\* The groups it passes, and the nodes it reaches.
MarkedGroups ==
  {g \in Group : \A S \in SUBSET Group :
     root \in S /\ (\A h \in S : LeadsTo(h) \ Leaf \subseteq S) => g \in S}
Marked == Leaf \cap UNION {LeadsTo(g) : g \in MarkedGroups}

\* mark_active
Start(c) ==
  /\ pc[c] = "idle"
  /\ asleep' = asleep \ Marked
  /\ pc' = [pc EXCEPT ![c] = IF Kind[root] = "selector" THEN "serve" ELSE "health"]
  /\ since' = [since EXCEPT ![c] =
       IF ~Compares(root) THEN NoSince
       ELSE [alive |-> Nodes \ dead, clear |-> Nodes \ penalized,
             steady |-> (Nodes \ dead) \ penalized, steered |-> FALSE]]
  /\ UNCHANGED <<dead, penalized, lat, groupVars, view, served, got>>

\* The members are asked for their health.
ReadHealth(c) ==
  /\ pc[c] = "health"
  /\ view' = [view EXCEPT ![c].healthy = HealthyMembers(root)]
  /\ pc' = [pc EXCEPT ![c] = IF Kind[root] = "urltest" /\ view'[c].healthy # <<>>
                             THEN "penalty" ELSE "serve"]
  /\ UNCHANGED <<nodeVars, groupVars, since, served, got>>

ReadPenalty(c) ==
  /\ pc[c] = "penalty"
  /\ view' = [view EXCEPT ![c] = WithPenalties(@)]
  /\ pc' = [pc EXCEPT ![c] = "latency"]
  /\ UNCHANGED <<nodeVars, groupVars, since, served, got>>

\* A member that is a group is resolved, with what that changes, to learn its latency.
ReadLatency(c) ==
  /\ pc[c] = "latency"
  /\ LET l == Latencies(ResolveLeaf, view[c].candidates, Groups)
     IN  view' = [view EXCEPT ![c].ms = l.ms] /\ Leave(l.st)
  /\ pc' = [pc EXCEPT ![c] = "serve"]
  /\ UNCHANGED <<nodeVars, since, served, got>>

\* got with n added; emptied if the caller did not see the members as they are.
Got(c, n) ==
  IF ~Spreads(root) \/ view[c].healthy # HealthyMembers(root)
  THEN <<>>
  ELSE LET s == Append(got, n)
       IN  IF Len(s) > Len(Children[root]) THEN Tail(s) ELSE s

\* The member is chosen, under the group's lock or by its cursor, and resolved.
ServeCall(c) ==
  /\ pc[c] = "serve"
  /\ LET r == Serve(ResolveLeaf, root, view[c], Groups)
     IN  Leave(r.st) /\ served' = r.leaf /\ got' = Got(c, r.leaf)
  /\ pc' = [pc EXCEPT ![c] = "idle"]
  /\ view' = [view EXCEPT ![c] = NoView]
  /\ since' = [since EXCEPT ![c] = NoSince]
  /\ UNCHANGED nodeVars

-----------------------------------------------------------------------------
(* The console.                                                            *)

\* get_proxies and group_json: the members of all groups are asked for their latencies, one
\* after the other and not without calls in between.
ListProxies ==
  /\ \E g \in Group : \E n \in Members(g) : Leave(LatencyMs(ResolveLeaf, n, Groups).st)
  /\ UNCHANGED <<nodeVars, callVars>>

\* select_proxy
Select(g, n) ==
  /\ Kind[g] = "selector" /\ n \in Members(g)
  /\ current' = [current EXCEPT ![g] = n]
  /\ since' = [u \in Caller |-> [since[u] EXCEPT !.steered = pc[u] # "idle"]]
  /\ UNCHANGED <<nodeVars, next, pc, view, served, got>>

-----------------------------------------------------------------------------
(* The nodes.                                                              *)

\* The calls under way see the nodes as they become.
Witness(d, p) ==
  since' = [u \in Caller |->
    IF pc[u] = "idle" \/ ~Compares(root) THEN since[u]
    ELSE [since[u] EXCEPT !.alive = @ \cup (Nodes \ d), !.clear = @ \cup (Nodes \ p),
                          !.steady = (@ \ d) \ p]]

HealthChange(l) ==
  /\ "health" \in Changes[root]
  /\ dead' \in {dead \cup {l}, dead \ {l}} /\ dead' # dead
  /\ got' = <<>>
  /\ Witness(dead', penalized) /\ UNCHANGED <<penalized, lat, asleep, groupVars, pc, view, served>>

PenaltyChange(l) ==
  /\ "penalty" \in Changes[root]
  /\ penalized' \in {penalized \cup {l}, penalized \ {l}} /\ penalized' # penalized
  /\ Witness(dead, penalized') /\ UNCHANGED <<dead, lat, asleep, groupVars, pc, view, served, got>>

LatencyChange(l) ==
  /\ "latency" \in Changes[root]
  /\ \E ms \in Latency : lat' = [lat EXCEPT ![l] = ms]
  /\ UNCHANGED <<dead, penalized, asleep, groupVars, callVars>>

\* No traffic for half an hour, which no call takes.
FallAsleep(l) ==
  /\ "sleep" \in Changes[root]
  /\ \A c \in Caller : pc[c] = "idle"
  /\ asleep' = asleep \cup {l}
  /\ UNCHANGED <<dead, penalized, lat, groupVars, callVars>>

-----------------------------------------------------------------------------
Call(c) == Start(c) \/ ReadHealth(c) \/ ReadPenalty(c) \/ ReadLatency(c) \/ ServeCall(c)

NodeChange(l) == HealthChange(l) \/ PenaltyChange(l) \/ LatencyChange(l) \/ FallAsleep(l)

OutboundNext ==
  /\ \/ \E c \in Caller : Call(c)
     \/ \E l \in Nodes : NodeChange(l)
     \/ \E g \in Group, n \in Leaf \cup Group : Select(g, n)
     \/ ListProxies
  /\ UNCHANGED root

OutboundSpec == OutboundInit /\ [][OutboundNext]_outboundVars

-----------------------------------------------------------------------------
(* Properties.                                                             *)

Ends(c) == pc[c] = "serve" /\ pc'[c] = "idle"

\* While some node is healthy and without a penalty all through a call of a urltest of
\* nodes, the call gets a node that was healthy and one that had no penalty during it,
\* however health, penalties and other callers' switches fall between its reads.
UsableNode ==
  [][\A c \in Caller : Ends(c) /\ since[c].steady # {} =>
       served' \in since[c].alive \cap since[c].clear]_outboundVars

\* The node that serves a call has been woken by it, unless the user selected another
\* member in the meantime: what mark_active reaches covers what resolve_leaf may return.
ServedAwake ==
  [][\A c \in Caller : Ends(c) /\ ~since[c].steered => served' \notin asleep]_outboundVars

\* A call is served by a node that is fit for it, and awake.
CallServed == UsableNode /\ ServedAwake

\* Connections to a load_balance group are spread: as many in a row as there are healthy
\* members get different ones, whatever the callers' reads fall between.
Spread ==
  \A i, j \in DOMAIN got :
    i < j /\ j - i < Len(HealthyMembers(root)) => got[i] # got[j]
=============================================================================
