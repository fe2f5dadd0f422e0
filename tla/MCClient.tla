------------------------------ MODULE MCClient ------------------------------
(***************************************************************************)
(* Bounded instance of what the client keeps for its users: fake addresses *)
(* (FakeIp), choices in selector groups (SelectorState), connections       *)
(* (ClientConn), UDP flows (ClientUdp), the shared QUIC connection         *)
(* (QuicMux), and what a process knows of the network (HostNetwork).  They *)
(* are checked side by side: a behaviour moves the one that focus names.   *)
(***************************************************************************)
EXTENDS FakeIp, SelectorState, ClientConn, ClientUdp, QuicMux, HostNetwork, TLC

VARIABLE focus

CONSTANTS d1, d2, d3  \* domains

OneProcess == [x \in Group |-> "client"]
FirstTag == [x \in Group |-> "n1"]

\* Two clients talk to one address: their flows share a reply socket.
OneDest == [x \in Pair |-> "d"]

\* Domains are alike.
Symmetry == Permutations({d1, d2, d3})

\* Flows that share tunnels are not mixed with those that have one each.
KindsOf(f) == IF f = "shared" THEN {"hijack", "mux"} ELSE {"direct", "own"}

\* The name that is kept has one public address, the other has none.
Address(v, class, reachable) == [v |-> v, class |-> class, reachable |-> reachable]
MCAddrs == [n \in Name |->
  IF n = KeptName
  THEN <<Address(6, "public", TRUE), Address(4, "loopback", TRUE), Address(4, "own", FALSE)>>
  ELSE <<Address(4, "multicast", TRUE), Address(4, "own", TRUE), Address(6, "metadata", TRUE)>>]
NotDialling == dial.name = KeptName /\ dial.local /\ ownAddrs = {}

\* A second chunk may be lost where the first arrived.
Chunks == [up |-> 1, dn |-> 2]

\* The request of a connection that does not move.
Plainest == [inbound |-> "socks", dest |-> "name", hello |-> FALSE]

ClientInit ==
  /\ focus \in {"fakeip", "choices", "connection", "shared", "single", "quic", "names", "dial",
                "path"}
  /\ Init /\ ChoiceInit /\ ClientUdpInit /\ QuicInit
  /\ ResolverInit /\ DialInit /\ MonitorInit /\ (focus # "dial" => NotDialling)
  /\ ConnInit /\ (focus # "connection" => ask = Plainest)

keptVars == <<vars, choiceVars, clientUdpVars, quicVars>>
KeptNext ==
  \/ focus = "fakeip" /\ Next /\ UNCHANGED <<choiceVars, clientUdpVars, quicVars>>
  \/ focus = "choices" /\ ChoiceNext /\ UNCHANGED <<vars, clientUdpVars, quicVars>>
  \/ focus \in {"shared", "single"} /\ ClientUdpNext
     /\ (\A w \in Task : flow'[w].pc # "none" => flow'[w].kind \in KindsOf(focus))
     /\ UNCHANGED <<vars, choiceVars, quicVars>>
  \/ focus = "quic" /\ QuicNext /\ UNCHANGED <<vars, choiceVars, clientUdpVars>>
NetworkNext ==
  \/ focus = "names" /\ ResolverNext /\ UNCHANGED <<dialVars, monitorVars>>
  \/ focus = "dial" /\ DialNext /\ UNCHANGED <<resolverVars, monitorVars>>
  \/ focus = "path" /\ MonitorNext /\ UNCHANGED <<resolverVars, dialVars>>

ClientNext ==
  /\ UNCHANGED focus
  /\ \/ KeptNext /\ UNCHANGED <<connVars, networkVars>>
     \/ NetworkNext /\ UNCHANGED <<connVars, keptVars>>
     \/ focus = "connection" /\ ConnNext /\ UNCHANGED <<keptVars, networkVars>>

ClientSpec == ClientInit /\ [][ClientNext]_<<focus, connVars, keptVars, networkVars>>

\* What the kernel answers is pushed and never read: no step and no property of this instance
\* depends on it, and two states that differ in nothing else count as one.
KernelLeftOut ==
  <<focus, mapVars, dirty, flushVars, disk, qpc, phase, choiceVars, connVars, clientUdpVars,
    quicVars, networkVars>>

\* Queries alone, with nothing written and no end of the process.
QuerySpec == ClientInit /\ focus = "fakeip"
             /\ [][ClientNext /\ \E q \in Query : Resolve(q)]_
                    <<focus, connVars, keptVars, networkVars>>
=============================================================================
