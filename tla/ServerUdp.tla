----------------------------- MODULE ServerUdp -----------------------------
(***************************************************************************)
(* The two UDP sessions of the server: the plain one, which serves many    *)
(* targets over one socket and lazily built WireGuard outlets, and the     *)
(* multiplexed one, which gives every flow (sid) a socket and a pump of    *)
(* its own (src/src/proxy/mirage_server/udp_relay.rs).                     *)
(***************************************************************************)
EXTENDS Integers, FiniteSets

CONSTANTS
  Target,        \* what the client sends to
  Tunnel,        \* WireGuard outlets, by tag and instance
  Flow,          \* sids of a multiplexed session
  MaxSentTargets, UdpIdle,      \* MAX_SENT_TARGETS and UDP_IDLE_TIMEOUT
  MaxMuxSids,    \* MAX_MUX_SIDS
  MaxSends       \* bound: packets of a plain session

ASSUME ServerUdpAssumption ==
  /\ {MaxSentTargets, UdpIdle, MaxMuxSids} \subseteq Nat \ {0} /\ MaxSends \in Nat
  /\ "direct" \notin Tunnel

Outlet == Tunnel \cup {"direct"}
Never == 0

VARIABLES
  uplink,        \* the plain session: where its uplink stands, and the packet in hand
  packet,
  routes,        \* route_cache, "none" where nothing is kept
  egress,        \* wg_egresses
  whitelist,     \* sent: when a target was last sent to, by outlet
  clock,         \* stamps of the sends
  halted,        \* the watch channel
  wentOut,       \* when a packet last really went out to a target, by outlet
  mux,           \* the multiplexed session: where its uplink stands
  sid,           \* the flow in hand
  sessions,      \* the table
  pump,          \* the pump of each flow
  muxStop        \* should_stop of the session

plainVars == <<uplink, packet, routes, egress, whitelist, clock, halted, wentOut>>
muxVars == <<mux, sid, sessions, pump, muxStop>>
serverUdpVars == <<plainVars, muxVars>>

NoPacket == [to |-> "none", out |-> "none"]
ServerUdpInit ==
  /\ uplink = "recv" /\ packet = NoPacket
  /\ routes = [t \in Target |-> "none"]
  /\ egress = {}
  /\ whitelist = [o \in Outlet |-> [t \in Target |-> Never]] /\ wentOut = whitelist
  /\ clock = 1 /\ halted = FALSE
  /\ mux = "recv" /\ sid \in Flow /\ sessions = {}
  /\ pump = [f \in Flow |-> "none"] /\ muxStop = FALSE

-----------------------------------------------------------------------------
(* handle_udp_relay.                                                       *)

tables == <<whitelist, wentOut, clock>>

\* A frame, or the stop signal, an error, 300 s without one.
TakePacket ==
  /\ uplink = "recv"
  /\ \/ /\ ~halted /\ clock <= MaxSends
        /\ \E t \in Target : packet' = [packet EXCEPT !.to = t]
        /\ uplink' = "route" /\ UNCHANGED halted
     \/ uplink' = "over" /\ halted' = TRUE /\ UNCHANGED packet
  /\ UNCHANGED <<routes, egress, tables, muxVars>>

\* server_route, once for each target of the session; a full cache is emptied.  The rules
\* may be replaced at any time, so any answer is possible when the cache has none.
Kept == {t \in Target : routes[t] # "none"}
RoutePacket ==
  /\ uplink = "route"
  /\ \E out \in Outlet \cup {"refused"} :
       /\ routes[packet.to] # "none" => out = routes[packet.to]
       /\ routes' = IF routes[packet.to] # "none" THEN routes
                    ELSE [t \in Target |-> IF t = packet.to THEN out
                            ELSE IF Cardinality(Kept) >= MaxSentTargets THEN "none" ELSE routes[t]]
       /\ packet' = [packet EXCEPT !.out = out]
       /\ uplink' = IF out = "refused" THEN "recv" ELSE "pay"
  /\ UNCHANGED <<egress, tables, halted, muxVars>>

\* Buckets and quota: the packet passes, is dropped, or ends the session.
PayPacket ==
  /\ uplink = "pay"
  /\ \/ uplink' = "recv" /\ UNCHANGED halted
     \/ uplink' = "over" /\ halted' = TRUE
     \/ uplink' = (IF packet.out = "direct" THEN "record" ELSE "egress") /\ UNCHANGED halted
  /\ UNCHANGED <<packet, routes, egress, tables, muxVars>>

\* A WireGuard outlet is built when it is first needed, with a table and a pump of its own.
\* After a failure nothing is tried for WG_RETRY_COOLDOWN, which has passed or not.
BuildEgress ==
  /\ uplink = "egress"
  /\ LET o == packet.out
     IN  \/ o \in egress /\ uplink' = "resolve" /\ UNCHANGED <<egress, whitelist, wentOut>>
         \/ o \notin egress /\ uplink' = "recv" /\ UNCHANGED <<egress, whitelist, wentOut>>
         \/ /\ o \notin egress
            /\ egress' = egress \cup {o} /\ uplink' = "resolve"
            /\ whitelist' = [whitelist EXCEPT ![o] = [t \in Target |-> Never]]
            /\ wentOut' = [wentOut EXCEPT ![o] = [t \in Target |-> Never]]
  /\ UNCHANGED <<packet, routes, clock, halted, muxVars>>

\* resolve_with: an address that is kept, a failure that is kept, or the answer of a query
\* once they have expired.  A packet without an address is dropped.
Resolve ==
  /\ uplink = "resolve"
  /\ uplink' \in {"record", "recv"}
  /\ UNCHANGED <<packet, routes, egress, tables, halted, muxVars>>

\* record_sent_target: of a full table what is idle goes, and then what is oldest.
Idle(stamp) == clock - stamp > UdpIdle
Recorded(table, t) ==
  LET known == {x \in Target : table[x] # Never}
      fresh == {x \in known : ~Idle(table[x])}
      oldest == CHOOSE x \in fresh : \A y \in fresh : table[x] <= table[y]
      stay == IF t \in known \/ Cardinality(known) < MaxSentTargets THEN known
              ELSE IF Cardinality(fresh) < MaxSentTargets THEN fresh ELSE fresh \ {oldest}
  IN  [x \in Target |-> IF x = t THEN clock ELSE IF x \in stay THEN table[x] ELSE Never]

Record(from, to) ==
  /\ uplink = from /\ uplink' = to
  /\ whitelist' = [whitelist EXCEPT ![packet.out] = Recorded(@, packet.to)]
  /\ clock' = clock + 1
  /\ UNCHANGED <<packet, routes, egress, wentOut, halted, muxVars>>
Transmit(from, to) ==
  /\ uplink = from /\ uplink' = to
  /\ wentOut' = [wentOut EXCEPT ![packet.out][packet.to] = clock]
  /\ UNCHANGED <<packet, routes, egress, whitelist, clock, halted, muxVars>>

\* Mutant of SendPacket: the target is recorded after the packet is out
SendThenRecord == Transmit("record", "send") \/ Record("send", "recv")
SendPacket == Record("record", "send") \/ Transmit("send", "recv")

\* A reply that is admitted may use up the quota, which ends the session; what was not asked
\* for is dropped.  A tunnel socket that fails takes its outlet out of the table.
Admitted(o, t) == whitelist[o][t] # Never
Reply(o) ==
  /\ ~halted /\ halted' = TRUE
  /\ \E t \in Target : Admitted(o, t)
  /\ UNCHANGED <<uplink, packet, routes, egress, tables, muxVars>>
EgressFails(o) ==
  /\ ~halted /\ o \in egress /\ egress' = egress \ {o}
  /\ UNCHANGED <<uplink, packet, routes, tables, halted, muxVars>>

\* 300 s without a packet on the direct socket: the session ends if no outlet had one.
DirectSilent ==
  /\ ~halted /\ halted' = TRUE
  /\ UNCHANGED <<uplink, packet, routes, egress, tables, muxVars>>

PlainNext == \/ TakePacket \/ RoutePacket \/ PayPacket \/ BuildEgress \/ Resolve
             \/ SendPacket \/ DirectSilent \/ \E o \in Outlet : Reply(o) \/ EgressFails(o)

-----------------------------------------------------------------------------
(* handle_udp_mux_relay_inner.                                             *)

StopMux == ~muxStop /\ muxStop' = TRUE /\ UNCHANGED <<plainVars, mux, sid, sessions, pump>>

\* A frame of a known flow goes out of its socket; of a new one, unless the table is full.
TakeFlow ==
  /\ mux = "recv" /\ ~muxStop
  /\ \E f \in Flow :
       \/ f \in sessions /\ UNCHANGED <<mux, sid>>
       \/ f \notin sessions /\ Cardinality(sessions) >= MaxMuxSids /\ UNCHANGED <<mux, sid>>
       \/ f \notin sessions /\ Cardinality(sessions) < MaxMuxSids /\ sid' = f /\ mux' = "open"
  /\ UNCHANGED <<plainVars, sessions, pump, muxStop>>

\* Routing, resolving and binding take their time and may fail; the pump is spawned before
\* its flow is in the table.
OpenFlow ==
  /\ mux = "open"
  /\ \/ mux' = "recv" /\ UNCHANGED pump
     \/ mux' = "insert" /\ pump' = [pump EXCEPT ![sid] = "on"]
  /\ UNCHANGED <<plainVars, sid, sessions, muxStop>>
InsertFlow ==
  /\ mux = "insert" /\ mux' = "recv" /\ sessions' = sessions \cup {sid}
  /\ UNCHANGED <<plainVars, sid, pump, muxStop>>

\* The pump ends after 60 s without a reply and after an error, which no socket has before
\* something was sent, and when the user is stopped.
PumpLeaves(f) ==
  /\ pump[f] = "on" /\ (f \in sessions \/ muxStop)
  /\ pump' = [pump EXCEPT ![f] = "leaving"]
  /\ UNCHANGED <<plainVars, mux, sid, sessions, muxStop>>

\* Whatever it ended by, the pump takes its flow out.
TakenOut(f) == sessions \ {f}
PumpRemoves(f) ==
  /\ pump[f] = "leaving" /\ pump' = [pump EXCEPT ![f] = "none"] /\ sessions' = TakenOut(f)
  /\ UNCHANGED <<plainVars, mux, sid, muxStop>>

\* The uplink ends: by the writer's signal, the quota, or with the tunnel.  Dropping the
\* table aborts the pumps.
EndMux ==
  /\ mux = "recv" /\ mux' = "over" /\ sessions' = {}
  /\ pump' = [f \in Flow |-> IF f \in sessions THEN "none" ELSE pump[f]]
  /\ UNCHANGED <<plainVars, sid, muxStop>>

MuxNext == \/ StopMux \/ TakeFlow \/ OpenFlow \/ InsertFlow \/ EndMux
           \/ \E f \in Flow : PumpLeaves(f) \/ PumpRemoves(f)

ServerUdpNext == PlainNext \/ MuxNext
ServerUdpSpec == ServerUdpInit /\ [][ServerUdpNext]_serverUdpVars

-----------------------------------------------------------------------------
(* Properties.                                                             *)

\* However fast a reply is, it finds its target on the list of the outlet the packet left by:
\* the last MAX_SENT_TARGETS that were sent to within the idle time, the one in hand
\* included, are there.
InHand(o, t) == uplink = "send" /\ packet = [to |-> t, out |-> o]
SentSince(o, t) == {x \in Target \ {t} : wentOut[o][x] > wentOut[o][t] \/ InHand(o, x)}
ReplyExpected ==
  \A o \in Outlet, t \in Target :
    wentOut[o][t] # Never /\ ~Idle(wentOut[o][t]) /\ Cardinality(SentSince(o, t)) < MaxSentTargets
      => Admitted(o, t)

\* A flow in the table has a pump, or is about to lose its place: a dead one does not count
\* against the limit and swallow what is sent to it.
FlowServed == ~muxStop => \A f \in sessions : pump[f] # "none"

\* What comes back is let through and what is sent has somebody to take it, in plain and in
\* multiplexed sessions.
UdpServed == ReplyExpected /\ FlowServed
=============================================================================
