-------------------------- MODULE ServerHandshake --------------------------
(***************************************************************************)
(* Connections to the server until they are authenticated, or reflected to *)
(* the camouflage site and gone: the places they take on the way, and the  *)
(* connection to the site that is made for them in advance                 *)
(* (src/src/proxy/mirage_server/: mod.rs, handshake.rs, camouflage.rs).    *)
(*                                                                         *)
(* Whether a complete ClientHello is a client's is open here: the token is *)
(* judged by ReplayCache, the user by UserSessions and UserQuota.          *)
(***************************************************************************)
EXTENDS Integers, FiniteSets

CONSTANTS
  Conn,           \* connections at a time
  Source, source, \* addresses, after rate_limit_key, and the one each connection comes from
  MaxConns,       \* permits of CONN_SEM
  PerIp,          \* max_conns_per_ip
  MaxUnauth,      \* reflections at a time, and of one address
  MaxUnauthIp,
  RateMax,        \* UNAUTH_RATE_MAX
  MaxPreconnect   \* PRECONNECT_MAX_INFLIGHT

ASSUME HandshakeAssumption ==
  /\ IsFiniteSet(Conn) /\ source \in [Conn -> Source]
  /\ {MaxConns, PerIp, MaxUnauth, MaxUnauthIp, RateMax, MaxPreconnect} \subseteq Nat \ {0}

VARIABLES
  pc,             \* where the task of each connection stands
  hello,          \* what was read
  sock, tries,    \* a preconnected socket in hand, and attempts to forward
  pre, chan,      \* its Preconnect: the task, and the channel to the connection
  per_ip, permits,              \* CONN_PER_IP and CONN_SEM
  unauth, unauth_ip, rate,      \* GLOBAL_UNAUTH, UNAUTH_CONNS, UNAUTH_RATE
  inflight                      \* PRECONNECT_INFLIGHT

vars == <<pc, hello, sock, tries, pre, chan, per_ip, permits, unauth, unauth_ip, rate,
          inflight>>
preconnect == <<pre, chan, inflight>>
read == <<hello, sock, tries>>
places == <<per_ip, permits>>
reflections == <<unauth, unauth_ip>>

Init ==
  /\ pc = [c \in Conn |-> "off"]
  /\ hello = [c \in Conn |-> "empty"]
  /\ sock = [c \in Conn |-> FALSE] /\ tries = [c \in Conn |-> 0]
  /\ pre = [c \in Conn |-> "none"] /\ chan = [c \in Conn |-> "dropped"]
  /\ per_ip = [a \in Source |-> 0] /\ permits = 0
  /\ unauth = 0 /\ unauth_ip = [a \in Source |-> 0] /\ rate = [a \in Source |-> 0]
  /\ inflight = 0

Goto(c, label) == pc' = [pc EXCEPT ![c] = label]
Add(counts, a, n) == [counts EXCEPT ![a] = @ + n]

-----------------------------------------------------------------------------
(* The accept loop.                                                        *)

\* try_acquire_ip_slot; an address that is blocked or has its share of places is turned away.
Accept(c) ==
  /\ pc[c] = "off" /\ pre[c] = "none"
  /\ \A d \in Conn : pc[d] # "accepting"
  /\ per_ip[source[c]] < PerIp
  /\ per_ip' = Add(per_ip, source[c], 1)
  /\ Goto(c, "accepting")
  /\ UNCHANGED <<read, preconnect, permits, reflections, rate>>

\* try_accept_slot.  With it the task of the connection begins and arms its Preconnect; without
\* it the place of the address is given back.
Admit(c) ==
  /\ pc[c] = "accepting"
  /\ \/ /\ permits < MaxConns /\ permits' = permits + 1
        /\ Goto(c, "reading")
        /\ pre' = [pre EXCEPT ![c] = "sleep"] /\ chan' = [chan EXCEPT ![c] = "open"]
        /\ UNCHANGED per_ip
     \/ /\ permits = MaxConns
        /\ per_ip' = Add(per_ip, source[c], -1)
        /\ Goto(c, "off")
        /\ UNCHANGED <<permits, pre, chan>>
  /\ UNCHANGED <<read, inflight, reflections, rate>>

-----------------------------------------------------------------------------
(* Preconnect: a task that connects to the site in advance.                *)

\* The delay is over.
PreFire(c) ==
  /\ pre[c] = "sleep"
  /\ pre' = [pre EXCEPT ![c] = "permit"]
  /\ UNCHANGED <<pc, read, chan, inflight, places, reflections, rate>>

\* preconnect_permit waits for one until its budget is spent.
PrePermit(c) ==
  /\ pre[c] = "permit"
  /\ \/ /\ inflight < MaxPreconnect /\ inflight' = inflight + 1
        /\ pre' = [pre EXCEPT ![c] = "connect"]
        /\ UNCHANGED chan
     \/ /\ inflight = MaxPreconnect
        /\ pre' = [pre EXCEPT ![c] = "none"]
        /\ chan' = [chan EXCEPT ![c] = IF @ = "open" THEN "closed" ELSE @]
        /\ UNCHANGED inflight
  /\ UNCHANGED <<pc, read, places, reflections, rate>>

\* connect_camouflage succeeds or fails; what is sent into a dropped channel is closed.
PreConnect(c) ==
  /\ pre[c] = "connect"
  /\ \E result \in {"socket", "closed"} :
       chan' = [chan EXCEPT ![c] = IF @ = "open" THEN result ELSE @]
  /\ pre' = [pre EXCEPT ![c] = "none"]
  /\ inflight' = inflight - 1
  /\ UNCHANGED <<pc, read, places, reflections, rate>>

\* Mutant: the task is not aborted.
DropPreconnectOnly(c) == chan' = [chan EXCEPT ![c] = "dropped"] /\ UNCHANGED pre

\* Drop: the task is aborted, and the channel with the socket in it dropped.
DropPreconnect(c) ==
  /\ chan' = [chan EXCEPT ![c] = "dropped"]
  /\ pre' = [pre EXCEPT ![c] = CASE @ \in {"sleep", "permit"} -> "aborted"
                                 [] @ = "connect" -> "abortedHolding"
                                 [] OTHER -> @]

\* The runtime drops the task that was aborted, and the permit with it.
PreAbort(c) ==
  /\ pre[c] \in {"aborted", "abortedHolding"}
  /\ inflight' = IF pre[c] = "abortedHolding" THEN inflight - 1 ELSE inflight
  /\ pre' = [pre EXCEPT ![c] = "none"]
  /\ UNCHANGED <<pc, read, chan, places, reflections, rate>>

-----------------------------------------------------------------------------
(* read_client_hello                                                       *)

Reads(c, what, label) ==
  /\ pc[c] = "reading"
  /\ hello' = [hello EXCEPT ![c] = what]
  /\ Goto(c, label)
  /\ UNCHANGED <<sock, tries, preconnect, places, reflections, rate>>

\* Some bytes of a record, one that is not a handshake's or has no valid length, or all of it.
Receive(c) == hello[c] = "empty" /\ Reads(c, "bytes", "reading")
Malformed(c) == Reads(c, "bytes", "fallback")
Complete(c) == \E label \in {"authed", "failed"} : Reads(c, "bytes", label)

Eof(c) == Reads(c, hello[c], IF hello[c] = "empty" THEN "return" ELSE "fallback")

\* Nothing came for judge_silence, or not everything by hard_deadline.
Silence(c) == Reads(c, hello[c], "fallback")

-----------------------------------------------------------------------------
(* run_handshake, with what was read                                       *)

\* take_socket waits for the task, which may not make it in time and goes on.
TakeSocket(c) ==
  /\ pc[c] = "fallback"
  /\ sock' = [sock EXCEPT ![c] = chan[c] = "socket"]
  /\ chan' = [chan EXCEPT ![c] = "dropped"]
  /\ Goto(c, "reflect")
  /\ UNCHANGED <<hello, tries, pre, inflight, places, reflections, rate>>

\* take_ready_socket does not wait; without a socket the task is aborted.
TakeReadySocket(c) ==
  /\ pc[c] = "failed"
  /\ sock' = [sock EXCEPT ![c] = chan[c] = "socket"]
  /\ DropPreconnect(c)
  /\ Goto(c, "reflect")
  /\ UNCHANGED <<hello, tries, inflight, places, reflections, rate>>

\* What was read is not needed any more.
DropRead(c) ==
  /\ hello' = [hello EXCEPT ![c] = "empty"]
  /\ sock' = [sock EXCEPT ![c] = FALSE] /\ tries' = [tries EXCEPT ![c] = 0]

Authenticated(c) ==
  /\ pc[c] = "authed"
  /\ DropPreconnect(c) /\ DropRead(c)
  /\ Goto(c, "tail")
  /\ UNCHANGED <<inflight, places, reflections, rate>>

\* The ServerHello is written and the client's tail read, within five seconds.  The connection
\* of a client gives the place of its address back.
ConsumeTail(c) ==
  /\ pc[c] = "tail"
  /\ \/ /\ per_ip' = Add(per_ip, source[c], -1)
        /\ Goto(c, "session")
     \/ /\ Goto(c, "leave")
        /\ UNCHANGED per_ip
  /\ UNCHANGED <<read, preconnect, permits, reflections, rate>>

\* dispatch_authenticated returns.
SessionEnds(c) ==
  /\ pc[c] = "session"
  /\ Goto(c, "end")
  /\ UNCHANGED <<read, preconnect, places, reflections, rate>>

\* run_handshake returns without a client, and drops what is left of its Preconnect.
Return(c) ==
  /\ pc[c] = "return"
  /\ DropPreconnect(c) /\ DropRead(c)
  /\ Goto(c, "leave")
  /\ UNCHANGED <<inflight, places, reflections, rate>>

\* ConnIpGuard
Leave(c) ==
  /\ pc[c] = "leave"
  /\ per_ip' = Add(per_ip, source[c], -1)
  /\ Goto(c, "end")
  /\ UNCHANGED <<read, preconnect, permits, reflections, rate>>

\* The permit of CONN_SEM
End(c) ==
  /\ pc[c] = "end"
  /\ permits' = permits - 1
  /\ Goto(c, "off")
  /\ UNCHANGED <<read, preconnect, per_ip, reflections, rate>>

-----------------------------------------------------------------------------
(* reflect_to_camouflage                                                   *)

TooMany(before) == before >= MaxUnauth

\* fetch_add comes before the test of what it returns.
Reflect(c) ==
  /\ pc[c] = "reflect"
  /\ unauth' = unauth + 1
  /\ Goto(c, IF TooMany(unauth) THEN "undo" ELSE "rate")
  /\ UNCHANGED <<read, preconnect, places, unauth_ip, rate>>

\* unauth_reflect_rate_exceeded
Rate(c) ==
  LET n == rate[source[c]] IN
  /\ pc[c] = "rate"
  /\ rate' = [rate EXCEPT ![source[c]] = IF n < RateMax THEN n + 1 ELSE n]
  /\ Goto(c, IF n >= RateMax THEN "undo" ELSE "slot")
  /\ UNCHANGED <<read, preconnect, places, reflections>>

\* The window is over, or the entry was evicted by that of another address.
WindowEnds(a) ==
  /\ rate[a] # 0
  /\ rate' = [rate EXCEPT ![a] = 0]
  /\ UNCHANGED <<pc, read, preconnect, places, reflections>>

\* Mutant: the way out of an address with too many reflections leaves the global count.
SlotForgets(c) ==
  LET a == source[c] IN
  /\ pc[c] = "slot"
  /\ \/ /\ unauth_ip[a] < MaxUnauthIp
        /\ unauth_ip' = Add(unauth_ip, a, 1)
        /\ Goto(c, "forward")
     \/ /\ unauth_ip[a] >= MaxUnauthIp
        /\ Goto(c, "return")
        /\ UNCHANGED unauth_ip
  /\ UNCHANGED <<read, preconnect, places, unauth, rate>>

Slot(c) ==
  LET a == source[c] IN
  /\ pc[c] = "slot"
  /\ \/ /\ unauth_ip[a] < MaxUnauthIp
        /\ unauth_ip' = Add(unauth_ip, a, 1)
        /\ Goto(c, "forward")
     \/ /\ unauth_ip[a] >= MaxUnauthIp
        /\ Goto(c, "undo")
        /\ UNCHANGED unauth_ip
  /\ UNCHANGED <<read, preconnect, places, unauth, rate>>

Undo(c) ==
  /\ pc[c] = "undo"
  /\ unauth' = unauth - 1
  /\ Goto(c, "return")
  /\ UNCHANGED <<read, preconnect, places, unauth_ip, rate>>

\* IpSlotGuard is dropped: the global count first.
DropGlobal(c) ==
  /\ pc[c] = "done"
  /\ unauth' = unauth - 1
  /\ Goto(c, "dropped")
  /\ UNCHANGED <<read, preconnect, places, unauth_ip, rate>>

DropSource(c) ==
  /\ pc[c] = "dropped"
  /\ unauth_ip' = Add(unauth_ip, source[c], -1)
  /\ Goto(c, "return")
  /\ UNCHANGED <<read, preconnect, places, unauth, rate>>

-----------------------------------------------------------------------------
(* run_camouflage_forward                                                  *)

Forwarding(c, label) ==
  /\ Goto(c, label)
  /\ UNCHANGED <<hello, preconnect, places, reflections, rate>>

\* The socket in hand comes first, then connections made on demand.
Connect(c) ==
  /\ pc[c] = "forward"
  /\ \/ Forwarding(c, "write")
     \/ ~sock[c] /\ Forwarding(c, "template")
  /\ sock' = [sock EXCEPT ![c] = FALSE]
  /\ UNCHANGED tries

\* An attempt that fails is made once more.
Again(c) ==
  /\ tries' = [tries EXCEPT ![c] = @ + 1]
  /\ Forwarding(c, IF tries[c] = 1 THEN "template" ELSE "forward")

\* What the client has sent goes to the site, which has nothing to answer to an empty hello.
Write(c) ==
  /\ pc[c] = "write"
  /\ \/ Forwarding(c, IF hello[c] = "empty" THEN "copy" ELSE "first") /\ UNCHANGED tries
     \/ Again(c)
  /\ UNCHANGED sock

\* The first bytes come back, or the site closes.  The client may have gone.
FirstBytes(c) ==
  /\ pc[c] = "first"
  /\ \/ \E label \in {"copy", "done"} : Forwarding(c, label) /\ UNCHANGED tries
     \/ Again(c)
  /\ UNCHANGED sock

\* copy_bidirectional, for five minutes at most
Copied(c) == pc[c] = "copy" /\ Forwarding(c, "done") /\ UNCHANGED <<sock, tries>>

\* A ServerHello from the template, where the client speaks TLS.
Template(c) == pc[c] = "template" /\ Forwarding(c, "done") /\ UNCHANGED <<sock, tries>>

-----------------------------------------------------------------------------
Read(c) == Receive(c) \/ Malformed(c) \/ Complete(c) \/ Eof(c) \/ Silence(c)
Handshake(c) ==
  \/ TakeSocket(c) \/ TakeReadySocket(c) \/ Authenticated(c) \/ ConsumeTail(c)
  \/ SessionEnds(c) \/ Return(c) \/ Leave(c) \/ End(c)
Reflection(c) ==
  \/ Reflect(c) \/ Rate(c) \/ Slot(c) \/ Undo(c) \/ DropGlobal(c) \/ DropSource(c)
Forward(c) == Connect(c) \/ Write(c) \/ FirstBytes(c) \/ Copied(c) \/ Template(c)
PreStep(c) == PreFire(c) \/ PrePermit(c) \/ PreConnect(c) \/ PreAbort(c)

Next ==
  \/ \E c \in Conn : Accept(c) \/ Admit(c) \/ PreStep(c)
  \/ \E c \in Conn : Read(c) \/ Handshake(c) \/ Reflection(c) \/ Forward(c)
  \/ \E a \in Source : WindowEnds(a)

Spec == Init /\ [][Next]_vars

-----------------------------------------------------------------------------
Label == {"off", "accepting", "reading", "fallback", "failed", "authed", "tail", "session",
          "return", "leave", "end", "reflect", "rate", "slot", "undo", "forward", "write",
          "first", "copy", "template", "done", "dropped"}

\* The types of the variables.
TypeOK ==
  /\ pc \in [Conn -> Label]
  /\ hello \in [Conn -> {"empty", "bytes"}]
  /\ sock \in [Conn -> BOOLEAN] /\ tries \in [Conn -> 0 .. 2]
  /\ pre \in [Conn -> {"none", "sleep", "permit", "connect", "aborted", "abortedHolding"}]
  /\ chan \in [Conn -> {"open", "socket", "closed", "dropped"}]
  /\ per_ip \in [Source -> Nat] /\ permits \in Nat
  /\ unauth \in Nat /\ unauth_ip \in [Source -> Nat] /\ rate \in [Source -> Nat]
  /\ inflight \in Nat

Past == {"forward", "write", "first", "copy", "template", "done"}
At(labels) == {c \in Conn : pc[c] \in labels}
From(a, cs) == {c \in cs : source[c] = a}
Unjudged == At(Label \ {"off", "session", "end"})

\* Every count is that of the connections that hold a place in it, on each of the ways out:
\* turned away, judged, authenticated, refused by one of three limits, forwarded, or failed.
PlacesExact ==
  /\ permits = Cardinality(At(Label \ {"off", "accepting"}))
  /\ unauth = Cardinality(At(Past \cup {"rate", "slot", "undo"}))
  /\ \A a \in Source :
       /\ per_ip[a] = Cardinality(From(a, Unjudged))
       /\ unauth_ip[a] = Cardinality(From(a, At(Past \cup {"dropped"})))
  /\ inflight = Cardinality({c \in Conn : pre[c] \in {"connect", "abortedHolding"}})

\* Reflections stay within their limits although each is counted before it is tested.
LimitsKept ==
  /\ Cardinality(At(Past \cup {"rate", "slot"})) <= MaxUnauth
  /\ \A a \in Source : Cardinality(From(a, At(Past))) <= MaxUnauthIp

\* No connection to the site is begun for a client that has been recognised or is gone.
NoLateConnect ==
  [][\A c \in Conn : pre[c] # "connect" /\ pre'[c] = "connect"
       => pc[c] \notin {"off", "tail", "session", "leave", "end"}]_vars
=============================================================================
