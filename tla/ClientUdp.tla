------------------------------ MODULE ClientUdp ------------------------------
(***************************************************************************)
(* UDP flows of the transparent client (src/src/proxy/transparent_udp.rs)  *)
(* and the tunnels that many of them share (src/src/proxy/udp_mux.rs).     *)
(*                                                                         *)
(* The main loop hands each datagram to the flow of its pair of addresses, *)
(* or starts a task that sets one up.  A task ends with a chain of guards, *)
(* each under a lock of its own: other tasks run between two of them.      *)
(*                                                                         *)
(* Kinds of flow: "hijack" answers a DNS query at once, "direct" has a     *)
(* socket (plain or in WireGuard), "own" a Mirage tunnel of its own, "mux" *)
(* a number in a shared tunnel.  The pairs are those of one slot of one    *)
(* MuxSet.  Time is in units of which FirstWindow is the first-downlink    *)
(* window and Idle the idle timeout.                                       *)
(***************************************************************************)
EXTENDS Naturals, FiniteSets

CONSTANTS
  Pair,         \* (client, orig_dst)
  DestOf,       \* the orig_dst of each pair
  Tasks,        \* bound: tasks at a time, numbered
  Tunnels,      \* bound: shared tunnels that anyone still holds, numbered
  Kinds,        \* the kinds of flow that the routes lead to
  MaxFlows, MaxMirageFlows, MaxSids, FirstWindow, Idle

ASSUME UdpAssumption ==
  /\ DestOf \in [Pair -> STRING]
  /\ {Tasks, Tunnels, MaxFlows, MaxMirageFlows, MaxSids, FirstWindow, Idle} \subseteq Nat \ {0}

Task == 1 .. Tasks
Shared == 1 .. Tunnels
Nobody == 0
Setting == Tasks + 1  \* the place of a flow that is being set up

VARIABLES
  sessions,   \* the flow of each pair: its task, Setting, or Nobody
  refs,       \* users of the reply socket of each orig_dst
  permits,    \* MIRAGE_UDP_FLOWS
  mux,        \* the slot: the tunnel in it and the task that holds its lock
  shared,     \* each shared tunnel: used, alive, its two pumps and its numbers
  flow        \* each task

clientUdpVars == <<sessions, refs, permits, mux, shared, flow>>

NoPair == CHOOSE p \in Pair : TRUE
\* Of a "mux" flow clock runs from its start and quiet from the last wait for the client;
\* of others clock runs from the last downlink and quiet from the last uplink.
NoTask == [pc |-> "none", pair |-> NoPair, kind |-> "none", tunnel |-> Nobody,
           reply |-> FALSE, permit |-> FALSE, committed |-> FALSE, pending |-> FALSE,
           got |-> FALSE, clock |-> 0, quiet |-> 0, limit |-> 0]
NoTunnel == [used |-> FALSE, alive |-> FALSE, writer |-> FALSE, demux |-> FALSE, sids |-> {}]

ClientUdpInit ==
  /\ sessions = [p \in Pair |-> Nobody]
  /\ refs = [p \in Pair |-> 0]  \* counted at a pair of each orig_dst
  /\ permits = 0
  /\ mux = [tunnel |-> Nobody, lock |-> Nobody]
  /\ shared = [t \in Shared |-> NoTunnel]
  /\ flow = [w \in Task |-> NoTask]

Smallest(S) == CHOOSE x \in S : \A y \in S : x <= y
Reply(p) == CHOOSE r \in Pair : DestOf[r] = DestOf[p]
Moved(w, pc) == [flow EXCEPT ![w].pc = pc]
\* The task goes on to its guards, which look at neither timers nor datagrams.
Ended(w) == [flow EXCEPT ![w] = [@ EXCEPT !.pc = "release", !.pending = FALSE, !.got = FALSE,
                                          !.clock = 0, !.quiet = 0, !.limit = 0]]
At(w, pc) == flow[w].pc = pc
Is(w, kind) == flow[w].kind = kind

-----------------------------------------------------------------------------
(* start_transparent_udp: one datagram of p.                               *)

Live(p) == sessions[p] \in Task

\* try_send: lost if the channel is full or closed already.
Pass(p) ==
  /\ Live(p)
  /\ flow' = [flow EXCEPT ![sessions[p]].pending = At(sessions[p], "run")]
  /\ UNCHANGED <<sessions, refs, permits, mux, shared>>

Places == Cardinality({p \in Pair : sessions[p] # Nobody})

StartFlow(p) ==
  /\ sessions[p] = Nobody /\ Places < MaxFlows
  /\ \E k \in Kinds, w \in Task :
       /\ At(w, "none") /\ w = Smallest({x \in Task : At(x, "none")})
       /\ flow' = [flow EXCEPT ![w] = [NoTask EXCEPT !.pc = "setup", !.pair = p, !.kind = k]]
  /\ sessions' = [sessions EXCEPT ![p] = Setting]
  /\ UNCHANGED <<refs, permits, mux, shared>>

-----------------------------------------------------------------------------
(* setup_flow, up to the flow's place in the table.                        *)

\* No answer, no route, a name without an address, no socket, no tunnel.
GiveUp(w) ==
  /\ \/ At(w, "setup")
     \/ At(w, "dial")
     \/ At(w, "acquire") /\ refs[Reply(flow[w].pair)] = 0
  /\ flow' = Ended(w)
  /\ UNCHANGED <<sessions, refs, permits, mux, shared>>

\* The answer or the address is there and the socket is bound.
Resolved(w) ==
  /\ At(w, "setup") /\ flow[w].kind \in {"hijack", "direct"}
  /\ flow' = Moved(w, "acquire")
  /\ UNCHANGED <<sessions, refs, permits, mux, shared>>

\* MirageUdpPermit::try_acquire: counted first, and taken back when there are too many.
TakePermit(w) ==
  /\ At(w, "setup") /\ Is(w, "own")
  /\ permits' = permits + 1
  /\ flow' = IF permits >= MaxMirageFlows THEN Moved(w, "refuse")
             ELSE [flow EXCEPT ![w].pc = "dial", ![w].permit = TRUE]
  /\ UNCHANGED <<sessions, refs, mux, shared>>

Refuse(w) ==
  /\ At(w, "refuse")
  /\ permits' = permits - 1
  /\ flow' = Ended(w)
  /\ UNCHANGED <<sessions, refs, mux, shared>>

OwnTunnel(w) ==
  /\ At(w, "dial") /\ Is(w, "own")
  /\ flow' = Moved(w, "acquire")
  /\ UNCHANGED <<sessions, refs, permits, mux, shared>>

SlotFree == mux.lock = Nobody

Alive == mux.tunnel # Nobody /\ shared[mux.tunnel].alive

\* MuxSet::get: the tunnel in the slot, or the lock is kept to create one.
GetShared(w) ==
  /\ At(w, "setup") /\ Is(w, "mux") /\ SlotFree
  /\ IF Alive
     THEN /\ flow' = [flow EXCEPT ![w].pc = "acquire", ![w].tunnel = mux.tunnel]
          /\ UNCHANGED mux
     ELSE /\ mux' = [mux EXCEPT !.lock = w]
          /\ flow' = Moved(w, "create")
  /\ UNCHANGED <<sessions, refs, permits, shared>>

CreateShared(w) ==
  /\ At(w, "create")
  /\ \/ \E t \in Shared :
            /\ ~shared[t].used /\ t = Smallest({x \in Shared : ~shared[x].used})
            /\ shared' = [shared EXCEPT ![t] = [used |-> TRUE, alive |-> TRUE,
                             writer |-> TRUE, demux |-> TRUE, sids |-> {}]]
            /\ mux' = [tunnel |-> t, lock |-> Nobody]
            /\ flow' = [flow EXCEPT ![w].pc = "acquire", ![w].tunnel = t]
     \/ /\ mux' = [mux EXCEPT !.lock = Nobody]
        /\ flow' = Ended(w)
        /\ UNCHANGED shared
  /\ UNCHANGED <<sessions, refs, permits>>

\* acquire_reply
AcquireReply(w) ==
  /\ At(w, "acquire")
  /\ refs' = [refs EXCEPT ![Reply(flow[w].pair)] = @ + 1]
  /\ flow' = [flow EXCEPT ![w].reply = TRUE,
                          ![w].pc = IF Is(w, "hijack") THEN "release"
                                    ELSE IF Is(w, "mux") THEN "register" ELSE "insert"]
  /\ UNCHANGED <<sessions, permits, mux, shared>>

\* try_register: no place for one more number in the tunnel ends the flow.
Register(w) ==
  /\ At(w, "register")
  /\ LET t == flow[w].tunnel IN
       IF Cardinality(shared[t].sids) >= MaxSids
       THEN flow' = Ended(w) /\ UNCHANGED shared
       ELSE /\ shared' = [shared EXCEPT ![t].sids = @ \cup {w}]
            /\ flow' = Moved(w, "insert")
  /\ UNCHANGED <<sessions, refs, permits, mux>>

\* How long a mux flow waits for the client, decided before it waits.
Wait(got, clock) ==
  IF got THEN Idle ELSE IF clock < FirstWindow THEN FirstWindow - clock ELSE 0

Insert(w) ==
  /\ At(w, "insert")
  /\ sessions' = [sessions EXCEPT ![flow[w].pair] = w]
  /\ flow' = [flow EXCEPT ![w].pc = "run", ![w].committed = TRUE,
                          ![w].pending = ~Is(w, "direct"),
                          ![w].limit = IF Is(w, "mux") THEN Wait(flow[w].got, 0) ELSE Idle]
  /\ UNCHANGED <<refs, permits, mux, shared>>

-----------------------------------------------------------------------------
(* A flow that runs.                                                       *)

\* The uplink of a mux flow: a batch into the shared tunnel, and the next wait.
MuxSend(w) ==
  /\ At(w, "run") /\ Is(w, "mux") /\ flow[w].pending
  /\ LET to == Wait(flow[w].got, flow[w].clock) IN
       flow' = IF shared[flow[w].tunnel].writer /\ to > 0
               THEN [flow EXCEPT ![w].pending = FALSE, ![w].quiet = 0, ![w].limit = to]
               ELSE Ended(w)
  /\ UNCHANGED <<sessions, refs, permits, mux, shared>>

OwnSend(w) ==
  /\ At(w, "run") /\ Is(w, "own") /\ flow[w].pending
  /\ \/ flow' = [flow EXCEPT ![w].pending = FALSE, ![w].quiet = 0]
     \/ flow' = Ended(w)
  /\ UNCHANGED <<sessions, refs, permits, mux, shared>>

\* The shared tunnel's demux pump has a datagram for the flow's number.
MuxReceive(w) ==
  /\ \E t \in Shared : w \in shared[t].sids /\ shared[t].demux
  /\ flow[w].pc \in {"insert", "run"} /\ ~flow[w].got
  /\ flow' = [flow EXCEPT ![w].got = TRUE]
  /\ UNCHANGED <<sessions, refs, permits, mux, shared>>

Receive(w) ==
  /\ At(w, "run") /\ flow[w].kind \in {"direct", "own"}
  /\ flow' = [flow EXCEPT ![w].got = TRUE, ![w].clock = 0]
  /\ UNCHANGED <<sessions, refs, permits, mux, shared>>

\* No answer within the first window, or nothing for the idle timeout.
Silent(w) ==
  CASE Is(w, "mux") -> FALSE
    [] Is(w, "direct") -> flow[w].clock >= Idle
    [] OTHER -> flow[w].clock >= (IF flow[w].got THEN Idle ELSE FirstWindow)

\* The client has sent nothing for as long as the flow has decided to wait.
Unused(w) == ~Is(w, "direct") /\ ~flow[w].pending /\ flow[w].quiet >= flow[w].limit

Expire(w) ==
  /\ At(w, "run") /\ (Silent(w) \/ Unused(w))
  /\ flow' = Ended(w)
  /\ UNCHANGED <<sessions, refs, permits, mux, shared>>

\* The tunnel or the socket of a flow breaks.
Broken(w) ==
  /\ At(w, "run") /\ flow[w].kind \in {"direct", "own"}
  /\ flow' = Ended(w)
  /\ UNCHANGED <<sessions, refs, permits, mux, shared>>

-----------------------------------------------------------------------------
(* The guards, innermost first.                                            *)

\* SidGuard or MirageUdpPermit, if the task has one.
Release(w) ==
  /\ At(w, "release")
  /\ shared' = [t \in Shared |-> [shared[t] EXCEPT !.sids = @ \ {w}]]
  /\ permits' = IF flow[w].permit THEN permits - 1 ELSE permits
  /\ flow' = [flow EXCEPT ![w].pc = "slot", ![w].permit = FALSE, ![w].tunnel = Nobody]
  /\ UNCHANGED <<sessions, refs, mux>>

\* Mutant: only a flow that was in the table leaves it.
MineCommitted(w) == flow[w].committed /\ sessions[flow[w].pair] = w

\* FlowGuard: the place is this task's, not one that was taken since.
Mine(w) == sessions[flow[w].pair] = IF flow[w].committed THEN w ELSE Setting

LeaveTable(w) ==
  /\ At(w, "slot")
  /\ sessions' = IF Mine(w) THEN [sessions EXCEPT ![flow[w].pair] = Nobody] ELSE sessions
  /\ flow' = Moved(w, "refs")
  /\ UNCHANGED <<refs, permits, mux, shared>>

\* The socket is given back by who has acquired it, committed or not.
GivesBack(w) == flow[w].reply

ReturnReply(w) ==
  /\ At(w, "refs")
  /\ refs' = IF GivesBack(w) THEN [refs EXCEPT ![Reply(flow[w].pair)] = @ - 1] ELSE refs
  /\ flow' = [flow EXCEPT ![w] = NoTask]
  /\ UNCHANGED <<sessions, permits, mux, shared>>

-----------------------------------------------------------------------------
(* The shared tunnels and time.                                            *)

\* A write fails, or nothing was read for the idle timeout: either pump marks the tunnel.
WriterEnds(t) ==
  /\ shared[t].used /\ shared[t].writer
  /\ shared' = [shared EXCEPT ![t].writer = FALSE, ![t].alive = FALSE]
  /\ UNCHANGED <<sessions, refs, permits, mux, flow>>

DemuxEnds(t) ==
  /\ shared[t].used /\ shared[t].demux
  /\ shared' = [shared EXCEPT ![t].demux = FALSE, ![t].alive = FALSE]
  /\ UNCHANGED <<sessions, refs, permits, mux, flow>>

\* The last Arc of a tunnel is dropped.
DropShared(t) ==
  /\ shared[t].used /\ mux.tunnel # t
  /\ \A w \in Task : flow[w].tunnel # t
  /\ shared' = [shared EXCEPT ![t] = NoTunnel]
  /\ UNCHANGED <<sessions, refs, permits, mux, flow>>

\* A task that has something to send, or whose timer is due, runs before more time passes:
\* the queue of a shared tunnel has room.
UdpTick ==
  /\ \E w \in Task : At(w, "run")
  /\ \A w \in Task : At(w, "run") => ~flow[w].pending /\ ~Silent(w) /\ ~Unused(w)
  /\ flow' = [w \in Task |->
       IF ~At(w, "run") THEN flow[w]
       ELSE [flow[w] EXCEPT
               !.clock = IF @ > FirstWindow /\ Is(w, "mux") THEN @ ELSE @ + 1,
               !.quiet = IF Is(w, "direct") \/ @ >= flow[w].limit THEN @ ELSE @ + 1]]
  /\ UNCHANGED <<sessions, refs, permits, mux, shared>>

Setup(w) == \/ GiveUp(w) \/ Resolved(w) \/ TakePermit(w) \/ Refuse(w) \/ OwnTunnel(w)
            \/ GetShared(w) \/ CreateShared(w) \/ AcquireReply(w) \/ Register(w) \/ Insert(w)
Work(w) == MuxSend(w) \/ OwnSend(w) \/ MuxReceive(w) \/ Receive(w) \/ Expire(w) \/ Broken(w)
Teardown(w) == Release(w) \/ LeaveTable(w) \/ ReturnReply(w)

ClientUdpNext ==
  \/ \E p \in Pair : Pass(p) \/ StartFlow(p)
  \/ \E w \in Task : Setup(w) \/ Work(w) \/ Teardown(w)
  \/ \E t \in Shared : WriterEnds(t) \/ DemuxEnds(t) \/ DropShared(t)
  \/ UdpTick

ClientUdpSpec == ClientUdpInit /\ [][ClientUdpNext]_clientUdpVars

-----------------------------------------------------------------------------
(* Properties.                                                             *)

Busy == {w \in Task : ~At(w, "none")}
Preparing == {"setup", "refuse", "dial", "create", "acquire", "register", "insert"}

\* A place in the table always has a task behind it: a pair is never stuck in Setting, where
\* its datagrams would be dropped for ever, nor left with a flow that has ended.
NoBlackHole ==
  \A p \in Pair :
    /\ sessions[p] = Setting =>
         \E w \in Busy : /\ flow[w].pair = p /\ ~flow[w].committed
                         /\ flow[w].pc \in Preparing \cup {"release", "slot"}
    /\ Live(p) => /\ sessions[p] \in Busy /\ flow[sessions[p]].pair = p
                  /\ flow[sessions[p]].pc \in {"run", "release", "slot"}

\* The reply sockets, the permits and the numbers in tunnels are held by tasks that are
\* there, each once: whichever way set-ups fail and flows end, nothing leaks and nothing is
\* given back twice, so that a socket is never closed under a flow and the limit is never
\* used up by nobody.
Accounted ==
  /\ \A r \in Pair : refs[r] = Cardinality({w \in Busy : flow[w].reply /\ Reply(flow[w].pair) = r})
  /\ permits = Cardinality({w \in Busy : flow[w].permit \/ At(w, "refuse")})
  /\ Cardinality({w \in Busy : flow[w].permit}) <= MaxMirageFlows
  /\ \A t \in Shared : \A w \in shared[t].sids : w \in Busy /\ flow[w].tunnel = t

\* Neither a place in the table nor anything a flow holds outlives it.
FlowsExact == NoBlackHole /\ Accounted

\* What the comments of MUX_FIRST_DOWNLINK and of the uplink loop say: after any downlink the
\* idle timeout holds, so that a flow with an answer is not ended before its client was
\* silent for that long.  The code decides how long it waits before the answer is there.
IdleAfterDownlink ==
  \A w \in Task : At(w, "run") /\ Is(w, "mux") /\ flow[w].got /\ Unused(w)
                  => flow[w].quiet >= Idle
=============================================================================
