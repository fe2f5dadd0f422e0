----------------------------- MODULE ClientConn -----------------------------
(***************************************************************************)
(* One TCP connection of an application through the client, from the       *)
(* inbound that accepts it (src/src/proxy/socks5.rs, mixed.rs,             *)
(* transparent.rs) over the name it is routed by and the outlet it takes   *)
(* (src/src/proxy/handler.rs: proxy_tcp_target) to the two loops that      *)
(* forward it: in a tunnel, in a stream of the shared QUIC connection, by  *)
(* splice(2) (src/src/proxy/splice.rs) or by                               *)
(* copy_bidirectional_with_drain (src/src/proxy/mod.rs).                   *)
(*                                                                         *)
(* "up" is the way from the application to the other side of the outlet,   *)
(* the peer, and "dn" the way back.  Chunks are counted, not looked into.  *)
(***************************************************************************)
EXTENDS Integers

CONSTANTS
  MaxSent,       \* bound: chunks each side sends
  RelayIdle,     \* relay_idle(), DRAIN_IDLE and splice's IDLE_TIMEOUT, in ticks
  DrainIdle, WatchIdle

ASSUME ConnAssumption ==
  /\ {MaxSent.up, MaxSent.dn} \subseteq Nat
  /\ DrainIdle \in 1..RelayIdle /\ WatchIdle \in 1..RelayIdle

Way == {"up", "dn"}
Other(d) == IF d = "up" THEN "dn" ELSE "up"

\* A tunnel over TCP or over another outlet, a QUIC stream; direct, Shadowsocks or WireGuard.
TcpTunnels == {"tcp", "nested"}
Mirage == TcpTunnels \cup {"quic"}
Outlets == Mirage \cup {"direct", "copy"}

VARIABLES
  ask,           \* the inbound, what the application wants to reach, and whether its first
                 \* bytes name a host
  early,         \* bytes of the application were read together with its request
  leg,         \* how far the connection has come
  host, routed,  \* what is dialled, and what the rules are given
  outlet,        \* where the rules lead
  sent, queue,   \* what the sender of a way sent, and what of it is not read yet
  fin,           \* how the sender ended
  passed, seen,  \* what was written to the receiver of a way, and the end it was shown
  at, done,      \* where each loop stands; PeerDone
  quiet, stall,  \* the time since touch, and of drain_wait
  localEof, aborted,
  overread,      \* the upload met the reset of the application while it filled its buffer
  endReason,     \* DownloadEndReason
  praised, blamed   \* what the health record of the node was told

named == <<ask, host, routed>>
took == <<early, outlet>>
sends == <<sent, queue, fin>>
shows == <<passed, seen>>
clocks == <<quiet, stall>>
flags == <<localEof, aborted, overread, endReason>>
record == <<praised, blamed>>
connVars == <<named, took, leg, sends, shows, at, done, clocks, flags, record>>

Forgotten == [inbound |-> "none", dest |-> "none", hello |-> FALSE]

\* mixed::handle_client: the head of a plain HTTP request is read to be sent on; what follows
\* that of a CONNECT may have been read with it.
EarlyBytes(inbound) ==
  CASE inbound = "http" -> {TRUE} [] inbound = "connect" -> BOOLEAN [] OTHER -> {FALSE}

\* dest: a name, an address, or an address of the fake range that the table knows or lost.
ConnInit ==
  /\ ask \in [inbound : {"socks", "http", "connect", "tproxy"},
              dest : {"name", "real", "fake", "lost"}, hello : BOOLEAN]
  /\ ask.inbound = "tproxy" => ask.dest # "name"
  /\ early \in EarlyBytes(ask.inbound)
  /\ leg = "greet" /\ host = "none" /\ routed = {} /\ outlet = "none"
  /\ sent = [up |-> IF early THEN 1 ELSE 0, dn |-> 0] /\ queue = sent
  /\ passed = [d \in Way |-> 0]
  /\ fin = [d \in Way |-> "open"] /\ seen = fin
  /\ at = [d \in Way |-> "off"] /\ done = [d \in Way |-> FALSE]
  /\ quiet = 0 /\ stall = 0
  /\ localEof = FALSE /\ aborted = FALSE /\ overread = FALSE /\ endReason = "none"
  /\ praised = FALSE /\ blamed = 0

-----------------------------------------------------------------------------
(* What is dialled.                                                        *)

\* socks5::handshake, mixed::handle_client and start_transparent: the request is read, or the
\* connection ends here: no or wrong credentials, a request that is none or too long, an
\* association for UDP, a DNS query that is answered, an original destination that is unknown.
Greet ==
  /\ leg = "greet" /\ leg' \in {"name", "gone"}
  /\ UNCHANGED <<named, took, sends, shows, at, done, clocks, flags, record>>

\* start_transparent asks the table, then the first bytes; a fake address without a name is
\* given up.
Intercepted ==
  CASE ask.dest = "fake" -> "name"
    [] ask.dest # "fake" /\ ask.hello -> "heard"
    [] ask.dest = "real" /\ ~ask.hello -> "real"
    [] OTHER -> "nothing"

\* The first bytes are looked at only while they are in the socket, and by one of the two.
Heard == ask.hello /\ ~early /\ ask.inbound # "tproxy"

\* Mutant of DialledHost: the name in the first bytes takes the place of the address
DialledHeardHost ==
  CASE ask.inbound = "tproxy" -> Intercepted
    [] ask.inbound # "tproxy" /\ ask.dest \in {"name", "fake"} -> "name"
    [] ask.inbound # "tproxy" /\ Heard -> "heard"
    [] ask.inbound # "tproxy" /\ ask.dest = "real" -> "real"
    [] OTHER -> "nothing"
\* proxy_tcp_target: the name of a fake address, or the one in the first bytes in its place;
\* an address that the application chose stays.
DialledHost ==
  CASE ask.inbound = "tproxy" -> Intercepted
    [] ask.inbound # "tproxy" /\ ask.dest \in {"name", "fake"} -> "name"
    [] ask.inbound # "tproxy" /\ ask.dest = "real" -> "real"
    [] ask.inbound # "tproxy" /\ ask.dest = "lost" /\ Heard -> "heard"
    [] OTHER -> "nothing"

NameTarget ==
  /\ leg = "name" /\ host' = DialledHost
  /\ leg' = IF DialledHost = "nothing" THEN "gone" ELSE "route"
  /\ routed' = {DialledHost} \cup (IF DialledHost = "real" /\ Heard THEN {"heard"} ELSE {})
  /\ UNCHANGED <<ask, took, sends, shows, at, done, clocks, flags, record>>

\* The router and the groups (Routing, OutboundGroup); "none" is a block, an outbound that is
\* not there, or a group without a living member.
Choose ==
  /\ leg = "route" /\ outlet' \in Outlets \cup {"none"}
  /\ leg' = CASE outlet' = "none" -> "gone" [] outlet' \in TcpTunnels -> "first"
                [] OTHER -> "dial"
  /\ ask' = Forgotten /\ host' = "none" /\ routed' = {}   \* not read any more
  /\ UNCHANGED <<early, sends, shows, at, done, clocks, flags, record>>

-----------------------------------------------------------------------------
(* To the first byte.                                                      *)

Blame == blamed' = blamed + 1 /\ UNCHANGED praised

\* What came with the request goes first.
Begins ==
  /\ leg' = "relay" /\ at' = [d \in Way |-> "wait"]
  /\ queue' = [queue EXCEPT !["up"] = 0] /\ passed' = [passed EXCEPT !["up"] = queue["up"]]
  /\ UNCHANGED record

\* A tunnel of the pool whose first writes fail is dropped for another, once.
Attempt ==
  /\ \/ leg \in {"first", "second"} /\ Begins
     \/ leg = "first" /\ leg' = "second" /\ UNCHANGED <<queue, passed, at, record>>
     \/ leg \in {"first", "second"} /\ leg' = "gone" /\ Blame
        /\ UNCHANGED <<queue, passed, at>>
  /\ UNCHANGED <<named, took, sent, fin, seen, done, clocks, flags>>

\* A stream of the shared connection (QuicMux), or a connection of the outlet's own, which has
\* no record.
Connect ==
  /\ leg = "dial"
  /\ \/ Begins
     \/ /\ leg' = "gone" /\ UNCHANGED <<queue, passed, at>>
        /\ IF outlet = "quic" THEN Blame ELSE UNCHANGED record
  /\ UNCHANGED <<named, took, sent, fin, seen, done, clocks, flags>>

-----------------------------------------------------------------------------
(* The application, the peer and time.                                     *)

SendChunk(d) ==
  /\ leg = "relay" /\ fin[d] = "open" /\ sent[d] < MaxSent[d]
  /\ sent' = [sent EXCEPT ![d] = @ + 1] /\ queue' = [queue EXCEPT ![d] = @ + 1]
  /\ UNCHANGED <<named, took, leg, fin, shows, at, done, clocks, flags, record>>

\* "clean": a FIN, a close_notify or a finished stream.  "broken": a reset, a record that does
\* not open, or the end of a tunnel without a close_notify.  "refused": the server's signal.
Finish(d) ==
  /\ leg = "relay" /\ fin[d] = "open"
  /\ \E end \in {"clean", "broken", "refused"} :
       /\ end = "refused" => d = "dn" /\ outlet \in TcpTunnels /\ sent["dn"] = 0
       /\ fin' = [fin EXCEPT ![d] = end]
  /\ UNCHANGED <<named, took, leg, sent, queue, shows, at, done, clocks, flags, record>>

ConnTick ==
  /\ leg = "relay" /\ quiet < RelayIdle
  /\ quiet' = quiet + 1
  /\ stall' = IF outlet = "copy" /\ (\E d \in Way : done[d]) THEN stall + 1 ELSE stall
  /\ UNCHANGED <<named, took, leg, sends, shows, at, done, flags, record>>

-----------------------------------------------------------------------------
(* The loops.                                                              *)

Loops(d, where) == leg = "relay" /\ at[d] = where

\* What the read of a way returns, "none" while it waits; abort_socket makes it fail.  A reset
\* is returned once: whoever overlooks it reads the end of the stream from then on.
Result(d) ==
  CASE d = "up" /\ aborted -> "broken"
    [] ~(d = "up" /\ aborted) /\ queue[d] > 0 -> "data"
    [] ~(d = "up" /\ aborted) /\ queue[d] = 0 /\ fin[d] # "open" ->
         IF d = "up" /\ overread THEN "clean" ELSE fin[d]
    [] OTHER -> "none"

\* idle_timeout_drain; the watchdog of splice; idle_timeout and drain_wait of a copy.
Expired(d) ==
  /\ Result(d) = "none"
  /\ CASE outlet \in Mirage -> quiet >= (IF done[Other(d)] THEN DrainIdle ELSE RelayIdle)
       [] outlet = "direct" -> quiet >= WatchIdle
       [] OTHER -> quiet >= RelayIdle \/ (done[Other(d)] /\ stall >= DrainIdle)

\* A copy touches its clock when it has written, the others when they have read as well.
\* The first chunk that comes down tells the record, record_first_down.  The upload of a tunnel
\* reads on while its buffer has room, and drops the error that it meets.
Overreads(d) == d = "up" /\ outlet \in TcpTunnels /\ queue[d] = 1 /\ fin[d] = "broken"
ReadChunk(d) ==
  /\ Loops(d, "wait") /\ Result(d) = "data"
  /\ at' = [at EXCEPT ![d] = "write"] /\ queue' = [queue EXCEPT ![d] = @ - 1]
  /\ quiet' = IF outlet = "copy" THEN quiet ELSE 0
  /\ praised' = (praised \/ (d = "dn" /\ outlet \in Mirage))
  /\ overread' \in {overread, Overreads(d)}
  /\ UNCHANGED <<named, took, leg, sent, fin, shows, done, stall, localEof, aborted, endReason,
                 blamed>>

\* Only of the other outlets does a write move the clock.
WriteChunk(d) ==
  /\ Loops(d, "write")
  /\ at' = [at EXCEPT ![d] = "wait"] /\ passed' = [passed EXCEPT ![d] = @ + 1]
  /\ quiet' = IF outlet \in Mirage THEN quiet ELSE 0
  /\ stall' = 0
  /\ UNCHANGED <<named, took, leg, sends, seen, done, flags, record>>

\* The receiver of a way has gone.
ReceiverGone(d) == Loops(d, "write") /\ fin[Other(d)] # "open"

Show(d, end) == seen' = [seen EXCEPT ![d] = IF @ = "open" THEN end ELSE @]

\* touch, then PeerDone::set; a loop of a tunnel drains what still comes, for 500 ms.
Ends(d) ==
  /\ at' = [at EXCEPT ![d] = IF outlet \in TcpTunnels THEN "flush" ELSE "done"]
  /\ done' = [done EXCEPT ![d] = TRUE] /\ quiet' = 0 /\ stall' = 0
  /\ UNCHANGED <<named, took, leg, sends, passed, record>>

\* The upload of a tunnel.  An error of the application shuts the tunnel's socket, which is a
\* broken end; a nested tunnel has none, and says close_notify.  An abort by the download says
\* nothing.
UpEnds ==
  /\ outlet \in Mirage /\ UNCHANGED <<aborted, overread, endReason>>
  /\ \/ /\ Loops("up", "wait") /\ Result("up") = "clean" /\ Ends("up")
        /\ localEof' = TRUE /\ Show("up", "clean")
     \/ /\ Loops("up", "wait") /\ Result("up") = "broken" /\ Ends("up")
        /\ localEof' = (localEof \/ ~aborted)
        /\ CASE outlet = "quic" \/ (outlet = "tcp" /\ ~aborted) -> Show("up", "broken")
             [] outlet = "nested" /\ ~aborted -> Show("up", "clean")
             [] OTHER -> UNCHANGED seen
     \/ /\ Loops("up", "wait") /\ Expired("up") /\ Ends("up") /\ UNCHANGED localEof
        /\ IF outlet = "quic" THEN Show("up", "broken") ELSE UNCHANGED seen
     \/ ReceiverGone("up") /\ Ends("up") /\ UNCHANGED <<localEof, seen>>

\* Mutant of Truncates: a download that falls silent looks whole
TruncatesNotIdle(reason) == reason \in {"refused", "peer"}
Truncates(reason) == reason \in {"refused", "peer", "idle"}

\* A truncated download resets the application: abort_socket, and no FIN (forget).
Conclude(reason) ==
  IF Truncates(reason) /\ (outlet = "quic" \/ ~localEof)
  THEN aborted' = TRUE /\ Show("dn", "broken")
  ELSE UNCHANGED aborted /\ Show("dn", "clean")

\* The download of a tunnel or of a stream; a stream concludes at once.
DnEnds ==
  /\ outlet \in Mirage /\ UNCHANGED <<localEof, overread>>
  /\ \/ Loops("dn", "wait") /\ Result("dn") = "clean" /\ endReason' = "notify"
     \/ Loops("dn", "wait") /\ Result("dn") = "refused" /\ endReason' = "refused"
     \/ Loops("dn", "wait") /\ Result("dn") = "broken" /\ endReason' = "peer"
     \/ Loops("dn", "wait") /\ Expired("dn") /\ endReason' = "idle"
     \/ ReceiverGone("dn") /\ endReason' = "local"
  /\ Ends("dn")
  /\ IF outlet = "quic" THEN Conclude(endReason') ELSE UNCHANGED <<seen, aborted>>

FlushLoop(d) ==
  /\ Loops(d, "flush") /\ at' = [at EXCEPT ![d] = "done"]
  /\ IF d = "dn" THEN Conclude(endReason) ELSE UNCHANGED <<seen, aborted>>
  /\ UNCHANGED <<named, took, leg, sends, passed, done, clocks, localEof, overread, endReason,
                 record>>

\* Mutant of NodeFailed: whatever brought nothing down counts against the node
AnyFailed == passed["dn"] = 0 /\ endReason # "notify" /\ ~localEof
\* classify_real_conn.
NodeFailed == passed["dn"] = 0 /\ endReason = "peer" /\ ~localEof

\* join!: what is left of the tunnel is dropped.
Joined ==
  /\ leg = "relay" /\ outlet \in Mirage /\ \A d \in Way : at[d] = "done"
  /\ leg' = "gone" /\ Show("up", "broken")
  /\ IF NodeFailed THEN Blame ELSE UNCHANGED record
  /\ UNCHANGED <<named, took, sends, passed, at, done, clocks, flags>>

\* splice_one_way, copy_one_direction: the end of one side is shown to the other.
HalfDone(d) ==
  /\ outlet \notin Mirage /\ Loops(d, "wait") /\ Result(d) = "clean"
  /\ Ends(d) /\ Show(d, "clean") /\ UNCHANGED flags

\* The drop of a socket is a reset if there is something to read in it, and a FIN otherwise; of
\* a WireGuard stream it is a reset.
Dropped(d) == IF queue[Other(d)] > 0 THEN {"broken"} ELSE
              IF d = "up" /\ outlet = "copy" THEN {"broken", "clean"} ELSE {"clean"}

\* Both are through, or an error or silence of one ends both.
BothDone ==
  /\ leg = "relay" /\ outlet \notin Mirage
  /\ \/ \A d \in Way : done[d]
     \/ \E d \in Way : \/ Loops(d, "wait") /\ (Result(d) = "broken" \/ Expired(d))
                       \/ ReceiverGone(d)
  /\ leg' = "gone"
  /\ \E end \in {"broken", "clean"} :
       /\ end \in Dropped("up")
       /\ seen' = [up |-> IF seen["up"] = "open" THEN end ELSE seen["up"],
                   dn |-> IF seen["dn"] # "open" THEN seen["dn"]
                          ELSE CHOOSE e \in Dropped("dn") : TRUE]
  /\ UNCHANGED <<named, took, sends, passed, at, done, clocks, flags, record>>

Gone == leg = "gone" /\ UNCHANGED connVars

ConnNext ==
  \/ Greet \/ NameTarget \/ Choose \/ Attempt \/ Connect \/ ConnTick
  \/ UpEnds \/ DnEnds \/ Joined \/ BothDone \/ Gone
  \/ \E d \in Way : SendChunk(d) \/ Finish(d) \/ ReadChunk(d) \/ WriteChunk(d) \/ FlushLoop(d)
                    \/ HalfDone(d)
ConnSpec == ConnInit /\ [][ConnNext]_connVars

-----------------------------------------------------------------------------
(* Properties.                                                             *)

\* An address that the application chose is the one that is dialled, whatever name its first
\* bytes have, and a fake address that has lost its name is never dialled; only the transparent
\* inbound puts the name in its place.
DialsWhatWasAsked ==
  leg = "route" =>
    /\ ask.dest = "real" /\ ask.inbound # "tproxy" => host = "real"
    /\ ask.dest \in {"name", "fake"} => host = "name"
    /\ ask.dest = "lost" => host = "heard"

\* In both directions a connection over Mirage is the pipe it should be, however the two loops
\* end one another.  An application that has ended its side may be shown a FIN for a cut download
\* (of a QUIC stream only when it does not read either), and a server that has ended is deaf.
\* The reset of an application may end a tunnel like a clean end: a nested tunnel has no other,
\* and the upload of one over TCP may overread it.
NotMirage == outlet \in {"direct", "copy"}
UpPipe == INSTANCE HalfPipe WITH
  sent <- sent["up"], passed <- passed["up"], seen <- seen["up"],
  fin <- IF outlet \in TcpTunnels /\ fin["up"] = "broken" THEN "clean" ELSE fin["up"],
  deaf <- NotMirage \/ fin["dn"] # "open"
DownPipe == INSTANCE HalfPipe WITH
  sent <- sent["dn"], passed <- passed["dn"], seen <- seen["dn"],
  fin <- IF fin["dn"] = "refused" THEN "broken" ELSE fin["dn"],
  deaf <- NotMirage \/ (outlet \in TcpTunnels /\ fin["up"] # "open")
            \/ (outlet = "quic" /\ endReason = "local")
ConnIsAPipe == UpPipe!PipeSpec /\ DownPipe!PipeSpec

\* The record of the node is told of a failure at most once, and only when nothing came down
\* and it was the node that failed.
RecordToldRight ==
  blamed > 0 => /\ blamed = 1 /\ passed["dn"] = 0 /\ ~praised
                /\ at["dn"] = "done" => fin["dn"] = "broken"

\* What a connection asks for is what is dialled, and what becomes of it what is recorded.
ConnTrue == DialsWhatWasAsked /\ RecordToldRight

=============================================================================
