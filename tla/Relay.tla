------------------------------- MODULE Relay -------------------------------
(***************************************************************************)
(* One authenticated tunnel of the server, from the first frame to its     *)
(* end: the dispatch of what the client asks for, and the two coroutines   *)
(* that forward a TCP connection to a target, directly, through a          *)
(* Shadowsocks server or inside a WireGuard tunnel                         *)
(* (src/src/proxy/mirage_server/: control.rs, tcp_relay.rs;                *)
(* src/src/proxy/mod.rs: IdleClock, PeerDone, idle_timeout_drain).         *)
(*                                                                         *)
(* "up" is the way from the client to the target and "dn" the way back.    *)
(* Records and chunks are counted, not looked into.                        *)
(***************************************************************************)
EXTENDS Integers, Sequences

CONSTANTS
  MaxRec,        \* bound: records each side sends
  Accepts,       \* of "nego" and "info": cipher_agility and client_info as the server has them
  RelayIdle,     \* relay_idle() and DRAIN_IDLE, in ticks
  DrainIdle

ASSUME RelayAssumption ==
  /\ {MaxRec.up, MaxRec.dn} \subseteq Nat
  /\ Accepts \subseteq {"nego", "info"} /\ DrainIdle \in 1..RelayIdle

Way == {"up", "dn"}
Other(d) == IF d = "up" THEN "dn" ELSE "up"

VARIABLES
  stage,         \* how far the tunnel has come; "relay" while the coroutines run
  asks,          \* the frames the client still sends before its data
  kind,          \* the outlet: "direct", "ss" (Shadowsocks) or "wg" (WireGuard)
  sent, queue,   \* what the sender of a way sent, and what of it is not read yet
  fin,           \* how the sender ended: "open", "clean" or "broken"
  passed, seen,  \* what the receiver of a way was handed, and the end it saw
  target,        \* the socket to the target: "none", "open", "shut" or "reset"
  numb,          \* the error of that socket has been read, and is not reported again
  at, batch,     \* where each coroutine stands, and what it has in hand
  heard, left,   \* its Notified, and what is left of its sleep
  free,          \* stop_fd >= 0; of a WireGuard relay, ~upload_done
  done, quiet,   \* PeerDone of each way, and the time since touch
  stop, beforeStop   \* should_stop, and what was sent before it

asked == <<stage, asks, kind>>
flow == <<sent, queue, fin>>
shown == <<passed, seen, target>>
waits == <<heard, left>>
ends == <<free, done>>
authVars == <<stop, beforeStop>>
hands == <<at, batch, numb>>
relayVars == <<asked, flow, shown, hands, waits, ends, quiet, authVars>>

RelayInit ==
  /\ stage = "first" /\ kind \in {"direct", "ss", "wg"}
  /\ asks \in {<<"nego", "info", "tcp">>, <<"info", "tcp">>, <<"tcp">>, <<"udp">>, <<"mux">>}
  /\ sent = [d \in Way |-> 0] /\ queue = sent /\ passed = sent
  /\ fin = [d \in Way |-> "open"] /\ seen = fin
  /\ target = "none" /\ at = [d \in Way |-> "off"]
  /\ batch = sent /\ numb = FALSE
  /\ heard = [d \in Way |-> FALSE] /\ left = sent /\ free = TRUE
  /\ done = [d \in Way |-> FALSE] /\ quiet = 0
  /\ stop = FALSE /\ beforeStop = [d \in Way |-> 0]

-----------------------------------------------------------------------------
(* The client, the target, the console and time.                           *)

\* The client sends once its request is out; the target while the connection stands.
MaySend(d) == /\ fin[d] = "open" /\ stage # "gone"
              /\ IF d = "up" THEN asks = <<>> ELSE target = "open"
Send(d) ==
  /\ MaySend(d) /\ sent[d] < MaxRec[d]
  /\ sent' = [sent EXCEPT ![d] = @ + 1] /\ queue' = [queue EXCEPT ![d] = @ + 1]
  /\ UNCHANGED <<asked, fin, shown, hands, waits, ends, quiet, authVars>>

\* A close_notify or a FIN, or a tunnel cut off and a reset connection.
Finish(d) ==
  /\ MaySend(d)
  /\ \E how \in {"clean", "broken"} : fin' = [fin EXCEPT ![d] = how]
  /\ UNCHANGED <<asked, sent, queue, shown, hands, waits, ends, quiet, authVars>>

\* The credential is revoked, the user removed, or its quota used up.
Stop ==
  /\ ~stop /\ stop' = TRUE /\ beforeStop' = sent
  /\ UNCHANGED <<asked, flow, shown, hands, waits, ends, quiet>>

Less(n) == IF n > 0 THEN n - 1 ELSE 0
RelayTick ==
  /\ stage = "relay" /\ quiet < RelayIdle
  /\ quiet' = quiet + 1 /\ left' = [d \in Way |-> Less(left[d])]
  /\ UNCHANGED <<asked, flow, shown, hands, heard, ends, authVars>>

-----------------------------------------------------------------------------
(* dispatch_authenticated.                                                 *)

idleRelay == <<hands, waits, ends, quiet, authVars>>
Refuse(how) == stage' = "gone" /\ seen' = [seen EXCEPT !["dn"] = how]

\* The client goes before it asks for anything, or 60 s pass: the writer is dropped.
NoFrame ==
  /\ stage \in {"first", "second", "third"} /\ asks # <<>>
  /\ Refuse("broken")
  /\ UNCHANGED <<asks, kind, flow, passed, target, idleRelay>>

\* CIPHER_NEGO is looked for in the first frame only, CLIENT_INFO in the next.  A frame
\* nobody looks for is taken for a target and refused there.
TakeFrame ==
  /\ stage \in {"first", "second", "third"} /\ asks # <<>>
  /\ LET frame == Head(asks)
         known == \/ frame = "nego" /\ stage = "first" /\ "nego" \in Accepts
                  \/ frame = "info" /\ stage # "third" /\ "info" \in Accepts
     IN  /\ asks' = Tail(asks)
         /\ \/ /\ known /\ UNCHANGED seen
               /\ stage' = IF frame = "nego" THEN "second" ELSE "third"
            \/ ~known /\ frame \in {"nego", "info"} /\ Refuse("broken")
            \/ /\ ~known /\ frame \notin {"nego", "info"}
               /\ \/ stop /\ Refuse("clean")
                  \/ ~stop /\ frame # "tcp" /\ Refuse("clean")      \* block_udp
                  \/ ~stop /\ frame = "tcp" /\ stage' = "route" /\ UNCHANGED seen
                  \/ ~stop /\ frame # "tcp" /\ stage' = "udp" /\ UNCHANGED seen
  /\ UNCHANGED <<kind, flow, passed, target, idleRelay>>

\* handle_tcp_relay: the rules refuse the target, it cannot be reached, or it is connected.
Route ==
  /\ stage = "route"
  /\ \/ stage' = "signal" /\ UNCHANGED target
     \/ stage' = "payload" /\ target' = "open"
  /\ UNCHANGED <<asks, kind, flow, passed, seen, idleRelay>>

\* reject_with_signal: the record and a FIN, then what the client still sends until it closes.
Reject ==
  /\ \/ stage = "signal" /\ fin["up"] # "broken" /\ stage' = "linger"
        /\ seen' = [seen EXCEPT !["dn"] = "refused"] /\ UNCHANGED queue
     \/ stage = "signal" /\ fin["up"] # "open" /\ Refuse("broken") /\ UNCHANGED queue
     \/ stage = "linger" /\ queue["up"] > 0 /\ queue' = [queue EXCEPT !["up"] = @ - 1]
        /\ UNCHANGED <<stage, seen>>
     \/ stage = "linger" /\ (fin["up"] = "open" \/ queue["up"] = 0)
        /\ stage' = "gone" /\ UNCHANGED <<seen, queue>>
  /\ UNCHANGED <<asks, kind, sent, fin, passed, target, idleRelay>>

Fails == fin["dn"] # "open"
Hand(d) == passed' = [passed EXCEPT ![d] = @ + 1]

\* What came with the target.  An early return drops the connection to the target, which
\* closes it, and the tunnel.
Dropped == /\ stage' = "gone" /\ target' = "shut"
           /\ seen' = [up |-> IF queue["dn"] > 0 THEN "broken" ELSE "clean", dn |-> "broken"]
Begins == stage' = "relay" /\ at' = [d \in Way |-> "head"]
Payload ==
  /\ stage = "payload"
  /\ \/ Begins /\ UNCHANGED <<queue, shown>>
     \/ /\ queue["up"] > 0 /\ queue' = [queue EXCEPT !["up"] = @ - 1]
        /\ \/ (stop \/ Fails) /\ Dropped /\ UNCHANGED <<passed, at>>
           \/ /\ ~stop /\ fin["dn"] # "broken" /\ Begins
              /\ passed' = [passed EXCEPT !["up"] = @ + 1] /\ UNCHANGED <<seen, target>>
  /\ UNCHANGED <<asks, kind, sent, fin, batch, numb, waits, ends, quiet, authVars>>

-----------------------------------------------------------------------------
(* How a coroutine ends.  Both run in one task (join!): what one does      *)
(* between two awaits is a step.                                           *)

Running(d, where) == stage = "relay" /\ at[d] = where

\* Mutant of Fine: an upload that was cut short is closed like a complete one
AlwaysFine(d, how) == kind # "wg"
\* What ends the connection in order: all of the upload, a target that takes no more, or all
\* of the download.  A WireGuard stream is aborted in any case.
Fine(d, how) == kind # "wg" /\ how \in (IF d = "up" THEN {"clean", "failed"} ELSE {"clean"})

\* PeerDone::set wakes the one who waits.
Rings(d) == at[Other(d)] = "wait"

\* Whoever takes stop_fd ends the connection: shutdown(SHUT_RDWR) and a FIN, or abort_socket,
\* a RST and an empty receive queue.  WireGuard has no descriptor: the upload sets
\* upload_done, and both abort.  Then touch and PeerDone::set.
Ends(d, how) ==
  /\ at' = [at EXCEPT ![d] = "done"] /\ batch' = [batch EXCEPT ![d] = 0]
  /\ free' = (free /\ kind = "wg" /\ d = "dn")
  /\ IF free \/ kind = "wg"
     THEN /\ target' = IF target # "open" THEN target ELSE IF Fine(d, how) THEN "shut" ELSE "reset"
          /\ seen' = [up |-> IF seen["up"] # "open" THEN seen["up"]
                             ELSE IF Fine(d, how) THEN "clean" ELSE "broken",
                      dn |-> IF d = "dn" /\ seen["dn"] = "open" THEN "broken" ELSE seen["dn"]]
          /\ queue' = IF target # "open" \/ Fine(d, how) \/ kind = "wg" THEN queue
                      ELSE [queue EXCEPT !["dn"] = 0]
     ELSE /\ seen' = IF d = "dn" /\ seen["dn"] = "open" THEN [seen EXCEPT !["dn"] = "broken"]
                     ELSE seen
          /\ UNCHANGED <<target, queue>>
  /\ quiet' = 0 /\ done' = [done EXCEPT ![d] = TRUE]
  /\ heard' = [heard EXCEPT ![Other(d)] = @ \/ Rings(d)]
  /\ UNCHANGED <<asked, sent, fin, passed, numb, left, authVars>>

-----------------------------------------------------------------------------
(* idle_timeout_drain: wait for a record or a chunk, for as long as both   *)
(* ways are quiet for relay_idle, or for DRAIN_IDLE when the other ended.  *)

Remaining(d) == LET limit == IF done[Other(d)] THEN DrainIdle ELSE RelayIdle
                IN  IF quiet < limit THEN limit - quiet ELSE 0

\* What the read of a way returns, "none" while it waits.  A WireGuard stream tells a reset
\* from an end as little as a socket whose error has been read.
Result(d) ==
  IF queue[d] > 0 THEN "data"
  ELSE IF d = "up"
       THEN CASE fin["up"] = "clean" -> "end" [] fin["up"] = "broken" -> "error" [] OTHER -> "none"
       ELSE CASE fin["dn"] = "clean" \/ target = "shut" -> "end"
              [] (fin["dn"] = "broken" \/ target = "reset") /\ (kind = "wg" \/ numb) -> "end"
              [] fin["dn"] = "broken" \/ target = "reset" -> "error"
              [] OTHER -> "none"

MoveTo(d, where) == at' = [at EXCEPT ![d] = where]
Arm(d) == left' = [left EXCEPT ![d] = Remaining(d)] /\ heard' = [heard EXCEPT ![d] = FALSE]

\* The head of the loop: whether to stop, then the wait, which is armed before it is polled.
LoopHead(d) ==
  /\ Running(d, "head")
  /\ \/ stop /\ Ends(d, "cut")
     \/ ~stop /\ MoveTo(d, "wait") /\ Arm(d)
        /\ UNCHANGED <<asked, flow, shown, batch, numb, ends, quiet, authVars>>

\* The sleep is over, or the other way ended: what is left is counted again.
Wake(d) ==
  /\ Running(d, "wait") /\ Result(d) = "none" /\ (heard[d] \/ left[d] = 0)
  /\ \/ Remaining(d) = 0 /\ Ends(d, "cut")
     \/ /\ Remaining(d) > 0 /\ Arm(d)
        /\ UNCHANGED <<asked, flow, shown, hands, ends, quiet, authVars>>

-----------------------------------------------------------------------------
(* The loops of the two coroutines.                                        *)

\* A record or a chunk; of a direct download as much as has come and the buffer holds, and
\* an error that follows is swallowed.
ReadData(d) ==
  /\ Running(d, "wait") /\ Result(d) = "data"
  /\ MoveTo(d, "charge") /\ quiet' = 0
  /\ \E n \in 1..queue[d] :
       /\ (d = "up" \/ kind # "direct") => n = 1
       /\ batch' = [batch EXCEPT ![d] = n] /\ queue' = [queue EXCEPT ![d] = @ - n]
       /\ \/ UNCHANGED numb
          \/ d = "dn" /\ kind = "direct" /\ n = queue[d] /\ fin["dn"] = "broken" /\ numb' = TRUE
  /\ UNCHANGED <<asked, sent, fin, shown, waits, ends, authVars>>

\* A read of nothing is the target's own end only while nobody has shut the socket.
Own == free
ReadEnd(d) ==
  /\ Running(d, "wait")
  /\ \/ Result(d) = "end" /\ d = "up" /\ Ends(d, "clean")
     \/ /\ Result(d) = "end" /\ d = "dn" /\ Own /\ MoveTo(d, "notify")
        /\ UNCHANGED <<asked, flow, shown, batch, numb, waits, ends, quiet, authVars>>
     \/ Result(d) = "end" /\ d = "dn" /\ ~Own /\ Ends(d, "cut")
     \/ Result(d) = "error" /\ Ends(d, "cut")

\* Mutant of Pays: only the head of the loop asks whether to stop
PaysBlindly == TRUE
\* SessionAuth::charge, after the buckets.
Pays == ~stop
Charge(d) ==
  /\ Running(d, "charge")
  /\ \/ ~Pays /\ Ends(d, "cut")
     \/ /\ Pays /\ MoveTo(d, "write")
        /\ UNCHANGED <<asked, flow, shown, batch, numb, waits, ends, quiet, authVars>>

Broken(d) == IF d = "up" THEN target # "open" \/ Fails ELSE fin["up"] # "open"
Works(d) == IF d = "up" THEN target = "open" /\ fin["dn"] # "broken" ELSE fin["up"] # "broken"
WriteData(d) ==
  /\ Running(d, "write")
  /\ \/ /\ Works(d) /\ passed' = [passed EXCEPT ![d] = @ + batch[d]]
        /\ MoveTo(d, "head") /\ batch' = [batch EXCEPT ![d] = 0]
        /\ UNCHANGED <<asked, flow, seen, target, numb, waits, ends, quiet, authVars>>
     \/ Broken(d) /\ Ends(d, IF d = "up" THEN "failed" ELSE "cut")

\* send_close_notify, for a whole download only; the client may be gone.
Notify ==
  /\ Running("dn", "notify") /\ MoveTo("dn", "finish")
  /\ seen' = [seen EXCEPT !["dn"] = "clean"]
  /\ UNCHANGED <<asked, flow, passed, target, batch, numb, waits, ends, quiet, authVars>>
Finished == Running("dn", "finish") /\ Ends("dn", "clean")

Join ==
  /\ stage = "relay" /\ \A d \in Way : at[d] = "done"
  /\ stage' = "gone"
  /\ UNCHANGED <<asks, kind, flow, shown, hands, waits, ends, quiet, authVars>>

Coroutine(d) == \/ LoopHead(d) \/ Wake(d) \/ ReadData(d) \/ ReadEnd(d) \/ Charge(d)
                \/ WriteData(d)
Handler == NoFrame \/ TakeFrame \/ Route \/ Reject \/ Payload \/ Notify \/ Finished \/ Join

RelayNext == \/ Stop \/ RelayTick \/ Handler
             \/ \E d \in Way : Send(d) \/ Finish(d) \/ Coroutine(d)
RelaySpec == RelayInit /\ [][RelayNext]_relayVars

-----------------------------------------------------------------------------
(* Properties.                                                             *)

\* No cut is told as an end: in both directions a tunnel is the pipe it should be, so that a
\* download which an upload, the quota, a revoked user or the time cut short never looks whole,
\* nor such an upload to a target that still sends, whichever coroutine ended first.  A reset by
\* the target may pass for its end unless a Shadowsocks server forwards (CloseNotifyMeansEof); a
\* tunnel that was never relayed is deaf, and so is a target that has ended.
Relayed == target # "none"
Neither == stage = "gone" /\ at["up"] = "off"
RelayUp == INSTANCE HalfPipe WITH
  sent <- sent["up"], passed <- passed["up"], fin <- fin["up"], seen <- seen["up"],
  deaf <- fin["dn"] # "open" \/ Neither
RelayDown == INSTANCE HalfPipe WITH
  sent <- sent["dn"], passed <- passed["dn"],
  fin <- IF kind # "ss" /\ fin["dn"] = "broken" THEN "clean" ELSE fin["dn"],
  seen <- IF seen["dn"] = "refused" THEN "broken" ELSE seen["dn"],
  deaf <- ~Relayed /\ Neither
RelayIsAPipe == RelayUp!PipeSpec /\ RelayDown!PipeSpec

\* Nothing that is sent after the user is stopped goes through.
NothingAfterStop == stop => \A d \in Way : passed[d] <= beforeStop[d]

\* What the head of tcp_relay.rs says of close_notify: it is sent for the target's clean EOF
\* only, and a client that does not get it takes the download for truncated.
CloseNotifyMeansEof == seen["dn"] = "clean" /\ target # "none" => fin["dn"] = "clean"

\* What it says of every abnormal end: the target sees a RST.
ResetWhenCut ==
  seen["up"] = "clean" /\ fin["dn"] = "open" => fin["up"] = "clean" /\ passed["up"] = sent["up"]
=============================================================================
