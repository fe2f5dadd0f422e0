----------------------------- MODULE ServerQuic -----------------------------
(***************************************************************************)
(* The server's side of QUIC: the places that connections and their        *)
(* streams take before and after they are authenticated, and what a stream *)
(* forwards (start_quic_server, the two limiters and quic_pump of          *)
(* src/src/proxy/mirage_server/mod.rs).                                    *)
(*                                                                         *)
(* Whether a token is good is open here: it is judged by ReplayCache's     *)
(* server and UserSessions.                                                *)
(***************************************************************************)
EXTENDS Integers, FiniteSets

CONSTANTS
  QuicConn,        \* connections at a time
  QuicStream,      \* streams that each opens
  QuicSource, quicSource,    \* addresses, after rate_limit_key, and where each comes from
  MaxPlaces,       \* of each limiter: places in all
  MaxShare,        \* and of one address
  SoftHandshakes,  \* soft_global
  MaxQuicData      \* bound: what each side of a stream sends

Limiter == {"handshake", "conn", "stream"}

ASSUME ServerQuicAssumption ==
  /\ IsFiniteSet(QuicConn) /\ IsFiniteSet(QuicStream) /\ QuicStream \cap Limiter = {}
  /\ quicSource \in [QuicConn -> QuicSource]
  /\ MaxPlaces \in [Limiter -> Nat \ {0}] /\ MaxShare \in [Limiter -> Nat \ {0}]
  /\ SoftHandshakes \in 1 .. MaxPlaces["handshake"]
  /\ MaxQuicData \in Nat

\* Who takes a place: a connection twice, and each of its streams.
Owner == ({"handshake", "conn"} \cup QuicStream) \X QuicConn
StreamOf(c) == {<<s, c>> : s \in QuicStream}
AllStreams == QuicStream \X QuicConn

VARIABLES
  qpc,            \* where the task of each connection stands, in the accept loop at first
  valid,          \* whether the source address has been validated
  qst,            \* where the task of each stream stands
  fails, closed,  \* tokens that were refused, and whether the connection is closed
  claim,          \* how far each owner has come with its place
  total, share    \* the counts of the limiters, of all and of an address

quicTasks == <<qpc, valid, qst, fails, closed>>
places3 == <<claim, total, share>>
gateVars == <<quicTasks, places3>>

GateInit ==
  /\ qpc = [c \in QuicConn |-> "off"] /\ valid = [c \in QuicConn |-> FALSE]
  /\ qst = [o \in AllStreams |-> "off"]
  /\ fails = [c \in QuicConn |-> 0] /\ closed = [c \in QuicConn |-> FALSE]
  /\ claim = [o \in Owner |-> "none"]
  /\ total = [l \in Limiter |-> 0]
  /\ share = [l \in Limiter |-> [k \in QuicSource \X BOOLEAN |-> 0]]

-----------------------------------------------------------------------------
(* QuicHandshakeLimiter and QuicRuntimeLimiter.                            *)

LimiterOf(o) == IF o[1] \in QuicStream THEN "stream" ELSE o[1]

\* Handshakes of sources that are not validated are counted apart.
KeyOf(o) == <<quicSource[o[2]], o[1] = "handshake" => valid[o[2]]>>

Claims(o, how) == claim' = [claim EXCEPT ![o] = how]
AddTotal(o, n) == total' = [total EXCEPT ![LimiterOf(o)] = @ + n]
AddShare(o, n) == share' = [share EXCEPT ![LimiterOf(o)][KeyOf(o)] = @ + n]

\* fetch_add comes before the test of what it returns.
CountIn(o) ==
  /\ claim[o] = "none" /\ AddTotal(o, 1)
  /\ Claims(o, IF total[LimiterOf(o)] < MaxPlaces[LimiterOf(o)] THEN "counted" ELSE "undo")
  /\ UNCHANGED share

\* The address has its share of places, or not.
LockShare(o) ==
  /\ claim[o] = "counted"
  /\ \/ /\ share[LimiterOf(o)][KeyOf(o)] < MaxShare[LimiterOf(o)]
        /\ Claims(o, "held") /\ AddShare(o, 1)
     \/ /\ share[LimiterOf(o)][KeyOf(o)] >= MaxShare[LimiterOf(o)]
        /\ Claims(o, "undo") /\ UNCHANGED share
  /\ UNCHANGED total

FetchSub(o) ==
  /\ claim[o] = "undo" /\ AddTotal(o, -1) /\ Claims(o, "refused") /\ UNCHANGED share

Acquire(o) == CountIn(o) \/ LockShare(o) \/ FetchSub(o)

\* A guard is dropped: the count of all first.
Release(o) ==
  \/ claim[o] = "held" /\ AddTotal(o, -1) /\ Claims(o, "freed") /\ UNCHANGED share
  \/ claim[o] = "freed" /\ AddShare(o, -1) /\ Claims(o, "none") /\ UNCHANGED total

-----------------------------------------------------------------------------
(* The accept loop of start_quic_server.                                   *)

GoOn(c, label) == qpc' = [qpc EXCEPT ![c] = label]

\* A connection comes, from an address that is not blocked.
Arrive(c) ==
  /\ qpc[c] = "off" /\ \A o \in StreamOf(c) : qst[o] = "off"
  /\ \A d \in QuicConn : qpc[d] \notin {"arrived", "looked", "seat"}
  /\ GoOn(c, "arrived")
  /\ \E v \in BOOLEAN : valid' = [valid EXCEPT ![c] = v]
  /\ fails' = [fails EXCEPT ![c] = 0] /\ closed' = [closed EXCEPT ![c] = FALSE]
  /\ UNCHANGED <<qst, places3>>

\* Mutant of SoftFull: one handshake too many.
SoftFullLate == total["handshake"] > SoftHandshakes

\* under_pressure reads one count, then the other; then a Retry is sent, and the connection
\* may come again, validated.
SoftFull == total["handshake"] >= SoftHandshakes
Pressure(c) ==
  /\ \/ qpc[c] = "arrived" /\ GoOn(c, IF ~ valid[c] /\ SoftFull THEN "off" ELSE "looked")
     \/ /\ qpc[c] = "looked"
        /\ LET full == share["handshake"][<<quicSource[c], FALSE>>] >= MaxShare["handshake"]
           IN GoOn(c, IF ~ valid[c] /\ full THEN "off" ELSE "seat")
  /\ UNCHANGED <<valid, qst, fails, closed, places3>>

-----------------------------------------------------------------------------
(* The task of a connection.                                               *)

\* What it is taking a place for.
Wanted(c) ==
  {o \in Owner : /\ o[2] = c
                 /\ \/ o[1] = "handshake" /\ qpc[c] = "seat"
                    \/ o[1] = "conn" /\ qpc[c] = "conn"
                    \/ o \in AllStreams /\ qst[o] = "hand" /\ qpc[c] \in {"stream", "next"}}
TakePlace(c) == \E o \in Wanted(c) : Acquire(o) /\ UNCHANGED quicTasks

\* It has it.  The task is spawned, goes on to the place of the first stream, lets go of that
\* of the handshake, or spawns the task of a stream, which has its own token.
Placed(c) ==
  \E o \in Wanted(c) :
    /\ claim[o] = "held"
    /\ GoOn(c, CASE qpc[c] = "seat" -> "shake" [] qpc[c] = "conn" -> "stream"
                 [] qpc[c] = "stream" -> "pass" [] OTHER -> "serving")
    /\ qst' = IF qpc[c] = "next" THEN [qst EXCEPT ![o] = "auth"] ELSE qst
    /\ UNCHANGED <<valid, fails, closed, places3>>

\* Or not: the connection is refused or closed, with its first stream; later ones are reset.
NoneInHand(c) == [o \in AllStreams |-> IF o[2] = c /\ qst[o] = "hand" THEN "off" ELSE qst[o]]
NotPlaced(c) ==
  \E o \in Wanted(c) :
    /\ claim[o] = "refused" /\ Claims(o, "none")
    /\ GoOn(c, CASE qpc[c] = "seat" -> "off" [] qpc[c] = "next" -> "serving" [] OTHER -> "gone")
    /\ qst' = NoneInHand(c)
    /\ closed' = [closed EXCEPT ![c] = qpc[c] \in {"conn", "stream"} \/ @]
    /\ UNCHANGED <<valid, fails, total, share>>

\* The handshake is over within 10 s, from an address that is not blocked by now and for a
\* server without an upstream, or not.
Shake(c) ==
  /\ qpc[c] = "shake" /\ \E label \in {"first", "gone"} : GoOn(c, label)
  /\ UNCHANGED <<valid, qst, fails, closed, places3>>

\* So are the first stream, and its token, within 5 s each; the connection is closed if not.
First(c) ==
  /\ qpc[c] = "first"
  /\ \/ /\ GoOn(c, "conn") /\ UNCHANGED closed
        /\ \E o \in StreamOf(c) : qst' = [qst EXCEPT ![o] = "hand"]
     \/ /\ GoOn(c, "gone") /\ closed' = [closed EXCEPT ![c] = TRUE] /\ UNCHANGED qst
  /\ UNCHANGED <<valid, fails, places3>>

\* drop(guard), then the first stream is relayed.
PassOn(c) ==
  LET guard == <<"handshake", c>> IN
  /\ qpc[c] = "pass"
  /\ \/ Release(guard) /\ UNCHANGED quicTasks
     \/ /\ claim[guard] = "none" /\ GoOn(c, "serving")
        /\ qst' = [o \in AllStreams |-> IF o[2] = c /\ qst[o] = "hand" THEN "relay" ELSE qst[o]]
        /\ UNCHANGED <<valid, fails, closed, places3>>

\* accept_bi; streams that came before a connection was closed are still found.
NextStream(c) ==
  /\ qpc[c] = "serving"
  /\ \/ /\ GoOn(c, "next")
        /\ \E o \in StreamOf(c) : qst[o] = "off" /\ qst' = [qst EXCEPT ![o] = "hand"]
     \/ closed[c] /\ GoOn(c, "gone") /\ UNCHANGED qst
  /\ UNCHANGED <<valid, fails, closed, places3>>

\* Mutant of Guards: what the task of the handshake holds was moved out of it.
ConnGuard == {"conn"}

\* The task returns, and drops what it holds.
Guards == {"conn", "handshake"}
Return1(c) ==
  /\ qpc[c] = "gone"
  /\ \/ \E g \in Guards : Release(<<g, c>>) /\ UNCHANGED quicTasks
     \/ /\ \A g \in Guards : claim[<<g, c>>] = "none"
        /\ GoOn(c, "off") /\ UNCHANGED <<valid, qst, fails, closed, places3>>

\* The peer closes, or has not been heard of.
Closes(c) ==
  /\ qpc[c] \notin {"off", "arrived", "looked", "seat", "shake"} /\ ~ closed[c]
  /\ closed' = [closed EXCEPT ![c] = TRUE]
  /\ UNCHANGED <<qpc, valid, qst, fails, places3>>

-----------------------------------------------------------------------------
(* The task of a stream.                                                   *)

\* authenticate_quic_stream_token: good; or bad, late, or of a user whose quota is used up,
\* which closes the connection the third time; or revoked, which does at once.
StreamToken(o) ==
  LET c == o[2]
      end == qst' = [qst EXCEPT ![o] = "ended"]
  IN /\ qst[o] = "auth"
     /\ \/ qst' = [qst EXCEPT ![o] = "relay"] /\ UNCHANGED <<fails, closed>>
        \/ /\ end /\ fails' = [fails EXCEPT ![c] = IF @ < 3 THEN @ + 1 ELSE @]
           /\ closed' = [closed EXCEPT ![c] = @ \/ fails[c] >= 2]
        \/ end /\ closed' = [closed EXCEPT ![c] = TRUE] /\ UNCHANGED fails
     /\ UNCHANGED <<qpc, valid, places3>>

\* relay_authenticated_quic_stream returns, when it likes.
StreamEnds(o) ==
  /\ qst[o] = "relay" /\ qst' = [qst EXCEPT ![o] = "ended"]
  /\ UNCHANGED <<qpc, valid, fails, closed, places3>>
StreamReturns(o) ==
  /\ qst[o] = "ended"
  /\ \/ Release(o) /\ UNCHANGED quicTasks
     \/ /\ claim[o] = "none" /\ qst' = [qst EXCEPT ![o] = "off"]
        /\ UNCHANGED <<qpc, valid, fails, closed, places3>>

ConnTask(c) ==
  \/ Arrive(c) \/ Pressure(c) \/ TakePlace(c) \/ Placed(c) \/ NotPlaced(c) \/ Shake(c)
  \/ First(c) \/ PassOn(c) \/ NextStream(c) \/ Return1(c) \/ Closes(c)
StreamTask(o) == StreamToken(o) \/ StreamEnds(o) \/ StreamReturns(o)
GateNext ==
  \/ \E c \in QuicConn : ConnTask(c)
  \/ \E o \in AllStreams : StreamTask(o)
GateSpec == GateInit /\ [][GateNext]_gateVars

-----------------------------------------------------------------------------
(* relay_authenticated_quic_stream and its two pumps, for one stream: "up" *)
(* is the way to the target and "dn" the way back.  What is sent is        *)
(* counted, not looked into.                                               *)

Path == {"up", "dn"}

VARIABLES
  leg,              \* how far the stream has come; "relay" while the pumps run
  given, waiting,   \* what the sender of a way sent, and what of it is not read yet
  close,            \* how the sender ended: "open", "clean" or "broken"
  handed, shows,    \* what the receiver of a way was handed, and the end it was shown
  qpump, inHand,     \* where each pump stands, and what it has read
  eof,              \* what the pump returned: that its way ended in order
  stopped,          \* stop_tx has sent
  revoked, givenThen   \* should_stop, and what was sent before

wire == <<given, waiting, close>>
quicEnds == <<leg, handed, shows>>
pumps == <<qpump, inHand, eof, stopped>>
mayGo == <<revoked, givenThen>>
streamVars == <<wire, quicEnds, pumps, mayGo>>

StreamInit ==
  /\ leg = "ask" /\ given = [d \in Path |-> 0] /\ waiting = given /\ handed = given
  /\ close = [d \in Path |-> "open"] /\ shows = close
  /\ qpump = [d \in Path |-> "off"] /\ inHand = given
  /\ eof = [d \in Path |-> FALSE] /\ stopped = FALSE
  /\ revoked = FALSE /\ givenThen = given

\* The client may send at once, with its token; the target while it is connected.
Open(d) == close[d] = "open" /\ (d = "dn" => leg = "relay")
Give(d) ==
  /\ Open(d) /\ given[d] < MaxQuicData
  /\ given' = [given EXCEPT ![d] = @ + 1] /\ waiting' = [waiting EXCEPT ![d] = @ + 1]
  /\ UNCHANGED <<close, quicEnds, pumps, mayGo>>
EndWay(d) ==
  /\ Open(d) /\ \E how \in {"clean", "broken"} : close' = [close EXCEPT ![d] = how]
  /\ UNCHANGED <<given, waiting, quicEnds, pumps, mayGo>>

\* The credential is revoked, or the quota used up.
Revoke ==
  /\ ~ revoked /\ revoked' = TRUE /\ givenThen' = given
  /\ UNCHANGED <<wire, quicEnds, pumps>>

\* No target in time, or none that can be reached: the stream is dropped, and what is dropped
\* is finished.  A target that the rules refuse, or want relayed, is told by a reset.
Leaves(how) == leg' = "left" /\ shows' = [shows EXCEPT !["dn"] = how]
Ask ==
  /\ leg = "ask" /\ ((leg' = "route" /\ UNCHANGED shows) \/ Leaves("clean"))
  /\ UNCHANGED <<wire, handed, pumps, mayGo>>
ServerRoute ==
  /\ leg = "route" /\ ((leg' = "connect" /\ UNCHANGED shows) \/ Leaves("broken"))
  /\ UNCHANGED <<wire, handed, pumps, mayGo>>
ConnectTarget ==
  /\ leg = "connect"
  /\ \/ leg' = "relay" /\ qpump' = [d \in Path |-> "head"] /\ UNCHANGED shows
     \/ Leaves("clean") /\ UNCHANGED qpump
  /\ UNCHANGED <<wire, handed, inHand, eof, stopped, mayGo>>

PumpTo(d, label) == qpump' = [qpump EXCEPT ![d] = label]
Carries(d, n) == inHand' = [inHand EXCEPT ![d] = n]

\* A pump that cannot go on tells the other.
Cuts(d) == PumpTo(d, "done") /\ stopped' = TRUE /\ UNCHANGED <<wire, quicEnds, inHand, eof, mayGo>>

PumpHead(d) ==
  /\ qpump[d] = "head"
  /\ \/ revoked /\ Cuts(d)
     \/ ~ revoked /\ PumpTo(d, "wait") /\ UNCHANGED <<wire, quicEnds, inHand, eof, stopped, mayGo>>

\* select!, biased: the other pump has stopped; then data, the end or an error; then the timer,
\* after which both ways have been quiet for long enough, or not.
NoneYet(d) == waiting[d] = 0 /\ close[d] = "open"
PumpStops(d) ==
  /\ qpump[d] = "wait" /\ stopped /\ PumpTo(d, "done")
  /\ UNCHANGED <<wire, quicEnds, inHand, eof, stopped, mayGo>>
PumpReads(d) ==
  /\ qpump[d] = "wait" /\ ~ stopped
  /\ \E n \in 1 .. waiting[d] : Carries(d, n) /\ waiting' = [waiting EXCEPT ![d] = @ - n]
  /\ PumpTo(d, "charge") /\ UNCHANGED <<given, close, quicEnds, eof, stopped, mayGo>>
PumpEof(d) ==
  /\ qpump[d] = "wait" /\ ~ stopped /\ waiting[d] = 0 /\ close[d] = "clean"
  /\ PumpTo(d, "done") /\ eof' = [eof EXCEPT ![d] = TRUE]
  /\ shows' = [shows EXCEPT ![d] = "clean"]
  /\ UNCHANGED <<wire, leg, handed, inHand, stopped, mayGo>>
PumpError(d) == qpump[d] = "wait" /\ ~ stopped /\ close[d] = "broken" /\ Cuts(d)
PumpTimer(d) ==
  /\ qpump[d] = "wait" /\ ~ stopped /\ NoneYet(d)
  /\ \/ Cuts(d)
     \/ PumpTo(d, "head") /\ UNCHANGED <<wire, quicEnds, inHand, eof, stopped, mayGo>>

\* Mutant of Charged: only the head of the loop asks whether to go on.
ChargedBlindly == TRUE
\* The buckets, then SessionAuth::charge.
Charged == ~ revoked
PumpCharge(d) ==
  /\ qpump[d] = "charge"
  /\ \/ ~ Charged /\ Cuts(d)
     \/ Charged /\ PumpTo(d, "write") /\ UNCHANGED <<wire, quicEnds, inHand, eof, stopped, mayGo>>

\* The receiver takes it, or has gone.
PumpWrite(d) ==
  /\ qpump[d] = "write"
  /\ \/ Cuts(d)
     \/ /\ handed' = [handed EXCEPT ![d] = @ + inHand[d]] /\ Carries(d, 0) /\ PumpTo(d, "head")
        /\ UNCHANGED <<wire, leg, shows, eof, stopped, mayGo>>

\* Mutant of CutShort: after an end of one way the other is taken for whole.
CutShortNoEnd(d) == stopped /\ ~ eof["up"] /\ ~ eof["dn"]
\* A way that has not ended in order is reset, if a pump was stopped.
CutShort(d) == stopped /\ ~ eof[d]

\* Both have returned: what is not reset is finished as it is dropped.
JoinPumps ==
  /\ leg = "relay" /\ \A d \in Path : qpump[d] = "done"
  /\ leg' = "over"
  /\ shows' = [d \in Path |-> IF shows[d] # "open" THEN shows[d]
                              ELSE IF CutShort(d) THEN "broken" ELSE "clean"]
  /\ UNCHANGED <<wire, handed, pumps, mayGo>>

Pump(d) ==
  \/ PumpHead(d) \/ PumpStops(d) \/ PumpReads(d) \/ PumpEof(d) \/ PumpError(d) \/ PumpTimer(d)
  \/ PumpCharge(d) \/ PumpWrite(d)
StreamNext ==
  \/ Revoke \/ Ask \/ ServerRoute \/ ConnectTarget \/ JoinPumps
  \/ \E d \in Path : Give(d) \/ EndWay(d) \/ Pump(d)
StreamSpec == StreamInit /\ [][StreamNext]_streamVars

\* The places and a stream, side by side.
QuicServerNext ==
  \/ GateNext /\ UNCHANGED streamVars
  \/ StreamNext /\ UNCHANGED gateVars
QuicServerSpec ==
  GateInit /\ StreamInit /\ [][QuicServerNext]_<<gateVars, streamVars>>

-----------------------------------------------------------------------------
\* Every place that is counted is somebody's, on each of the ways out: refused by one of two
\* counts, timed out, not authenticated, closed, or done.
OwnersOf(l) == IF l = "stream" THEN AllStreams ELSE {l} \X QuicConn
In(l, where) == {o \in OwnersOf(l) : claim[o] \in where}
CountsExact ==
  \A l \in Limiter :
    /\ total[l] = Cardinality(In(l, {"counted", "undo", "held"}))
    /\ \A k \in QuicSource \X BOOLEAN :
         share[l][k] = Cardinality({o \in In(l, {"held", "freed"}) : KeyOf(o) = k})

\* Nobody works without a place, and nobody who has gone keeps one.
Seated(o) == claim[o] = "held"
PlacesHeld ==
  /\ \A c \in QuicConn :
       /\ qpc[c] \in {"shake", "first", "conn", "stream"} => Seated(<<"handshake", c>>)
       /\ qpc[c] \in {"stream", "pass", "serving", "next"} => Seated(<<"conn", c>>)
       /\ qpc[c] \in {"off", "arrived", "looked", "serving", "next"}
            => claim[<<"handshake", c>>] = "none"
       /\ qpc[c] \in {"off", "arrived", "looked", "seat", "shake", "first"}
            => claim[<<"conn", c>>] = "none"
  /\ \A o \in AllStreams :
       /\ qst[o] \in {"auth", "relay"} => Seated(o)
       /\ qst[o] = "off" => claim[o] = "none"

\* Places stay within their limits although each is counted before it is tested.
PlacesBounded ==
  \A l \in Limiter :
    /\ Cardinality(In(l, {"counted", "held"})) <= MaxPlaces[l]
    /\ \A k \in QuicSource \X BOOLEAN : share[l][k] <= MaxShare[l]

\* Addresses that are not validated leave half of the handshakes to those that are: Retry
\* (mod.rs:387-388).
RoomForValidated ==
  Cardinality({o \in In("handshake", {"counted", "held"}) : ~ valid[o[2]]}) <= SoftHandshakes

QuicPlaces == CountsExact /\ PlacesHeld /\ PlacesBounded /\ RoomForValidated

\* What a relayed stream shows as an end is one: the sender of that way ended, and all of it was
\* handed over, although the pump of one way stops that of the other at any moment and what is
\* dropped looks finished.
QuicWhole ==
  leg \in {"relay", "over"} =>
    \A d \in Path : shows[d] = "clean" => close[d] = "clean" /\ handed[d] = given[d]

\* What is sent after a credential was revoked goes nowhere.
QuicRevoked == revoked => \A d \in Path : handed[d] <= givenThen[d]

\* Every place is somebody's, and every end is true.
QuicSound == QuicPlaces /\ QuicWhole /\ QuicRevoked
=============================================================================
