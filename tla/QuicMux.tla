------------------------------ MODULE QuicMux ------------------------------
(***************************************************************************)
(* The QUIC connection that all tunnels of an outbound share               *)
(* (src/src/proxy/quic.rs).                                                *)
(*                                                                         *)
(* Callers of open_stream take the connection that is there or have one    *)
(* dialled: one of them leads, the others wait for its outcome.  A leader  *)
(* may be cancelled at any time.  A server that refuses a client closes    *)
(* the connection at once; whoever sees that first (a caller, or the task  *)
(* that watches the connection) counts it, and dialling pauses for longer  *)
(* each time.  Nothing is locked across an await.                          *)
(***************************************************************************)
EXTENDS Naturals, FiniteSets

CONSTANTS
  Callers,       \* bound: callers of open_stream at a time, numbered
  Conns,         \* bound: connections that somebody still holds, numbered
  MaxStreak,     \* bound: refusals in a row that are told apart
  RejectWindow, DialBackoff,  \* in units of which a pause after a first refusal is one
  MaxPause

ASSUME QuicAssumption ==
  {Callers, Conns, MaxStreak, RejectWindow, DialBackoff, MaxPause} \subseteq Nat \ {0}

Caller == 1 .. Callers
Link == 1 .. Conns
NoOne == 0  \* no connection, no caller

VARIABLES
  inner,     \* MuxInner: conn, dialing (its leader), since, streak, and two pauses
  link,      \* each connection: how it is, its age, whether it is watched, times it was counted
  caller     \* each caller of open_stream

quicVars == <<inner, link, caller>>

NoLink == [state |-> "none", age |-> 0, watched |-> FALSE, counted |-> 0]
NoCall == [pc |-> "none", conn |-> NoOne, cached |-> FALSE, second |-> FALSE,
           on |-> NoOne, told |-> "nothing"]

QuicInit ==
  /\ inner = [conn |-> NoOne, dialing |-> NoOne, since |-> FALSE, streak |-> 0,
              cooldown |-> 0, backoff |-> 0]
  /\ link = [l \in Link |-> NoLink]
  /\ caller = [c \in Caller |-> NoCall]

In(c, pc) == caller[c].pc = pc
Least(S) == CHOOSE x \in S : \A y \in S : x <= y
Closed(l) == link[l].state \in {"refused", "lost"}

\* reject_backoff: 1, 2, 4, ... up to a maximum.
Pause(streak) == LET p == 2 ^ (streak - 1) IN IF p > MaxPause THEN MaxPause ELSE p

-----------------------------------------------------------------------------
(* The settlement of a connection that was seen closed.                    *)

\* Closed by the server with code 0, within the window: QuicTick has it seen at once.
IsRejection(l) == link[l].state = "refused"

\* note_conn_closed: a connection is counted when since is still there.  At that, the closed
\* connection is taken out of its place.
Settlement(l) ==
  LET streak == IF inner.streak < MaxStreak THEN inner.streak + 1 ELSE MaxStreak
      noted == IF ~inner.since THEN inner
               ELSE IF IsRejection(l)
               THEN [inner EXCEPT !.since = FALSE, !.streak = streak, !.cooldown = Pause(streak)]
               ELSE [inner EXCEPT !.since = FALSE, !.streak = 0, !.cooldown = 0]
  IN [noted EXCEPT !.conn = NoOne]

Counted(l) == IF inner.since THEN [link EXCEPT ![l].counted = @ + 1] ELSE link

-----------------------------------------------------------------------------
(* open_stream and get_or_dial_conn.                                       *)

\* A caller starts, or starts again after a leader was cancelled or its stream has failed.
Looks(c) == In(c, "none") \/ In(c, "get")

\* The connection in place is open.
Cached(c) ==
  /\ Looks(c) /\ inner.conn # NoOne /\ ~Closed(inner.conn)
  /\ caller' = [caller EXCEPT ![c].pc = "open", ![c].conn = inner.conn, ![c].cached = TRUE]
  /\ UNCHANGED <<inner, link>>

\* What a caller does when there is none, from what is known by then: follow, fail or lead.
FollowOrLead(c, known) ==
  IF known.dialing # NoOne
  THEN /\ caller' = [caller EXCEPT ![c].pc = "follow", ![c].on = known.dialing]
       /\ inner' = known
  ELSE IF known.cooldown > 0 \/ known.backoff > 0
  THEN /\ caller' = [caller EXCEPT ![c] = NoCall]
       /\ inner' = known
  ELSE /\ caller' = [caller EXCEPT ![c].pc = "dial"]
       /\ inner' = [known EXCEPT !.dialing = c]

Get(c) ==
  /\ Looks(c)
  /\ \/ inner.conn = NoOne /\ FollowOrLead(c, inner) /\ UNCHANGED link
     \/ /\ inner.conn # NoOne /\ Closed(inner.conn)
        /\ FollowOrLead(c, Settlement(inner.conn)) /\ link' = Counted(inner.conn)

\* The leader has a connection: it is put in place and watched.
Dialled(c) ==
  /\ In(c, "dial")
  /\ \E l \in {x \in Link : link[x].state = "none"} :
       /\ l = Least({x \in Link : link[x].state = "none"})
       /\ link' = [link EXCEPT ![l] = [NoLink EXCEPT !.state = "open", !.watched = TRUE]]
       /\ inner' = [inner EXCEPT !.conn = l, !.since = TRUE, !.backoff = 0,
                                 !.dialing = NoOne]
       /\ caller' = [caller EXCEPT ![c].pc = "tell", ![c].conn = l, ![c].cached = FALSE,
                                   ![c].told = "connected"]

DialFailed(c) ==
  /\ In(c, "dial")
  /\ inner' = [inner EXCEPT !.backoff = DialBackoff, !.dialing = NoOne]
  /\ caller' = [caller EXCEPT ![c].pc = "tell", ![c].told = "failed"]
  /\ UNCHANGED link

\* Mutant: a cancelled leader leaves its place taken.
AbandonedKept == inner

\* DialLeaderGuard: the place of a cancelled leader is free again.
Abandoned == [inner EXCEPT !.dialing = NoOne]

\* The caller's task is dropped while it dials.
Cancel(c) ==
  /\ In(c, "dial")
  /\ inner' = Abandoned
  /\ caller' = [caller EXCEPT ![c].pc = "tell", ![c].told = "cancelled"]
  /\ UNCHANGED link

\* The outcome goes to those who wait, after the lock was released.
Tell(c) ==
  /\ In(c, "tell")
  /\ caller' = [x \in Caller |->
       IF x = c THEN IF caller[c].told = "connected"
                     THEN [caller[c] EXCEPT !.pc = "open", !.told = "nothing"] ELSE NoCall
       ELSE IF In(x, "follow") /\ caller[x].on = c
            THEN [caller[x] EXCEPT !.told = caller[c].told, !.conn = caller[c].conn]
            ELSE caller[x]]
  /\ UNCHANGED <<inner, link>>

\* A follower reads the outcome; one that was cancelled makes it compete again.
Told(c) ==
  /\ In(c, "follow") /\ caller[c].told # "nothing"
  /\ caller' = [caller EXCEPT ![c] =
       CASE @.told = "connected" -> [@ EXCEPT !.pc = "open", !.cached = FALSE,
                                              !.on = NoOne, !.told = "nothing"]
         [] @.told = "failed" -> NoCall
         [] OTHER -> [NoCall EXCEPT !.pc = "get", !.second = caller[c].second]]
  /\ UNCHANGED <<inner, link>>

\* A follower's task is dropped.
Leave(c) ==
  /\ In(c, "follow") \/ In(c, "open")
  /\ caller' = [caller EXCEPT ![c] = NoCall]
  /\ UNCHANGED <<inner, link>>

Opened(c) ==
  /\ In(c, "open") /\ ~Closed(caller[c].conn)
  /\ caller' = [caller EXCEPT ![c] = NoCall]
  /\ UNCHANGED <<inner, link>>

\* The connection that somebody saw closed is still the one in place.
SameConn(l) == inner.conn = l

\* open_bi fails: only a connection that was there before is worth another try.
OpenFailed(c) ==
  /\ In(c, "open") /\ Closed(caller[c].conn)
  /\ LET l == caller[c].conn IN
       IF SameConn(l) THEN inner' = Settlement(l) /\ link' = Counted(l)
       ELSE UNCHANGED <<inner, link>>
  /\ caller' = [caller EXCEPT ![c] =
       IF @.cached /\ ~@.second THEN [NoCall EXCEPT !.pc = "get", !.second = TRUE] ELSE NoCall]

-----------------------------------------------------------------------------
(* The connections.                                                        *)

\* The server refuses the client, or the connection ends later or in another way.
Close(l, how) ==
  /\ link[l].state = "open"
  /\ how = "refused" => link[l].age < RejectWindow
  /\ link' = [link EXCEPT ![l].state = how, ![l].age = 0]
  /\ UNCHANGED <<inner, caller>>

\* The task that watches a connection.
Watcher(l) ==
  /\ Closed(l) /\ link[l].watched
  /\ IF SameConn(l)
     THEN inner' = Settlement(l) /\ link' = [Counted(l) EXCEPT ![l].watched = FALSE]
     ELSE link' = [link EXCEPT ![l].watched = FALSE] /\ UNCHANGED inner
  /\ UNCHANGED caller

\* check_conn_closed, by whoever has met an error on a stream.
CheckClosed ==
  /\ inner.conn # NoOne /\ Closed(inner.conn)
  /\ inner' = Settlement(inner.conn)
  /\ link' = Counted(inner.conn)
  /\ UNCHANGED caller

\* Nobody holds a closed connection any more.
Forget(l) ==
  /\ Closed(l) /\ ~link[l].watched /\ inner.conn # l
  /\ \A c \in Caller : caller[c].conn # l
  /\ link' = [link EXCEPT ![l] = NoLink]
  /\ UNCHANGED <<inner, caller>>

Less(n) == IF n > 0 THEN n - 1 ELSE 0

\* A connection that is closed early is seen before the window has passed.
QuicTick ==
  /\ \A l \in Link : link[l].state = "refused" => link[l].counted > 0
  /\ \/ inner.cooldown > 0 \/ inner.backoff > 0
     \/ \E l \in Link : link[l].state = "open" /\ link[l].age < RejectWindow
  /\ inner' = [inner EXCEPT !.cooldown = Less(@), !.backoff = Less(@)]
  /\ link' = [l \in Link |-> IF link[l].state = "open" /\ link[l].age < RejectWindow
                             THEN [link[l] EXCEPT !.age = @ + 1] ELSE link[l]]
  /\ UNCHANGED caller

OpenStream(c) == \/ Cached(c) \/ Get(c) \/ Dialled(c) \/ DialFailed(c) \/ Cancel(c)
                 \/ Tell(c) \/ Told(c) \/ Leave(c) \/ Opened(c) \/ OpenFailed(c)

QuicNext ==
  \/ \E c \in Caller : OpenStream(c)
  \/ \E l \in Link : Watcher(l) \/ Forget(l) \/ \E how \in {"refused", "lost"} : Close(l, how)
  \/ CheckClosed \/ QuicTick

QuicSpec == QuicInit /\ [][QuicNext]_quicVars

-----------------------------------------------------------------------------
(* Properties.                                                             *)

Leaders == {c \in Caller : In(c, "dial")}

\* One caller at most dials, and the place of the dial in progress is taken as long as it
\* does: no leader that was cancelled or has failed leaves the others waiting for an outcome
\* that never comes, or waiting for each other.
DialLed ==
  /\ Leaders = {inner.dialing} \ {NoOne}
  /\ Leaders # {} => inner.conn = NoOne
  /\ \A c \in Caller : In(c, "follow") /\ caller[c].told = "nothing"
       => caller[c].on \in Leaders \/ In(caller[c].on, "tell")

\* Every connection is settled exactly once, when it is closed, whoever sees that first: a
\* refusal is never counted twice, and never against the connection that came after it.
CountedOnce ==
  /\ \A l \in Link : link[l].state # "none" =>
       link[l].counted = IF l = inner.conn THEN 0 ELSE 1
  /\ inner.since <=> inner.conn # NoOne
  /\ \A l \in Link : link[l].state = "open" => inner.conn = l

\* Whoever leaves, dials or sees a connection closed, the callers share one and one outcome.
SharedRight == DialLed /\ CountedOnce
=============================================================================
