---------------------------- MODULE ServerProofs ----------------------------
(***************************************************************************)
(* Proofs about the server's way of a connection: the handshake and its    *)
(* places (ServerHandshake), the tokens (ReplayCache), UDP sessions        *)
(* (ServerUdp), the rate limits (RateLimit) and the relay of a tunnel (Relay).*)
(***************************************************************************)
EXTENDS ServerHandshake, ReplayCache, ServerUdp, RateLimit, Relay,
        FiniteSetTheorems, WellFoundedInduction, TLAPS

-----------------------------------------------------------------------------
(* The handshake.                                                          *)

\* The labels at which a connection holds a permit, is counted among all reflections, holds a
\* place of its address, holds a reflection's place of its address, and is being reflected.
WithPermit == Label \ {"off", "accepting"}
WithCount == Past \cup {"rate", "slot", "undo"}
BeingReflected == Label \ {"off", "session", "end"}
WithPlace == Past \cup {"dropped"}
WithSitePlace == Past \cup {"rate", "slot"}

PreState == {"none", "sleep", "permit", "connect", "aborted", "abortedHolding"}
Holding == {"connect", "abortedHolding"}

\* TypeOK, without that the counts are natural.
Locals ==
  /\ pc \in [Conn -> Label]
  /\ hello \in [Conn -> {"empty", "bytes"}]
  /\ sock \in [Conn -> BOOLEAN] /\ tries \in [Conn -> 0 .. 2]
  /\ pre \in [Conn -> PreState]
  /\ chan \in [Conn -> {"open", "socket", "closed", "dropped"}]
  /\ per_ip \in [Source -> Int] /\ permits \in Int
  /\ unauth \in Int /\ unauth_ip \in [Source -> Int] /\ rate \in [Source -> Nat]
  /\ inflight \in Int

\* A task that may still begin a connection has a handshake that is not over.
Armed == \A c \in Conn :
  /\ pre[c] \in {"sleep", "permit", "connect"}
       => pc[c] \notin {"off", "accepting", "tail", "session", "leave", "end"}
  /\ pc[c] = "accepting" => pre[c] = "none"

\* Attempts are counted while forwarding, and the third is not made.
Tried == \A c \in Conn :
  /\ tries[c] = 0 \/ pc[c] \in Past \cup {"dropped", "return"}
  /\ tries[c] = 2 => pc[c] \notin {"forward", "write", "first"}

HandshakeInv == Locals /\ Armed /\ Tried /\ PlacesExact /\ LimitsKept

-----------------------------------------------------------------------------
(* Counting.                                                               *)

One(p) == IF p THEN 1 ELSE 0
Ind(x, S) == One(x \in S)

Count(L) == Cardinality(At(L))
CountFrom(a, L) == Cardinality(From(a, At(L)))
PreAt == {c \in Conn : pre[c] \in Holding}

\* Sets that differ in one element at most.
LEMMA Differ ==
  ASSUME NEW S, IsFiniteSet(S), NEW T, NEW c, T \ {c} = S \ {c}
  PROVE  /\ Cardinality(S) \in Nat
         /\ Cardinality(T) = Cardinality(S) + One(c \in T) - One(c \in S)
<1>1. Cardinality(S) \in Nat
  BY FS_CardinalityType
<1>2. CASE c \in T <=> c \in S
  <2>1. T = S
    BY <1>2
  <2> QED BY <1>1, <2>1 DEF One
<1>3. CASE c \in T /\ c \notin S
  <2>1. T = S \cup {c}
    BY <1>3
  <2>2. Cardinality(T) = Cardinality(S) + 1
    BY <1>3, <2>1, FS_AddElement
  <2> QED BY <1>1, <1>3, <2>2 DEF One
<1>4. CASE c \notin T /\ c \in S
  <2>1. T = S \ {c}
    BY <1>4
  <2>2. Cardinality(T) = Cardinality(S) - 1
    BY <1>4, <2>1, FS_RemoveElement
  <2> QED BY <1>1, <1>4, <2>2 DEF One
<1> QED BY <1>2, <1>3, <1>4

\* Connections are finitely many.
LEMMA FiniteConns == \A S \in SUBSET Conn : IsFiniteSet(S)
BY HandshakeAssumption, FS_Subset

\* One connection moves on.
LEMMA GotoCounts ==
  ASSUME Locals, NEW c \in Conn, NEW l \in Label, Goto(c, l), NEW L
  PROVE  /\ Count(L) \in Nat
         /\ Count(L)' = Count(L) + Ind(l, L) - Ind(pc[c], L)
         /\ \A a \in Source :
              /\ CountFrom(a, L) \in Nat
              /\ CountFrom(a, L)' = CountFrom(a, L) +
                   (IF a = source[c] THEN Ind(l, L) - Ind(pc[c], L) ELSE 0)
<1>1. /\ \A d \in Conn : pc'[d] = IF d = c THEN l ELSE pc[d]
      /\ pc'[c] = l
  BY DEF Locals, Goto
<1>2. Count(L) \in Nat /\ Count(L)' = Count(L) + Ind(l, L) - Ind(pc[c], L)
  <2> DEFINE S == At(L)
             T == At(L)'
  <2>1. /\ S \in SUBSET Conn /\ T \ {c} = S \ {c}
        /\ c \in T <=> l \in L
        /\ c \in S <=> pc[c] \in L
    BY <1>1 DEF At
  <2>2. IsFiniteSet(S)
    BY <2>1, FiniteConns
  <2>3. Count(L) = Cardinality(S) /\ Count(L)' = Cardinality(T)
    BY DEF Count
  <2> HIDE DEF S, T
  <2> QED BY <2>1, <2>2, <2>3, Differ DEF Ind, One
<1>3. ASSUME NEW a \in Source
      PROVE  /\ CountFrom(a, L) \in Nat
             /\ CountFrom(a, L)' = CountFrom(a, L) +
                  (IF a = source[c] THEN Ind(l, L) - Ind(pc[c], L) ELSE 0)
  <2> DEFINE S == From(a, At(L))
             T == From(a, At(L))'
  <2>1. /\ S \in SUBSET Conn /\ T \ {c} = S \ {c}
        /\ c \in T <=> a = source[c] /\ l \in L
        /\ c \in S <=> a = source[c] /\ pc[c] \in L
    BY <1>1 DEF At, From
  <2>2. IsFiniteSet(S)
    BY <2>1, FiniteConns
  <2>3. CountFrom(a, L) = Cardinality(S) /\ CountFrom(a, L)' = Cardinality(T)
    BY DEF CountFrom
  <2> HIDE DEF S, T
  <2> QED BY <2>1, <2>2, <2>3, Differ DEF Ind, One
<1> QED BY <1>2, <1>3

\* The task of one Preconnect goes on.
LEMMA PreCounts ==
  ASSUME Locals, NEW c \in Conn, NEW p \in PreState, pre' = [pre EXCEPT ![c] = p]
  PROVE  /\ Cardinality(PreAt) \in Nat
         /\ Cardinality(PreAt)' = Cardinality(PreAt) + Ind(p, Holding) - Ind(pre[c], Holding)
<1> DEFINE S == PreAt
           T == PreAt'
<1>1. /\ S \in SUBSET Conn /\ T \ {c} = S \ {c}
      /\ c \in T <=> p \in Holding
      /\ c \in S <=> pre[c] \in Holding
  BY DEF PreAt, Locals
<1>2. IsFiniteSet(S)
  BY <1>1, FiniteConns
<1>3. Cardinality(PreAt)' = Cardinality(T)
  OBVIOUS
<1> HIDE DEF T
<1>4. Cardinality(S) \in Nat
      /\ Cardinality(T) = Cardinality(S) + One(c \in T) - One(c \in S)
  BY <1>1, <1>2, Differ
<1> QED BY <1>1, <1>3, <1>4 DEF Ind, One

\* An abort keeps the permit until the task is gone.
LEMMA DropKeepsPermit ==
  ASSUME Locals, NEW c \in Conn, DropPreconnect(c)
  PROVE  PreAt' = PreAt
BY DEF PreAt, Locals, DropPreconnect, Holding

-----------------------------------------------------------------------------
(* What a step does to the label of a connection and to the counts.        *)

\* A connection goes to l, the counts with it, and past a limit only where there is room.
Moves(c, l) ==
  LET Delta(L) == Ind(l, L) - Ind(pc[c], L) IN
  /\ Goto(c, l)
  /\ permits' = permits + Delta(WithPermit)
  /\ unauth' = unauth + Delta(WithCount)
  /\ \A a \in Source :
       /\ per_ip'[a] = per_ip[a] + (IF a = source[c] THEN Delta(BeingReflected) ELSE 0)
       /\ unauth_ip'[a] = unauth_ip[a] + (IF a = source[c] THEN Delta(WithPlace) ELSE 0)
  /\ l \in WithSitePlace => pc[c] \in WithSitePlace \/ unauth < MaxUnauth
  /\ l \in Past => pc[c] \in Past \/ unauth_ip[source[c]] < MaxUnauthIp

\* Accepting takes a place of all, then one of the address.
LEMMA AcceptMoves ==
  ASSUME Locals, NEW c \in Conn, Accept(c) \/ Admit(c)
  PROVE  \E l \in Label : Moves(c, l)
<1>1. source[c] \in Source
  BY HandshakeAssumption
<1>2. CASE Accept(c)
  <2>1. Moves(c, "accepting")
    BY <1>1, <1>2 DEF Locals, Accept, Moves, Ind, One, Add, Goto, Label, WithPermit, WithCount,
      BeingReflected, WithPlace, WithSitePlace, Past, reflections
  <2> QED BY <2>1 DEF Label
<1>3. CASE Admit(c)
  <2>1. CASE Goto(c, "reading") /\ permits' = permits + 1 /\ UNCHANGED per_ip
    <3>1. Moves(c, "reading")
      BY <1>1, <1>3, <2>1 DEF Locals, Admit, Moves, Ind, One, Goto, Label, WithPermit, WithCount,
        BeingReflected, WithPlace, WithSitePlace, Past, reflections
    <3> QED BY <3>1 DEF Label
  <2>2. CASE Goto(c, "off") /\ per_ip' = Add(per_ip, source[c], -1) /\ UNCHANGED permits
    <3>1. Moves(c, "off")
      BY <1>1, <1>3, <2>2 DEF Locals, Admit, Moves, Ind, One, Add, Goto, Label, WithPermit,
        WithCount, BeingReflected, WithPlace, WithSitePlace, Past, reflections
    <3> QED BY <3>1 DEF Label
  <2> QED BY <1>3, <2>1, <2>2 DEF Admit
<1> QED BY <1>2, <1>3

\* Reading the ClientHello takes and gives no place.
LEMMA ReadMoves ==
  ASSUME Locals, NEW c \in Conn, Read(c)
  PROVE  \E l \in Label : Moves(c, l)
<1>1. source[c] \in Source
  BY HandshakeAssumption
<1>2. \E l \in {"reading", "fallback", "authed", "failed", "return"} :
        pc[c] = "reading" /\ Goto(c, l) /\ UNCHANGED <<places, reflections>>
  BY DEF Read, Receive, Malformed, Complete, Eof, Silence, Reads
<1>3. PICK l \in {"reading", "fallback", "authed", "failed", "return"} :
        pc[c] = "reading" /\ Goto(c, l) /\ UNCHANGED <<places, reflections>>
  BY <1>2
<1>4. Moves(c, l)
  BY <1>1, <1>3 DEF Locals, Moves, Ind, One, Label, WithPermit, WithCount, BeingReflected,
     WithPlace,
    WithSitePlace, Past, reflections, places
<1> QED BY <1>4 DEF Label

\* A handshake that is over gives back the place of those not recognised.
LEMMA HandshakeMoves ==
  ASSUME Locals, NEW c \in Conn, Handshake(c)
  PROVE  \E l \in Label : Moves(c, l)
<1> USE DEF Locals, Moves, Ind, One, Label, WithPermit, WithCount, BeingReflected, WithPlace,
       WithSitePlace, Past,
      Goto, Add, reflections, places
<1>1. source[c] \in Source
  BY HandshakeAssumption
<1>2. CASE TakeSocket(c)
  <2>1. Moves(c, "reflect")
    BY <1>1, <1>2 DEF TakeSocket
  <2> QED BY <2>1
<1>3. CASE TakeReadySocket(c)
  <2>1. Moves(c, "reflect")
    BY <1>1, <1>3 DEF TakeReadySocket
  <2> QED BY <2>1
<1>4. CASE Authenticated(c)
  <2>1. Moves(c, "tail")
    BY <1>1, <1>4 DEF Authenticated
  <2> QED BY <2>1
<1>5. CASE ConsumeTail(c)
  <2>1. Moves(c, "session") \/ Moves(c, "leave")
    BY <1>1, <1>5 DEF ConsumeTail
  <2> QED BY <2>1
<1>6. CASE SessionEnds(c)
  <2>1. Moves(c, "end")
    BY <1>1, <1>6 DEF SessionEnds
  <2> QED BY <2>1
<1>7. CASE Return(c)
  <2>1. Moves(c, "leave")
    BY <1>1, <1>7 DEF Return
  <2> QED BY <2>1
<1>8. CASE Leave(c)
  <2>1. Moves(c, "end")
    BY <1>1, <1>8 DEF Leave
  <2> QED BY <2>1
<1>9. CASE End(c)
  <2>1. Moves(c, "off")
    BY <1>1, <1>9 DEF End
  <2> QED BY <2>1
<1> QED BY <1>2, <1>3, <1>4, <1>5, <1>6, <1>7, <1>8, <1>9 DEF Handshake

\* A reflection takes its two places, or undoes what it took.
LEMMA ReflectionMoves ==
  ASSUME Locals, NEW c \in Conn, Reflection(c)
  PROVE  \E l \in Label : Moves(c, l)
<1> USE DEF Locals, Moves, Ind, One, Label, WithPermit, WithCount, BeingReflected, WithPlace,
       WithSitePlace, Past,
      Goto, Add, reflections, places
<1>1. source[c] \in Source /\ MaxUnauth \in Nat /\ MaxUnauthIp \in Nat
  BY HandshakeAssumption
<1>2. CASE Reflect(c)
  <2>1. CASE TooMany(unauth)
    <3>1. Moves(c, "undo")
      BY <1>1, <1>2, <2>1 DEF Reflect
    <3> QED BY <3>1
  <2>2. CASE ~TooMany(unauth)
    <3>1. unauth < MaxUnauth
      BY <1>1, <2>2 DEF TooMany
    <3>2. Moves(c, "rate")
      BY <1>1, <1>2, <2>2, <3>1 DEF Reflect
    <3> QED BY <3>2
  <2> QED BY <2>1, <2>2
<1>3. CASE Rate(c)
  <2>1. pc[c] = "rate" /\ UNCHANGED <<places, reflections>>
    BY <1>3 DEF Rate
  <2>2. PICK l \in {"undo", "slot"} : Goto(c, l)
    BY <1>3 DEF Rate
  <2>3. Moves(c, l)
    BY <1>1, <2>1, <2>2
  <2> HIDE DEF Moves
  <2> QED BY <2>2, <2>3
<1>4. CASE Slot(c)
  <2>1. Moves(c, "undo") \/ Moves(c, "forward")
    BY <1>1, <1>4 DEF Slot
  <2> QED BY <2>1
<1>5. CASE Undo(c)
  <2>1. Moves(c, "return")
    BY <1>1, <1>5 DEF Undo
  <2> QED BY <2>1
<1>6. CASE DropGlobal(c)
  <2>1. Moves(c, "dropped")
    BY <1>1, <1>6 DEF DropGlobal
  <2> QED BY <2>1
<1>7. CASE DropSource(c)
  <2>1. Moves(c, "return")
    BY <1>1, <1>7 DEF DropSource
  <2> QED BY <2>1
<1> QED BY <1>2, <1>3, <1>4, <1>5, <1>6, <1>7 DEF Reflection

\* What forwards gives back its places one by one at its end.
LEMMA ForwardMoves ==
  ASSUME Locals, NEW c \in Conn, Forward(c)
  PROVE  \E l \in Label : Moves(c, l)
<1>1. source[c] \in Source
  BY HandshakeAssumption
<1>2. \E l \in Past : pc[c] \in Past /\ Goto(c, l) /\ UNCHANGED <<places, reflections>>
  BY DEF Forward, Connect, Write, FirstBytes, Copied, Template, Forwarding, Again, Past
<1>3. PICK l \in Past : pc[c] \in Past /\ Goto(c, l) /\ UNCHANGED <<places, reflections>>
  BY <1>2
<1>4. Moves(c, l)
  BY <1>1, <1>3 DEF Locals, Moves, Ind, One, Label, WithPermit, WithCount, BeingReflected,
     WithPlace,
    WithSitePlace, Past, reflections, places
<1> QED BY <1>4 DEF Label, Past

\* No count changes while no connection moves.
Stays == UNCHANGED <<pc, per_ip, permits, unauth, unauth_ip>>

\* Every step moves one connection to another label and the counts with it, or neither.
LEMMA StepMoves ==
  ASSUME Locals, [Next]_vars
  PROVE  Stays \/ \E c \in Conn, l \in Label : Moves(c, l)
<1>1. ASSUME NEW c \in Conn, PreStep(c)
      PROVE  Stays
  BY <1>1 DEF PreStep, PreFire, PrePermit, PreConnect, PreAbort, Stays, places, reflections
<1>2. ASSUME NEW a \in Source, WindowEnds(a)
      PROVE  Stays
  BY <1>2 DEF WindowEnds, Stays, places, reflections
<1>3. CASE UNCHANGED vars
  BY <1>3 DEF vars, Stays
<1> QED
  BY <1>1, <1>2, <1>3, AcceptMoves, ReadMoves, HandshakeMoves, ReflectionMoves, ForwardMoves
  DEF Next

-----------------------------------------------------------------------------
(* The counts are exact, and the limits kept.                              *)

\* PlacesExact, in the names above.
LEMMA Places ==
  PlacesExact <=>
    /\ permits = Count(WithPermit) /\ unauth = Count(WithCount)
    /\ \A a \in Source :
         per_ip[a] = CountFrom(a, BeingReflected) /\ unauth_ip[a] = CountFrom(a, WithPlace)
    /\ inflight = Cardinality(PreAt)
BY DEF PlacesExact, WithPermit, WithCount, BeingReflected, WithPlace, Count, CountFrom, Unjudged,
   PreAt,
  Holding

PreDelta(c, p) == Ind(p, Holding) - Ind(pre[c], Holding)

\* The count of advance connections follows the one that moves.
LEMMA PreGoes ==
  ASSUME Locals, inflight = Cardinality(PreAt), NEW c \in Conn, NEW p \in PreState,
         pre' = [pre EXCEPT ![c] = p], inflight' = inflight + PreDelta(c, p)
  PROVE  inflight' = Cardinality(PreAt)'
BY PreCounts DEF PreDelta, Ind, One

\* It is the number of those who hold a place.
LEMMA PreStepsExact ==
  ASSUME Locals, Armed, inflight = Cardinality(PreAt), [Next]_vars
  PROVE  inflight' = Cardinality(PreAt)'
<1>1. inflight \in Int
  BY DEF Locals
<1>2. ASSUME NEW c \in Conn, PreStep(c)
      PROVE  inflight' = Cardinality(PreAt)'
  <2>1. CASE PreFire(c)
    <3>1. pre' = [pre EXCEPT ![c] = "permit"] /\ inflight' = inflight + PreDelta(c, "permit")
      BY <1>1, <2>1 DEF PreFire, PreDelta, Ind, One, Holding
    <3> QED BY <3>1, PreGoes DEF PreState
  <2>2. CASE PrePermit(c)
    <3>1. PICK p \in {"connect", "none"} :
            pre' = [pre EXCEPT ![c] = p] /\ inflight' = inflight + PreDelta(c, p)
      BY <1>1, <2>2 DEF PrePermit, PreDelta, Ind, One, Holding
    <3> QED BY <3>1, PreGoes DEF PreState
  <2>3. CASE PreConnect(c)
    <3>1. pre' = [pre EXCEPT ![c] = "none"] /\ inflight' = inflight + PreDelta(c, "none")
      BY <1>1, <2>3 DEF PreConnect, PreDelta, Ind, One, Holding
    <3> QED BY <3>1, PreGoes DEF PreState
  <2>4. CASE PreAbort(c)
    <3>1. pre' = [pre EXCEPT ![c] = "none"] /\ inflight' = inflight + PreDelta(c, "none")
      BY <1>1, <2>4 DEF PreAbort, PreDelta, Ind, One, Holding
    <3> QED BY <3>1, PreGoes DEF PreState
  <2> QED BY <1>2, <2>1, <2>2, <2>3, <2>4 DEF PreStep
<1>3. ASSUME NEW c \in Conn, Admit(c)
      PROVE  inflight' = Cardinality(PreAt)'
  <2>1. CASE pre' = [pre EXCEPT ![c] = "sleep"]
    <3>1. inflight' = inflight + PreDelta(c, "sleep")
      BY <1>1, <1>3 DEF Armed, Admit, PreDelta, Ind, One, Holding
    <3> QED BY <2>1, <3>1, PreGoes DEF PreState
  <2>2. CASE UNCHANGED pre
    BY <1>3, <2>2 DEF Admit, PreAt
  <2> QED BY <1>3, <2>1, <2>2 DEF Admit
<1>4. ASSUME NEW c \in Conn, Accept(c) \/ Read(c) \/ Handshake(c) \/ Reflection(c) \/ Forward(c)
      PROVE  UNCHANGED inflight /\ (DropPreconnect(c) \/ UNCHANGED pre)
  <2>1. CASE Accept(c) \/ Read(c)
    BY <2>1 DEF Accept, Read, Receive, Malformed, Complete, Eof, Silence, Reads, preconnect
  <2>2. CASE Handshake(c)
    BY <2>2 DEF Handshake, TakeSocket, TakeReadySocket, Authenticated, ConsumeTail,
      SessionEnds, Return, Leave, End, preconnect
  <2>3. CASE Reflection(c)
    BY <2>3 DEF Reflection, Reflect, Rate, Slot, Undo, DropGlobal, DropSource, preconnect
  <2>4. CASE Forward(c)
    BY <2>4 DEF Forward, Connect, Write, FirstBytes, Copied, Template, Forwarding, Again,
      preconnect
  <2> QED BY <1>4, <2>1, <2>2, <2>3, <2>4
<1>5. ASSUME UNCHANGED <<pre, inflight>>
      PROVE  inflight' = Cardinality(PreAt)'
  BY <1>5 DEF PreAt
<1>6. ASSUME NEW c \in Conn, UNCHANGED inflight, DropPreconnect(c)
      PROVE  inflight' = Cardinality(PreAt)'
  BY <1>6, DropKeepsPermit
<1>7. ASSUME NEW a \in Source, WindowEnds(a)
      PROVE  UNCHANGED <<pre, inflight>>
  BY <1>7 DEF WindowEnds, preconnect
<1> QED BY <1>2, <1>3, <1>4, <1>5, <1>6, <1>7 DEF Next, vars

\* All counts are exact after each step.
LEMMA PlacesKept ==
  ASSUME Locals, Armed, PlacesExact, [Next]_vars
  PROVE  PlacesExact'
<1>1. inflight' = Cardinality(PreAt)'
  BY Places, PreStepsExact
<1>2. CASE Stays
  <2>1. At(WithPermit)' = At(WithPermit) /\ At(WithCount)' = At(WithCount)
        /\ \A a \in Source : From(a, At(BeingReflected))' = From(a, At(BeingReflected))
                             /\ From(a, At(WithPlace))' = From(a, At(WithPlace))
    BY <1>2 DEF Stays, At, From
  <2>2. permits' = Count(WithPermit)' /\ unauth' = Count(WithCount)'
        /\ \A a \in Source :
             per_ip'[a] = CountFrom(a, BeingReflected)' /\ unauth_ip'[a] = CountFrom(a, WithPlace)'
    BY <1>2, <2>1, Places DEF Stays, Count, CountFrom
  <2> QED BY <1>1, <2>2 DEF PlacesExact, WithPermit, WithCount,
      BeingReflected, WithPlace, Count, CountFrom, Unjudged, PreAt, Holding
<1>3. ASSUME NEW c \in Conn, NEW l \in Label, Moves(c, l)
      PROVE  PlacesExact'
  <2>1. Goto(c, l)
    BY <1>3 DEF Moves
  <2>2. permits' = Count(WithPermit)'
    BY <1>3, <2>1, GotoCounts, Places DEF Moves, Ind, One
  <2>3. unauth' = Count(WithCount)'
    BY <1>3, <2>1, GotoCounts, Places DEF Moves, Ind, One
  <2>4. ASSUME NEW a \in Source
        PROVE  per_ip'[a] = CountFrom(a, BeingReflected)'
              /\ unauth_ip'[a] = CountFrom(a, WithPlace)'
    <3>1. per_ip[a] = CountFrom(a, BeingReflected) /\ unauth_ip[a] = CountFrom(a, WithPlace)
      BY Places
    <3>2. per_ip'[a] = CountFrom(a, BeingReflected)'
      <4>1. per_ip'[a] = per_ip[a] +
              (IF a = source[c] THEN Ind(l, BeingReflected) - Ind(pc[c], BeingReflected) ELSE 0)
        BY <1>3 DEF Moves
      <4>2. CountFrom(a, BeingReflected)' = CountFrom(a, BeingReflected) +
              (IF a = source[c] THEN Ind(l, BeingReflected) - Ind(pc[c], BeingReflected) ELSE 0)
        BY <2>1, GotoCounts
      <4> QED BY <3>1, <4>1, <4>2
    <3>3. unauth_ip'[a] = CountFrom(a, WithPlace)'
      <4>1. unauth_ip'[a] = unauth_ip[a] +
              (IF a = source[c] THEN Ind(l, WithPlace) - Ind(pc[c], WithPlace) ELSE 0)
        BY <1>3 DEF Moves
      <4>2. CountFrom(a, WithPlace)' = CountFrom(a, WithPlace) +
              (IF a = source[c] THEN Ind(l, WithPlace) - Ind(pc[c], WithPlace) ELSE 0)
        BY <2>1, GotoCounts
      <4> QED BY <3>1, <4>1, <4>2
    <3> QED BY <3>2, <3>3
  <2> QED BY <1>1, <2>2, <2>3, <2>4 DEF PlacesExact, WithPermit, WithCount,
      BeingReflected, WithPlace, Count, CountFrom, Unjudged, PreAt, Holding
<1> QED BY <1>2, <1>3, StepMoves

\* Fewer labels, fewer connections.
LEMMA Fewer ==
  ASSUME NEW L, NEW M, L \subseteq M
  PROVE  Count(L) <= Count(M) /\ \A a \in Source : CountFrom(a, L) <= CountFrom(a, M)
<1>1. Count(L) <= Count(M)
  <2>1. At(L) \subseteq At(M) /\ At(M) \in SUBSET Conn
    BY DEF At
  <2> QED BY <2>1, FiniteConns, FS_Subset DEF Count
<1>2. ASSUME NEW a \in Source
      PROVE  CountFrom(a, L) <= CountFrom(a, M)
  <2>1. From(a, At(L)) \subseteq From(a, At(M)) /\ From(a, At(M)) \in SUBSET Conn
    BY DEF At, From
  <2> QED BY <2>1, FiniteConns, FS_Subset DEF CountFrom
<1> QED BY <1>1, <1>2

\* LimitsKept, in the names above.
LEMMA Limits ==
  LimitsKept <=>
    Count(WithSitePlace) <= MaxUnauth /\ \A a \in Source : CountFrom(a, Past) <= MaxUnauthIp
BY DEF LimitsKept, WithSitePlace, Count, CountFrom

\* A connection that goes past a limit finds room, with all that are past it counted.
LEMMA LimitsKeptByStep ==
  ASSUME Locals, PlacesExact, LimitsKept, [Next]_vars
  PROVE  LimitsKept'
<1>1. MaxUnauth \in Nat /\ MaxUnauthIp \in Nat
  BY HandshakeAssumption
<1>2. CASE Stays
  <2>1. At(WithSitePlace)' = At(WithSitePlace)
        /\ \A a \in Source : From(a, At(Past))' = From(a, At(Past))
    BY <1>2 DEF Stays, At, From
  <2> QED BY <2>1 DEF LimitsKept, WithSitePlace
<1>3. ASSUME NEW c \in Conn, NEW l \in Label, Moves(c, l)
      PROVE  LimitsKept'
  <2>1. Goto(c, l)
    BY <1>3 DEF Moves
  <2>2. Count(WithSitePlace)' <= MaxUnauth
    <3>1. Count(WithSitePlace) <= unauth /\ Count(WithSitePlace) <= MaxUnauth
      BY Fewer, Places, Limits DEF WithSitePlace, WithCount
    <3>2. Count(WithSitePlace) \in Nat /\ unauth \in Int
          /\ Count(WithSitePlace)' = Count(WithSitePlace)
                + Ind(l, WithSitePlace) - Ind(pc[c], WithSitePlace)
      BY <2>1, GotoCounts DEF Locals
    <3>3. l \in WithSitePlace => pc[c] \in WithSitePlace \/ unauth < MaxUnauth
      BY <1>3 DEF Moves
    <3> QED BY <1>1, <3>1, <3>2, <3>3 DEF Ind, One
  <2>3. ASSUME NEW a \in Source
        PROVE  CountFrom(a, Past)' <= MaxUnauthIp
    <3>1. CountFrom(a, Past) <= unauth_ip[a] /\ CountFrom(a, Past) <= MaxUnauthIp
      <4>1. CountFrom(a, Past) <= CountFrom(a, WithPlace)
        BY Fewer DEF WithPlace
      <4> QED BY <4>1, Places, Limits
    <3>2. CountFrom(a, Past) \in Nat /\ unauth_ip[a] \in Int
          /\ CountFrom(a, Past)' = CountFrom(a, Past) +
               (IF a = source[c] THEN Ind(l, Past) - Ind(pc[c], Past) ELSE 0)
      BY <2>1, GotoCounts DEF Locals
    <3>3. l \in Past => pc[c] \in Past \/ unauth_ip[source[c]] < MaxUnauthIp
      BY <1>3 DEF Moves
    <3> QED BY <1>1, <3>1, <3>2, <3>3 DEF Ind, One
  <2> QED BY <2>2, <2>3 DEF LimitsKept, WithSitePlace, Count, CountFrom
<1> QED BY <1>2, <1>3, StepMoves

-----------------------------------------------------------------------------
(* The other parts of the invariant.                                       *)

\* Dropping the advance connection keeps types.
LEMMA DropTypes ==
  ASSUME Locals, NEW c \in Conn, DropPreconnect(c)
  PROVE  /\ pre' \in [Conn -> PreState]
         /\ chan' \in [Conn -> {"open", "socket", "closed", "dropped"}]
BY DEF Locals, DropPreconnect, PreState

\* The variables keep their types.
LEMMA StepLocals ==
  ASSUME Locals, Tried, [Next]_vars
  PROVE  Locals'
<1> USE DEF Locals
<1>0. source \in [Conn -> Source]
  BY HandshakeAssumption
<1>1. CASE UNCHANGED vars
  BY <1>1 DEF vars
<1>2. ASSUME NEW c \in Conn, Accept(c) \/ Admit(c)
      PROVE  Locals'
  BY <1>0, <1>2 DEF Accept, Admit, Goto, Add, Label, PreState, read, preconnect, reflections
<1>3. ASSUME NEW c \in Conn, PreStep(c)
      PROVE  Locals'
  BY <1>3 DEF PreStep, PreFire, PrePermit, PreConnect, PreAbort, PreState, read, places,
    reflections
<1>4. ASSUME NEW c \in Conn, Read(c)
      PROVE  Locals'
  BY <1>4 DEF Read, Receive, Malformed, Complete, Eof, Silence, Reads, Goto, Label,
    preconnect, places, reflections
<1>5. ASSUME NEW c \in Conn, Handshake(c)
      PROVE  Locals'
  <2>1. CASE SessionEnds(c) \/ End(c)
    BY <2>1 DEF SessionEnds, End, Goto, Label, read, preconnect, places, reflections
  <2>2. CASE TakeSocket(c) \/ TakeReadySocket(c)
    <3>1. sock' = [sock EXCEPT ![c] = chan[c] = "socket"]
      BY <2>2 DEF TakeSocket, TakeReadySocket
    <3>2. sock' \in [Conn -> BOOLEAN]
      BY <3>1, Zenon
    <3>3. /\ pre' \in [Conn -> PreState]
          /\ chan' \in [Conn -> {"open", "socket", "closed", "dropped"}]
      BY <2>2, DropTypes DEF TakeSocket, TakeReadySocket
    <3>4. Goto(c, "reflect") /\ UNCHANGED <<hello, tries, inflight, places, reflections, rate>>
      BY <2>2 DEF TakeSocket, TakeReadySocket
    <3> QED BY <3>2, <3>3, <3>4 DEF Goto, Label, places, reflections
  <2>4. CASE Authenticated(c) \/ Return(c)
    <3>1. /\ pre' \in [Conn -> PreState]
          /\ chan' \in [Conn -> {"open", "socket", "closed", "dropped"}]
      BY <2>4, DropTypes DEF Authenticated, Return
    <3>2. \E l \in {"tail", "leave"} : Goto(c, l)
      BY <2>4 DEF Authenticated, Return
    <3>3. DropRead(c) /\ UNCHANGED <<inflight, places, reflections, rate>>
      BY <2>4 DEF Authenticated, Return
    <3> QED BY <3>1, <3>2, <3>3 DEF DropRead, Goto, Label, places, reflections
  <2>3. CASE ConsumeTail(c) \/ Leave(c)
    BY <1>0, <2>3 DEF ConsumeTail, Leave, Add, Goto, Label, read, preconnect, reflections
  <2> QED BY <1>5, <2>1, <2>2, <2>3, <2>4 DEF Handshake
<1>6. ASSUME NEW c \in Conn, Reflection(c)
      PROVE  Locals'
  <2>1. CASE Reflect(c) \/ Undo(c) \/ DropGlobal(c)
    BY <2>1 DEF Reflect, Undo, DropGlobal, Goto, Label, read, preconnect, places
  <2>2. source[c] \in Source
    BY <1>0
  <2>3. CASE Slot(c)
    <3>1. \E l \in {"forward", "undo"} : Goto(c, l)
      BY <2>3 DEF Slot
    <3>2. unauth_ip' \in [Source -> Int]
      BY <2>2, <2>3 DEF Slot, Add
    <3> QED BY <2>3, <3>1, <3>2 DEF Slot, Goto, Label, read, preconnect, places
  <2>4. CASE DropSource(c)
    BY <2>2, <2>4 DEF DropSource, Add, Goto, Label, read, preconnect, places
  <2>5. CASE Rate(c)
    <3>1. \E l \in {"slot", "undo"} : Goto(c, l)
      BY <2>5 DEF Rate
    <3>2. rate' \in [Source -> Nat]
      BY <2>2, <2>5 DEF Rate
    <3>3. UNCHANGED <<read, preconnect, places, reflections>>
      BY <2>5 DEF Rate
    <3> QED BY <3>1, <3>2, <3>3 DEF Goto, Label, read, preconnect, places, reflections
  <2> QED BY <1>6, <2>1, <2>3, <2>4, <2>5 DEF Reflection
<1>7. ASSUME NEW c \in Conn, Forward(c)
      PROVE  Locals'
  <2>1. CASE Connect(c) \/ Copied(c) \/ Template(c)
    BY <2>1 DEF Connect, Copied, Template, Forwarding, Goto, Label, preconnect, places,
      reflections
  <2>2. CASE Write(c) \/ FirstBytes(c)
    BY <2>2 DEF Tried, Write, FirstBytes, Forwarding, Again, Goto, Label, preconnect, places,
      reflections
  <2> QED BY <1>7, <2>1, <2>2 DEF Forward
<1>8. ASSUME NEW a \in Source, WindowEnds(a)
      PROVE  Locals'
  BY <1>8 DEF WindowEnds, read, preconnect, places, reflections
<1> QED BY <1>1, <1>2, <1>3, <1>4, <1>5, <1>6, <1>7, <1>8 DEF Next

\* Whoever may still begin a connection has a handshake that is not over.
LEMMA StepArmed ==
  ASSUME Locals, Armed, [Next]_vars
  PROVE  Armed'
<1> USE DEF Locals, Armed
<1>1. CASE UNCHANGED vars
  BY <1>1 DEF vars
<1>2. ASSUME NEW c \in Conn, Accept(c) \/ Admit(c)
      PROVE  Armed'
  BY <1>2 DEF Accept, Admit, Goto, preconnect
<1>3. ASSUME NEW c \in Conn, PreStep(c)
      PROVE  Armed'
  BY <1>3 DEF PreStep, PreFire, PrePermit, PreConnect, PreAbort
<1>4. ASSUME NEW c \in Conn, Read(c)
      PROVE  Armed'
  BY <1>4 DEF Read, Receive, Malformed, Complete, Eof, Silence, Reads, Goto, preconnect
<1>5. ASSUME NEW c \in Conn, Handshake(c)
      PROVE  Armed'
  <2>1. CASE TakeSocket(c)
    BY <2>1 DEF TakeSocket, Goto
  <2>2. CASE TakeReadySocket(c) \/ Authenticated(c) \/ Return(c)
    <3>1. /\ pre'[c] \notin {"sleep", "permit", "connect"}
          /\ \A d \in Conn \ {c} : pre'[d] = pre[d]
      BY <2>2 DEF TakeReadySocket, Authenticated, Return, DropPreconnect, PreState
    <3>2. \E l \in {"reflect", "tail", "leave"} : Goto(c, l)
      BY <2>2 DEF TakeReadySocket, Authenticated, Return
    <3> QED BY <3>1, <3>2 DEF Goto
  <2>3. CASE ConsumeTail(c) \/ SessionEnds(c) \/ Leave(c) \/ End(c)
    BY <2>3 DEF ConsumeTail, SessionEnds, Leave, End, Goto, preconnect
  <2> QED BY <1>5, <2>1, <2>2, <2>3 DEF Handshake
<1>6. ASSUME NEW c \in Conn, Reflection(c)
      PROVE  Armed'
  BY <1>6 DEF Reflection, Reflect, Rate, Slot, Undo, DropGlobal, DropSource, Goto, preconnect
<1>7. ASSUME NEW c \in Conn, Forward(c)
      PROVE  Armed'
  BY <1>7 DEF Forward, Connect, Write, FirstBytes, Copied, Template, Forwarding, Again, Goto,
    preconnect
<1>8. ASSUME NEW a \in Source, WindowEnds(a)
      PROVE  Armed'
  BY <1>8 DEF WindowEnds, preconnect
<1> QED BY <1>1, <1>2, <1>3, <1>4, <1>5, <1>6, <1>7, <1>8 DEF Next

\* Attempts to connect are counted, and a third is not made.
LEMMA StepTried ==
  ASSUME Locals, Tried, [Next]_vars
  PROVE  Tried'
<1> USE DEF Locals, Tried, Past
<1>1. CASE UNCHANGED vars
  BY <1>1 DEF vars
<1>2. ASSUME NEW c \in Conn, Accept(c) \/ Admit(c)
      PROVE  Tried'
  BY <1>2 DEF Accept, Admit, Goto, read
<1>3. ASSUME NEW c \in Conn, PreStep(c)
      PROVE  Tried'
  BY <1>3 DEF PreStep, PreFire, PrePermit, PreConnect, PreAbort, read
<1>4. ASSUME NEW c \in Conn, Read(c)
      PROVE  Tried'
  BY <1>4 DEF Read, Receive, Malformed, Complete, Eof, Silence, Reads, Goto
<1>5. ASSUME NEW c \in Conn, Handshake(c)
      PROVE  Tried'
  <2>1. CASE TakeSocket(c) \/ TakeReadySocket(c)
    BY <2>1 DEF TakeSocket, TakeReadySocket, Goto
  <2>2. CASE Authenticated(c) \/ Return(c)
    BY <2>2 DEF Authenticated, Return, DropRead, Goto
  <2>3. CASE ConsumeTail(c) \/ SessionEnds(c) \/ Leave(c) \/ End(c)
    BY <2>3 DEF ConsumeTail, SessionEnds, Leave, End, Goto, read
  <2> QED BY <1>5, <2>1, <2>2, <2>3 DEF Handshake
<1>6. ASSUME NEW c \in Conn, Reflection(c)
      PROVE  Tried'
  BY <1>6 DEF Reflection, Reflect, Rate, Slot, Undo, DropGlobal, DropSource, Goto, read
<1>7. ASSUME NEW c \in Conn, Forward(c)
      PROVE  Tried'
  <2>1. CASE Connect(c) \/ Copied(c) \/ Template(c)
    BY <2>1 DEF Connect, Copied, Template, Forwarding, Goto
  <2>2. CASE Write(c) \/ FirstBytes(c)
    BY <2>2 DEF Write, FirstBytes, Forwarding, Again, Goto
  <2> QED BY <1>7, <2>1, <2>2 DEF Forward
<1>8. ASSUME NEW a \in Source, WindowEnds(a)
      PROVE  Tried'
  BY <1>8 DEF WindowEnds, read
<1> QED BY <1>1, <1>2, <1>3, <1>4, <1>5, <1>6, <1>7, <1>8 DEF Next

-----------------------------------------------------------------------------
(* The theorems.                                                           *)

\* All places are free at the start.
LEMMA HandshakeBegins == Init => HandshakeInv
<1> SUFFICES ASSUME Init PROVE HandshakeInv
  OBVIOUS
<1>1. Locals /\ Armed /\ Tried
  BY DEF Init, Locals, Armed, Tried, Label, PreState
<1>2. \A c \in Conn : pc[c] = "off" /\ pre[c] = "none"
  BY DEF Init
<1>3. \A L : "off" \notin L => At(L) = {} /\ \A a \in Source : From(a, At(L)) = {}
  BY <1>2 DEF At, From
<1>4. PreAt = {}
  BY <1>2 DEF PreAt, Holding
<1>5. \A L : "off" \notin L => Count(L) = 0 /\ \A a \in Source : CountFrom(a, L) = 0
  BY <1>3, FS_EmptySet DEF Count, CountFrom
<1>6. "off" \notin WithPermit /\ "off" \notin WithCount /\ "off" \notin BeingReflected
      /\ "off" \notin WithPlace /\ "off" \notin WithSitePlace /\ "off" \notin Past
  BY DEF WithPermit, WithCount, BeingReflected, WithPlace, WithSitePlace, Past
<1>7. PlacesExact
  BY <1>4, <1>5, <1>6, Places, FS_EmptySet DEF Init
<1>8. LimitsKept
  BY <1>5, <1>6, Limits, HandshakeAssumption
<1> QED BY <1>1, <1>7, <1>8 DEF HandshakeInv

\* The invariant is inductive.
LEMMA HandshakeInductive == HandshakeInv /\ [Next]_vars => HandshakeInv'
BY StepLocals, StepArmed, StepTried, PlacesKept, LimitsKeptByStep DEF HandshakeInv

\* Hence it always holds.
LEMMA HandshakeInvariance == Spec => []HandshakeInv
BY HandshakeBegins, HandshakeInductive, PTL DEF Spec

\* The variables keep their types: no count of places is ever taken below zero.
THEOREM HandshakeTypeCorrect == Spec => []TypeOK
<1>1. HandshakeInv => TypeOK
  <2> SUFFICES ASSUME HandshakeInv PROVE TypeOK
    OBVIOUS
  <2>1. \A S \in SUBSET Conn : Cardinality(S) \in Nat
    BY FiniteConns, FS_CardinalityType
  <2>2. permits \in Nat /\ unauth \in Nat /\ inflight \in Nat
    BY <2>1 DEF HandshakeInv, PlacesExact, At
  <2>3. ASSUME NEW a \in Source
        PROVE  per_ip[a] \in Nat /\ unauth_ip[a] \in Nat
    BY <2>1 DEF HandshakeInv, PlacesExact, At, From, Unjudged
  <2>4. per_ip \in [Source -> Nat] /\ unauth_ip \in [Source -> Nat]
    BY <2>3 DEF HandshakeInv, Locals
  <2> QED BY <2>2, <2>4 DEF HandshakeInv, Locals, TypeOK, PreState
<1> QED BY <1>1, HandshakeInvariance, PTL

\* CONN_SEM, CONN_PER_IP, GLOBAL_UNAUTH, UNAUTH_CONNS and PRECONNECT_INFLIGHT are given back on
\* every way out of a connection, and once: each is at all times the number of its holders.
THEOREM PlacesAlwaysExact == Spec => []PlacesExact
BY HandshakeInvariance, PTL DEF HandshakeInv

\* reflect_to_camouflage counts before it tests, and yet never reflects more than its limits.
THEOREM LimitsAlwaysKept == Spec => []LimitsKept
BY HandshakeInvariance, PTL DEF HandshakeInv

\* The task of a Preconnect begins no connection for a client that has been recognised, or is
\* gone: it is aborted by then, or has done what it does.
THEOREM NeverConnectsLate == Spec => NoLateConnect
<1>1. HandshakeInv /\ [Next]_vars =>
        [\A c \in Conn : pre[c] # "connect" /\ pre'[c] = "connect"
           => pc[c] \notin {"off", "tail", "session", "leave", "end"}]_vars
  <2> SUFFICES ASSUME HandshakeInv, Next, NEW c \in Conn, pre[c] # "connect", pre'[c] = "connect"
               PROVE  pre[c] = "permit"
    BY DEF HandshakeInv, Armed
  <2> USE DEF HandshakeInv, Locals
  <2>1. ASSUME NEW d \in Conn, Accept(d) \/ Admit(d)
        PROVE  pre[c] = "permit"
    BY <2>1 DEF Accept, Admit, preconnect
  <2>2. ASSUME NEW d \in Conn, PreStep(d)
        PROVE  pre[c] = "permit"
    BY <2>2 DEF PreStep, PreFire, PrePermit, PreConnect, PreAbort
  <2>3. ASSUME NEW d \in Conn, Handshake(d)
        PROVE  pre[c] = "permit"
    BY <2>3 DEF Handshake, TakeSocket, TakeReadySocket, Authenticated, ConsumeTail,
      SessionEnds, Return, Leave, End, DropPreconnect, preconnect
  <2>4. ASSUME NEW d \in Conn, Read(d) \/ Reflection(d) \/ Forward(d)
        PROVE  pre[c] = "permit"
    BY <2>4 DEF Read, Receive, Malformed, Complete, Eof, Silence, Reads, Reflection, Reflect,
      Rate, Slot, Undo, DropGlobal, DropSource, Forward, Connect, Write, FirstBytes, Copied,
      Template, Forwarding, Again, preconnect
  <2>5. ASSUME NEW a \in Source, WindowEnds(a)
        PROVE  pre[c] = "permit"
    BY <2>5 DEF WindowEnds, preconnect
  <2> QED BY <2>1, <2>2, <2>3, <2>4, <2>5 DEF Next
<1> QED BY <1>1, HandshakeInvariance, PTL DEF Spec, NoLateConnect

-----------------------------------------------------------------------------
(* The tokens.                                                             *)

\* An accepted token is still in its bucket, or behind all that is retained.
Remembered ==
  \A t \in Token : accepted[t] = 0 \/ (accepted[t] = 1 /\ (t \in cache \/ SteppedBack(t)))

\* What waits for the lock has passed the tolerance, at a time that has been.
PendingFresh == \A c \in Client, t \in Token :
            pending[c].token = {t} => ts_within_tolerance(Ts[t], pending[c].at)
Passed == now <= latest /\ \A c \in Client : pending[c].at <= latest

\* A steady clock: the mark is at most a tolerance ahead, and all times are recent.
Steady ==
  steady => /\ hwm <= Bucket(latest + Tolerance)
            /\ now >= latest - Slack
            /\ \A c \in Client : pending[c] # Nothing => pending[c].at >= latest - Slack

ReplayInv == ReplayTypeOK /\ Remembered /\ PendingFresh /\ Passed /\ Steady

-----------------------------------------------------------------------------
\* Buckets are numbers and keep the order of timestamps.
LEMMA BucketOrder ==
  ASSUME NEW a \in Nat, NEW b \in Nat, a <= b
  PROVE  Bucket(a) \in Nat /\ Bucket(b) \in Nat /\ Bucket(a) <= Bucket(b)
  BY ReplayAssumption DEF Bucket

\* Division by the length of a bucket, as an inequality.
LEMMA Division ==
  ASSUME NEW a \in Nat, NEW k \in Nat, k > 0
  PROVE  /\ a \div k \in Nat
         /\ k * (a \div k) <= a
         /\ a < k * (a \div k) + k
  OBVIOUS

\* The number of buckets that are kept.
LEMMA RetainType == RetainBuckets \in Nat
  BY ReplayAssumption, Division DEF RetainBuckets

\* What is at most two tolerances and the slack later is at most RetainBuckets buckets later.
LEMMA Margin ==
  ASSUME NEW a \in Nat, NEW b \in Nat, a <= b + 2 * Tolerance + Slack
  PROVE  Bucket(a) <= Bucket(b) + RetainBuckets
<1> DEFINE B == BucketSecs
           q == (2 * Tolerance) \div B
           x == a \div B
           y == b \div B
<1>0. B \in Nat /\ B > 0 /\ Slack \in Nat /\ Slack <= B /\ 2 * Tolerance \in Nat
  BY ReplayAssumption
<1>1. q \in Nat /\ 2 * Tolerance < B * q + B
  BY <1>0, Division
<1>2. y \in Nat /\ b < B * y + B
  BY <1>0, Division
<1>3. x \in Nat /\ B * x <= a
  BY <1>0, Division
<1>4. B * x < B * y + B * q + 3 * B
  <2> HIDE DEF B, q, x, y
  <2> DEFINE bx == B * x
             by == B * y
             bq == B * q
  <2>1. bx \in Int /\ by \in Int /\ bq \in Int
    BY <1>0, <1>1, <1>2, <1>3
  <2>2. bx <= a /\ b < by + B /\ 2 * Tolerance < bq + B
    BY <1>1, <1>2, <1>3
  <2>3. a <= b + 2 * Tolerance + B
    BY <1>0, ReplayAssumption
  <2> HIDE DEF bx, by, bq
  <2>4. bx < by + bq + 3 * B
    BY <2>1, <2>2, <2>3, <1>0
  <2> QED BY <2>4 DEF bx, by, bq
<1>5. x < y + q + 3
  <2> HIDE DEF B, q, x, y
  <2>1. B * y + B * q + 3 * B = B * (y + q + 3)
    BY <1>0, <1>1, <1>2
  <2>2. SUFFICES ASSUME x >= y + q + 3 PROVE FALSE
    BY <1>1, <1>2, <1>3
  <2>3. B * x >= B * (y + q + 3)
    BY <2>2, <1>0, <1>1, <1>2, <1>3
  <2> QED BY <2>1, <2>3, <1>4, <1>0, <1>1, <1>2, <1>3
<1> QED BY <1>1, <1>2, <1>3, <1>5 DEF Bucket, RetainBuckets

-----------------------------------------------------------------------------
\* Every token has a bucket.
LEMMA TokenHasBucket == \A t \in Token : Ts[t] \in Nat /\ BucketOf(t) \in Nat
  BY ReplayAssumption, BucketOrder DEF BucketOf

\* The mark never falls for a token that is not stepped back, and what is kept is below it.
LEMMA MarkProperties ==
  ASSUME ReplayTypeOK, NEW t \in Token
  PROVE  /\ MarkFor(t) \in Nat /\ BucketOf(t) <= MarkFor(t)
         /\ ~SteppedBack(t) => hwm <= MarkFor(t)
         /\ Retained(t) \in SUBSET Token
         /\ \A u \in Retained(t) : BucketOf(u) <= MarkFor(t)
  BY TokenHasBucket, RetainType DEF ReplayTypeOK, MarkFor, Retained, SteppedBack

\* Each step keeps the types.
LEMMA ReplayTypeStep == ReplayTypeOK /\ [ReplayNext]_replayVars => ReplayTypeOK'
  <1> SUFFICES ASSUME ReplayTypeOK, [ReplayNext]_replayVars PROVE ReplayTypeOK'
    OBVIOUS
  <1>1. CASE UNCHANGED replayVars
    BY <1>1 DEF replayVars, ReplayTypeOK, BucketOf
  <1>2. ASSUME NEW c \in Client, NEW t \in Token, Judge(c, t) PROVE ReplayTypeOK'
    <2>1. [token |-> {t}, at |-> now] \in Judged
      BY DEF Judged, ReplayTypeOK
    <2> QED BY <1>2, <2>1 DEF Judge, ReplayTypeOK, BucketOf
  <1>3. ASSUME NEW c \in Client, NEW t \in Token, Insert(c, t) PROVE ReplayTypeOK'
    <2>1. Nothing \in Judged
      BY DEF Judged
    <2>2. pending' \in [Client -> Judged]
      BY <1>3, <2>1 DEF Insert, ReplayTypeOK
    <2>3. hwm' \in Nat /\ cache' \in SUBSET Token /\ \A u \in cache' : BucketOf(u) <= hwm'
      BY <1>3, MarkProperties DEF Insert
    <2>4. accepted' \in [Token -> Nat]
      BY <1>3 DEF Insert, ReplayTypeOK
    <2> QED BY <1>3, <2>2, <2>3, <2>4 DEF Insert, ReplayTypeOK, BucketOf
  <1>4. ASSUME NEW n \in 0 .. MaxNow, SetClock(n) PROVE ReplayTypeOK'
    <2>1. n \in Nat /\ Later(n) \in Nat
      BY ReplayAssumption DEF Later, ReplayTypeOK
    <2> QED BY <1>4, <2>1 DEF SetClock, ReplayTypeOK, BucketOf
  <1>5. CASE Restart
    BY <1>5 DEF Restart, ReplayTypeOK, Judged, Nothing, BucketOf
  <1> QED BY <1>1, <1>2, <1>3, <1>4, <1>5 DEF ReplayNext

\* The variables keep their types.
THEOREM ReplayTypeCorrect == ReplaySpec => []ReplayTypeOK
  <1>1. ReplayInit => ReplayTypeOK
    BY ReplayAssumption DEF ReplayInit, ReplayTypeOK, Judged, Nothing
  <1> QED BY <1>1, ReplayTypeStep, PTL DEF ReplaySpec

-----------------------------------------------------------------------------
\* The invariant's part about time rules out that a steady cache is cleared.
LEMMA SteadyMargin ==
  ASSUME ReplayTypeOK, PendingFresh, Passed, Steady, steady,
         NEW c \in Client, NEW t \in Token, pending[c].token = {t}
  PROVE  ~SteppedBack(t)
<1>1. pending[c] \in Judged /\ pending[c] # Nothing
  BY DEF ReplayTypeOK, Nothing
<1>2. pending[c].at \in Nat
  BY <1>1 DEF Judged, Nothing
<1>3. pending[c].at <= Ts[t] + Tolerance /\ pending[c].at >= latest - Slack
  BY <1>1 DEF PendingFresh, ts_within_tolerance, Steady
<1>4. latest \in Nat /\ hwm \in Nat /\ hwm <= Bucket(latest + Tolerance)
  BY DEF ReplayTypeOK, Steady
<1>5. latest + Tolerance \in Nat /\ latest + Tolerance <= Ts[t] + 2 * Tolerance + Slack
  BY <1>2, <1>3, <1>4, TokenHasBucket, ReplayAssumption
<1>6. Bucket(latest + Tolerance) <= BucketOf(t) + RetainBuckets
  BY <1>5, Margin, TokenHasBucket DEF BucketOf
<1>7. Bucket(latest + Tolerance) \in Nat
  BY <1>5, BucketOrder
<1> QED BY <1>4, <1>6, <1>7, TokenHasBucket, RetainType DEF SteppedBack

\* What a token's insertion does to what is remembered.
LEMMA InsertRemembers ==
  ASSUME ReplayTypeOK, Remembered, NEW c \in Client, NEW t \in Token, Insert(c, t)
  PROVE  Remembered'
<1> SUFFICES ASSUME NEW u \in Token
             PROVE  accepted'[u] = 0
                      \/ (accepted'[u] = 1 /\ (u \in cache' \/ SteppedBack(u)'))
  BY DEF Remembered
<1> DEFINE before == IF SteppedBack(t) THEN [v \in Token |-> 0] ELSE accepted
<1>1. before \in [Token -> Nat]
  BY DEF ReplayTypeOK
<1>2. accepted' = IF Fresh(t) THEN [before EXCEPT ![t] = @ + 1] ELSE before
  BY DEF Insert
<1>3. SteppedBack(u)' <=> BucketOf(u) + RetainBuckets < MarkFor(t)
  BY DEF Insert, SteppedBack, BucketOf
<1>4. BucketOf(u) \in Nat /\ BucketOf(t) \in Nat /\ RetainBuckets \in Nat /\ MarkFor(t) \in Nat
  BY TokenHasBucket, RetainType, MarkProperties
<1>5. ASSUME before[u] # 0
      PROVE  before[u] = 1 /\ (u \in Retained(t) \/ SteppedBack(u)')
  <2>1. ~SteppedBack(t) /\ before = accepted
    BY <1>5
  <2>2. before[u] = 1 /\ (u \in cache \/ SteppedBack(u))
    BY <1>5, <2>1 DEF Remembered
  <2>3. CASE u \in cache
    BY <2>1, <2>2, <2>3, <1>3, <1>4 DEF Retained
  <2>4. CASE SteppedBack(u)
    <3>1. hwm <= MarkFor(t) /\ hwm \in Nat
      BY <2>1, MarkProperties DEF ReplayTypeOK
    <3> QED BY <2>2, <2>4, <3>1, <1>3, <1>4 DEF SteppedBack
  <2> QED BY <2>2, <2>3, <2>4
<1>6. Retained(t) \subseteq cache'
  BY DEF Insert
<1>7. CASE u = t /\ Fresh(t)
  <2>1. t \in cache'
    BY <1>7 DEF Fresh, Insert
  <2>2. before[t] = 0
    <3>1. SUFFICES ASSUME before[t] # 0 PROVE FALSE
      OBVIOUS
    <3>2. SteppedBack(t)'
      BY <1>5, <1>7, <3>1 DEF Fresh
    <3>3. ~SteppedBack(t)
      BY <3>1
    <3> QED BY <1>3, <1>4, <1>7, <3>2, <3>3 DEF SteppedBack, MarkFor
  <2> QED BY <1>1, <1>2, <1>7, <2>1, <2>2
<1>8. CASE ~(u = t /\ Fresh(t))
  <2>1. accepted'[u] = before[u]
    BY <1>1, <1>2, <1>8
  <2> QED BY <2>1, <1>5, <1>6, <1>1
<1> QED BY <1>7, <1>8

-----------------------------------------------------------------------------
\* Insertion keeps the part of the invariant about time.
LEMMA InsertSteady ==
  ASSUME ReplayTypeOK, PendingFresh, Passed, Steady, NEW c \in Client, NEW t \in Token, Insert(c, t)
  PROVE  Steady'
<1> SUFFICES ASSUME steady PROVE Steady'
  BY DEF Insert, Steady
<1>1. pending[c].token = {t} /\ pending[c] \in Judged /\ pending[c].at \in Nat
  BY DEF Insert, ReplayTypeOK, Judged, Nothing
<1>2. Ts[t] <= latest + Tolerance /\ latest + Tolerance \in Nat
  BY <1>1, TokenHasBucket, ReplayAssumption DEF PendingFresh, Passed, ts_within_tolerance,
     ReplayTypeOK
<1>3. BucketOf(t) <= Bucket(latest + Tolerance)
  BY <1>2, TokenHasBucket, BucketOrder DEF BucketOf
<1>4. hwm <= Bucket(latest + Tolerance)
  BY DEF Steady
<1>5. hwm' <= Bucket(latest + Tolerance)
  BY <1>3, <1>4 DEF Insert, MarkFor
<1>6. \A d \in Client : pending'[d] # Nothing => pending'[d] = pending[d]
  BY DEF Insert, ReplayTypeOK
<1>7. now' = now /\ latest' = latest /\ steady' = steady
  BY DEF Insert
<1>8. Bucket(latest + Tolerance)' = Bucket(latest + Tolerance)
  BY <1>7 DEF Bucket
<1> QED BY <1>5, <1>6, <1>7, <1>8 DEF Steady

\* The clock keeps the part of the invariant about time.
LEMMA TickSteady ==
  ASSUME ReplayTypeOK, Passed, Steady, NEW n \in 0 .. MaxNow, SetClock(n)
  PROVE  Passed' /\ Steady'
<1>1. /\ n \in Nat /\ latest \in Nat /\ Later(n) \in Nat
      /\ n <= Later(n) /\ latest <= Later(n)
      /\ Slack \in Nat /\ Tolerance \in Nat /\ hwm \in Nat
  BY ReplayAssumption DEF Later, ReplayTypeOK
<1>2. now' = n /\ latest' = Later(n) /\ pending' = pending /\ hwm' = hwm
  BY DEF SetClock
<1>3. \A c \in Client : pending[c].at \in Nat
  BY DEF ReplayTypeOK, Judged, Nothing
<1>4. Passed'
  BY <1>1, <1>2, <1>3 DEF Passed
<1>5. Steady'
  <2> SUFFICES ASSUME steady' PROVE Steady'
    BY DEF Steady
  <2>1. /\ steady /\ n >= Later(n) - Slack
        /\ \A c \in Client : pending[c] # Nothing => pending[c].at >= Later(n) - Slack
    BY DEF SetClock
  <2>2. hwm <= Bucket(latest + Tolerance)
    BY <2>1 DEF Steady
  <2>3. /\ Bucket(latest + Tolerance) \in Nat /\ Bucket(Later(n) + Tolerance) \in Nat
        /\ Bucket(latest + Tolerance) <= Bucket(Later(n) + Tolerance)
    BY <1>1, BucketOrder
  <2>4. Bucket(latest + Tolerance)' = Bucket(Later(n) + Tolerance)
    BY <1>2 DEF Bucket
  <2>5. hwm' <= Bucket(latest + Tolerance)'
    BY <1>1, <1>2, <2>2, <2>3, <2>4
  <2> QED BY <1>2, <2>1, <2>5 DEF Steady
<1> QED BY <1>4, <1>5

\* The invariant of the cache.
THEOREM Invariant == ReplaySpec => []ReplayInv
  <1>1. ReplayInit => ReplayInv
    <2> SUFFICES ASSUME ReplayInit PROVE ReplayInv
      OBVIOUS
    <2>1. ReplayTypeOK
      BY ReplayAssumption DEF ReplayInit, ReplayTypeOK, Judged, Nothing
    <2>2. Remembered /\ PendingFresh
      BY DEF ReplayInit, Remembered, PendingFresh, Nothing
    <2>3. now \in Nat /\ now = latest /\ latest + Tolerance \in Nat /\ hwm = 0
      BY ReplayAssumption DEF ReplayInit
    <2>4. Passed
      BY <2>3 DEF ReplayInit, Passed, Nothing
    <2>5. Steady
      <3>1. Bucket(latest + Tolerance) \in Nat
        BY <2>3, BucketOrder
      <3>2. now >= latest - Slack
        BY <2>3, ReplayAssumption
      <3> QED BY <2>3, <3>1, <3>2 DEF ReplayInit, Steady
    <2> QED BY <2>1, <2>2, <2>4, <2>5 DEF ReplayInv
  <1>2. ReplayInv /\ [ReplayNext]_replayVars => ReplayInv'
    <2> SUFFICES ASSUME ReplayInv, ReplayTypeOK', [ReplayNext]_replayVars PROVE ReplayInv'
      BY ReplayTypeStep DEF ReplayInv
    <2>0. ReplayTypeOK /\ Remembered /\ PendingFresh /\ Passed /\ Steady
      BY DEF ReplayInv
    <2>1. CASE UNCHANGED replayVars
      BY <2>0, <2>1 DEF replayVars, ReplayInv, Remembered, SteppedBack, BucketOf, Bucket,
         PendingFresh, Passed, Steady
    <2>2. ASSUME NEW c \in Client, NEW t \in Token, Judge(c, t) PROVE ReplayInv'
      <3>1. Remembered'
        BY <2>0, <2>2 DEF Judge, Remembered, SteppedBack, BucketOf
      <3>2. \A d \in Client : pending'[d] = IF d = c THEN [token |-> {t}, at |-> now]
                                            ELSE pending[d]
        BY <2>0, <2>2 DEF Judge, ReplayTypeOK
      <3>3. PendingFresh'
        BY <2>0, <2>2, <3>2 DEF Judge, PendingFresh, ts_within_tolerance
      <3>4. Passed' /\ Steady'
        BY <2>0, <2>2, <3>2 DEF Judge, Passed, Steady, Bucket
      <3> QED BY <3>1, <3>3, <3>4 DEF ReplayInv
    <2>3. ASSUME NEW c \in Client, NEW t \in Token, Insert(c, t) PROVE ReplayInv'
      <3>1. Remembered' /\ Steady'
        BY <2>0, <2>3, InsertRemembers, InsertSteady
      <3>2. \A d \in Client : pending'[d] = IF d = c THEN Nothing ELSE pending[d]
        BY <2>0, <2>3 DEF Insert, ReplayTypeOK
      <3>3. PendingFresh'
        BY <2>0, <2>3, <3>2 DEF PendingFresh, Nothing, ts_within_tolerance
      <3>4. Passed'
        BY <2>0, <2>3, <3>2 DEF Insert, Passed, Nothing, ReplayTypeOK
      <3> QED BY <3>1, <3>3, <3>4 DEF ReplayInv
    <2>4. ASSUME NEW n \in 0 .. MaxNow, SetClock(n) PROVE ReplayInv'
      <3>1. Passed' /\ Steady'
        BY <2>0, <2>4, TickSteady
      <3>2. Remembered' /\ PendingFresh'
        BY <2>0, <2>4 DEF SetClock, Remembered, PendingFresh, SteppedBack, BucketOf
      <3> QED BY <3>1, <3>2 DEF ReplayInv
    <2>5. CASE Restart
      <3>1. Remembered' /\ PendingFresh'
        BY <2>5 DEF Restart, Remembered, PendingFresh, Nothing
      <3>2. now' \in Nat /\ now' = now /\ latest' = now /\ hwm' = 0 /\ now + Tolerance \in Nat
        BY <2>0, <2>5, ReplayAssumption DEF Restart, ReplayTypeOK
      <3>3. \A c \in Client : pending'[c] = Nothing
        BY <2>5 DEF Restart
      <3>4. Passed'
        BY <3>2, <3>3 DEF Passed, Nothing
      <3>5. Steady'
        <4>1. Bucket(now + Tolerance) \in Nat
          BY <3>2, BucketOrder
        <4>2. Bucket(latest + Tolerance)' = Bucket(now + Tolerance)
          BY <3>2 DEF Bucket
        <4>3. now' >= latest' - Slack
          BY <3>2, ReplayAssumption
        <4> QED BY <3>2, <3>3, <4>1, <4>2, <4>3 DEF Steady
      <3> QED BY <3>1, <3>4, <3>5 DEF ReplayInv
    <2> QED BY <2>1, <2>2, <2>3, <2>4, <2>5 DEF ReplayNext
  <1> QED BY <1>1, <1>2, PTL DEF ReplaySpec

\* While the clock is steady, a replay of however old a token does not make the cache forget.
THEOREM OldTokensNeverClear == ReplaySpec => []OldTokenNeverClears
  <1>1. ReplayInv => OldTokenNeverClears
    BY SteadyMargin DEF ReplayInv, OldTokenNeverClears
  <1> QED BY <1>1, Invariant, PTL

\* Every behaviour of the cache is one of TokenOnce: a token is accepted at most once until the
\* server forgets, and it forgets at a restart or with a clock that is not steady.
THEOREM CacheIsTokenOnce == ReplaySpec => TokensOnce
  <1>1. ReplayInit => Once!Init
    BY DEF ReplayInit, Once!Init, Once!None
  <1>2. ReplayInv /\ [ReplayNext]_replayVars => [Once!Next]_(Once!vars)
    <2> SUFFICES ASSUME ReplayInv, [ReplayNext]_replayVars PROVE [Once!Next]_(Once!vars)
      OBVIOUS
    <2>0. ReplayTypeOK /\ Remembered
      BY DEF ReplayInv
    <2>1. CASE UNCHANGED replayVars
      BY <2>1 DEF replayVars, Once!vars
    <2>2. ASSUME NEW c \in Client, NEW t \in Token, Judge(c, t) PROVE UNCHANGED Once!vars
      BY <2>2 DEF Judge, Once!vars
    <2>3. ASSUME NEW c \in Client, NEW t \in Token, Insert(c, t)
          PROVE  [Once!Next]_(Once!vars)
      <3>1. CASE SteppedBack(t)
        <4>1. ~steady
          BY <2>3, <3>1, SteadyMargin DEF ReplayInv, Insert
        <4>2. Retained(t) = {} /\ Cardinality({u \in Retained(t) : BucketOf(u) = BucketOf(t)}) = 0
          BY <3>1, FS_EmptySet DEF Retained
        <4>3. Fresh(t)
          BY <4>2, ReplayAssumption DEF Fresh, Saturated
        <4>4. accepted' = Once!Only(t)
          BY <2>3, <3>1, <4>3 DEF Insert, Once!Only
        <4> QED BY <2>3, <4>1, <4>4 DEF Insert, Once!Next, Once!Forget
      <3>2. CASE ~SteppedBack(t) /\ Fresh(t)
        <4>1. accepted' = [accepted EXCEPT ![t] = @ + 1] /\ steady' = steady
          BY <2>3, <3>2 DEF Insert
        <4>2. t \notin cache
          BY <2>0, <3>2, TokenHasBucket, RetainType, MarkProperties
             DEF Fresh, Retained, MarkFor, SteppedBack, ReplayTypeOK
        <4>3. accepted[t] = 0
          BY <2>0, <3>2, <4>2 DEF Remembered
        <4>4. accepted' = [accepted EXCEPT ![t] = 1]
          BY <2>0, <4>1, <4>3 DEF ReplayTypeOK
        <4> QED BY <4>1, <4>3, <4>4 DEF Once!Next, Once!Accept
      <3>3. CASE ~SteppedBack(t) /\ ~Fresh(t)
        BY <2>3, <3>3 DEF Insert, Once!vars
      <3> QED BY <3>1, <3>2, <3>3
    <2>4. ASSUME NEW n \in 0 .. MaxNow, SetClock(n) PROVE [Once!Next]_(Once!vars)
      <3>1. steady' = steady \/ steady' = FALSE
        BY <2>0, <2>4, Zenon DEF SetClock, ReplayTypeOK
      <3>2. accepted' = accepted
        BY <2>4 DEF SetClock
      <3> QED BY <3>1, <3>2 DEF Once!Next, Once!SetBack, Once!vars
    <2>5. CASE Restart
      BY <2>5 DEF Restart, Once!Next, Once!Restart, Once!None
    <2> QED BY <2>1, <2>2, <2>3, <2>4, <2>5 DEF ReplayNext
  <1> QED BY <1>1, <1>2, Invariant, PTL DEF ReplaySpec, TokensOnce, Once!Spec

-----------------------------------------------------------------------------
(* UDP sessions.                                                           *)

\* A nonempty set of naturals has a least one.
LEMMA LeastOne ==
  ASSUME NEW S \in SUBSET Nat, S # {} PROVE \E m \in S : \A n \in S : m <= n
<1>1. PICK m \in S : \A n \in S : ~ (<<n, m>> \in OpToRel(<, Nat))
  BY NatLessThanWellFounded, WFMin
<1>2. \A n \in S : ~(n < m)
  BY <1>1 DEF OpToRel
<1> QED BY <1>2

-----------------------------------------------------------------------------

PlainTypes ==
  /\ uplink \in {"recv", "route", "pay", "egress", "resolve", "record", "send", "over"}
  /\ packet \in [to : Target \cup {"none"}, out : Outlet \cup {"none", "refused"}]
  /\ uplink \in {"route", "pay", "egress", "resolve", "record", "send"} => packet.to \in Target
  /\ uplink \in {"pay", "egress", "resolve", "record", "send"} => packet.out \in Outlet
  /\ routes \in [Target -> Outlet \cup {"none", "refused"}]
  /\ whitelist \in [Outlet -> [Target -> Nat]]
  /\ wentOut \in [Outlet -> [Target -> Nat]]
  /\ clock \in Nat \ {0}

\* What is on the list was put there just before it went out; the one in hand is on it.
UdpListed ==
  /\ \A o \in Outlet, t \in Target :
       whitelist[o][t] # 0 => whitelist[o][t] + 1 = wentOut[o][t] \/ InHand(o, t)
  /\ uplink = "send" => /\ whitelist[packet.out][packet.to] = clock - 1
                        /\ clock > 1

\* Two targets never have the same stamp, and the clock is ahead of them.
Stamped ==
  \A o \in Outlet, t \in Target :
    /\ wentOut[o][t] <= clock
    /\ uplink = "send" => wentOut[o][t] < clock
    /\ \A x \in Target : wentOut[o][t] # 0 /\ wentOut[o][t] = wentOut[o][x] => x = t

WentOut(o) == {t \in Target : wentOut[o][t] # 0}
FinitelyMany == \A o \in Outlet : IsFiniteSet(WentOut(o))

PlainInv == PlainTypes /\ UdpListed /\ Stamped /\ FinitelyMany /\ ReplyExpected

\* What a full table throws out is not idle only if as many that stay were recorded after it.
LEMMA ThrownOut ==
  ASSUME NEW table \in [Target -> Nat], IsFiniteSet({x \in Target : table[x] # 0}),
         clock \in Nat \ {0}, NEW p \in Target, NEW t \in Target, t # p,
         table[t] # 0, ~Idle(table[t]), Recorded(table, p)[t] = 0
  PROVE  \E F \in SUBSET Target : /\ IsFiniteSet(F) /\ Cardinality(F) + 1 >= MaxSentTargets
                                  /\ p \notin F /\ t \notin F
                                  /\ \A y \in F : table[y] # 0 /\ table[t] <= table[y]
<1> DEFINE known == {x \in Target : table[x] # 0}
           fresh == {x \in known : ~Idle(table[x])}
           Oldest(x) == x \in fresh /\ \A y \in fresh : table[x] <= table[y]
           oldest == CHOOSE x \in fresh : \A y \in fresh : table[x] <= table[y]
           stay == IF p \in known \/ Cardinality(known) < MaxSentTargets THEN known
                   ELSE IF Cardinality(fresh) < MaxSentTargets THEN fresh ELSE fresh \ {oldest}
<1>1. Recorded(table, p) = [x \in Target |-> IF x = p THEN clock ELSE IF x \in stay
       THEN table[x] ELSE 0]
  BY DEF Recorded, Never
<1>2. t \in known /\ t \in fresh /\ t \notin stay
  BY <1>1
<1>3. p \notin known /\ ~(Cardinality(fresh) < MaxSentTargets) /\ t = oldest
  BY <1>2
<1>4. Oldest(oldest)
  <2>1. {table[x] : x \in fresh} \in SUBSET Nat /\ {table[x] : x \in fresh} # {}
    BY <1>2
  <2>2. PICK m \in {table[x] : x \in fresh} : \A n \in {table[x] : x \in fresh} : m <= n
    BY <2>1, LeastOne
  <2>3. \E x : Oldest(x)
    BY <2>2
  <2> QED BY <2>3
<1>5. IsFiniteSet(fresh)
  BY FS_Subset
<1>6. /\ IsFiniteSet(fresh \ {t}) /\ Cardinality(fresh) \in Nat
      /\ Cardinality(fresh \ {t}) = Cardinality(fresh) - 1
  BY <1>2, <1>5, FS_RemoveElement, FS_CardinalityType
<1>7. Cardinality(fresh \ {t}) + 1 >= MaxSentTargets
  BY <1>3, <1>6, ServerUdpAssumption
<1>8. p \notin fresh \ {t} /\ \A y \in fresh \ {t} : table[y] # 0 /\ table[t] <= table[y]
  BY <1>3, <1>4
<1> HIDE DEF fresh
<1>9. fresh \ {t} \in SUBSET Target
  BY DEF fresh
<1> QED BY <1>6, <1>7, <1>8, <1>9

\* SentSince is finite where wentOut is.
LEMMA LaterFinite ==
  ASSUME PlainTypes, FinitelyMany, NEW o \in Outlet, NEW t \in Target
  PROVE  IsFiniteSet(SentSince(o, t))
<1>1. SentSince(o, t) \in SUBSET (WentOut(o) \cup {packet.to})
  BY DEF SentSince, InHand, WentOut, PlainTypes
<1>2. IsFiniteSet(WentOut(o) \cup {packet.to})
  BY FS_AddElement DEF FinitelyMany
<1> QED BY <1>1, <1>2, FS_Subset

\* The plain session starts with no target and no packet.
LEMMA PlainStarts == ServerUdpInit => PlainInv
<1> SUFFICES ASSUME ServerUdpInit PROVE PlainInv
  OBVIOUS
<1>1. PlainTypes
  BY DEF ServerUdpInit, PlainTypes, NoPacket, Never
<1>2. \A o \in Outlet : WentOut(o) = {}
  BY DEF ServerUdpInit, WentOut, Never
<1>3. FinitelyMany
  BY <1>2, FS_EmptySet DEF FinitelyMany
<1>4. UdpListed /\ Stamped /\ ReplyExpected
  BY DEF ServerUdpInit, UdpListed, Stamped, ReplyExpected, Never
<1> QED BY <1>1, <1>3, <1>4 DEF PlainInv

\* What does not touch the tables and has no packet in hand, before or after.
LEMMA NothingRecorded ==
  ASSUME PlainInv, PlainTypes', UNCHANGED tables, 
         UNCHANGED <<uplink, packet>> \/ (uplink # "send" /\ uplink' # "send")
  PROVE  PlainInv'
<1>1. \A o \in Outlet, t \in Target : InHand(o, t)' <=> InHand(o, t)
  BY DEF InHand
<1>2. \A o \in Outlet, t \in Target : SentSince(o, t)' = SentSince(o, t)
  <2>1. ASSUME NEW o \in Outlet, NEW t \in Target PROVE SentSince(o, t)' = SentSince(o, t)
    BY <1>1 DEF SentSince, tables
  <2> QED BY <2>1
<1>3. ReplyExpected'
  BY <1>2 DEF PlainInv, ReplyExpected, tables, Idle, Admitted
<1>4. UdpListed'
  <2>1. \A o \in Outlet, t \in Target :
          whitelist'[o][t] # 0 => whitelist'[o][t] + 1 = wentOut'[o][t] \/ InHand(o, t)'
    BY <1>1 DEF PlainInv, UdpListed, tables
  <2> QED BY <2>1 DEF PlainInv, UdpListed, tables
<1>5. Stamped' /\ FinitelyMany'
  BY DEF PlainInv, Stamped, FinitelyMany, WentOut, tables
<1> QED BY <1>3, <1>4, <1>5 DEF PlainInv

\* A packet is recorded.
LEMMA RecordKeeps == ASSUME PlainInv, Record("record", "send") PROVE PlainInv'
<1>1. PICK O \in Outlet, p \in Target :
      /\ uplink = "record" /\ uplink' = "send"
      /\ whitelist' = [whitelist EXCEPT ![O] = Recorded(@, p)] /\ clock' = clock + 1
      /\ UNCHANGED <<packet, wentOut, routes>> /\ packet = [to |-> p, out |-> O]
  BY DEF Record, PlainInv, PlainTypes
<1>2. /\ Recorded(whitelist[O], p) \in [Target -> Nat] /\ Recorded(whitelist[O], p)[p] = clock
      /\ \A t \in Target \ {p} : Recorded(whitelist[O], p)[t] \in {0, whitelist[O][t]}
  <2>1. whitelist[O] \in [Target -> Nat] /\ clock \in Nat
    BY <1>1 DEF PlainInv, PlainTypes
  <2> QED BY <1>1, <2>1 DEF Recorded, Never
<1>3. PlainTypes'
  BY <1>1, <1>2 DEF PlainInv, PlainTypes
<1>4. whitelist'[O] = Recorded(whitelist[O], p)
       /\ \A o \in Outlet \ {O} : whitelist'[o] = whitelist[o]
  BY <1>1 DEF PlainInv, PlainTypes
<1>5. \A o \in Outlet, t \in Target : InHand(o, t)' <=> o = O /\ t = p
  BY <1>1 DEF InHand
<1>6. UdpListed'
  <2>1. ASSUME NEW o \in Outlet, NEW t \in Target, whitelist'[o][t] # 0
        PROVE  whitelist'[o][t] + 1 = wentOut'[o][t] \/ InHand(o, t)'
    <3>1. CASE o = O /\ t = p
      BY <1>5, <3>1
    <3>2. CASE ~(o = O /\ t = p)
      BY <1>1, <1>2, <1>4, <2>1, <3>2 DEF PlainInv, UdpListed, InHand
    <3> QED BY <3>1, <3>2
  <2>2. whitelist'[packet'.out][packet'.to] = clock' - 1 /\ clock' > 1
    BY <1>1, <1>2, <1>4 DEF PlainInv, PlainTypes
  <2> QED BY <2>1, <2>2 DEF UdpListed
<1>7. Stamped' /\ FinitelyMany'
  BY <1>1 DEF PlainInv, PlainTypes, Stamped, FinitelyMany, WentOut
<1>8. \A o \in Outlet, t \in Target : SentSince(o, t)' = IF o = O /\ t # p
       THEN SentSince(o, t) \cup {p} ELSE SentSince(o, t)
  BY <1>1, <1>5 DEF SentSince, InHand
<1>9. ASSUME NEW o \in Outlet, NEW t \in Target,
             wentOut'[o][t] # Never, ~Idle(wentOut[o][t])',
                   Cardinality(SentSince(o, t)') < MaxSentTargets
      PROVE  Admitted(o, t)'
  <2>1. IsFiniteSet(SentSince(o, t))
    BY LaterFinite DEF PlainInv
  <2>2. Cardinality(SentSince(o, t)) < MaxSentTargets
    <3>1. CASE o = O /\ t # p
      <4>1. Cardinality(SentSince(o, t) \cup {p}) < MaxSentTargets
        BY <1>8, <1>9, <3>1
      <4>2. /\ Cardinality(SentSince(o, t)) \in Nat
            /\ Cardinality(SentSince(o, t) \cup {p}) \in
                 {Cardinality(SentSince(o, t)), Cardinality(SentSince(o, t)) + 1}
        BY <2>1, FS_AddElement, FS_CardinalityType
      <4> QED BY <4>1, <4>2, ServerUdpAssumption
    <3>2. CASE ~(o = O /\ t # p)
      BY <1>8, <1>9, <3>2
    <3> QED BY <3>1, <3>2
  <2>3. wentOut[o][t] \in Nat /\ clock \in Nat /\ whitelist[o][t] \in Nat /\ UdpIdle \in Nat
    BY ServerUdpAssumption DEF PlainInv, PlainTypes
  <2>4. ~Idle(wentOut[o][t]) /\ wentOut[o][t] # Never
    BY <1>1, <1>9, <2>3 DEF Idle
  <2>5. whitelist[o][t] # 0 /\ whitelist[o][t] + 1 = wentOut[o][t]
    BY <1>1, <2>2, <2>4 DEF PlainInv, ReplyExpected, Admitted, UdpListed, InHand, Never
  <2>6. ~Idle(whitelist[o][t])
    BY <1>1, <1>9, <2>3, <2>5 DEF Idle
  <2>7. CASE o # O
    BY <1>4, <2>5, <2>7 DEF Admitted, Never
  <2>8. CASE o = O /\ t = p
    BY <1>2, <1>4, <2>8 DEF Admitted, Never, PlainInv, PlainTypes
  <2>9. CASE o = O /\ t # p
    <3>1. SUFFICES ASSUME Recorded(whitelist[O], p)[t] = 0 PROVE FALSE
      BY <1>4, <2>9 DEF Admitted, Never
    <3>2. IsFiniteSet({x \in Target : whitelist[O][x] # 0})
      <4>1. {x \in Target : whitelist[O][x] # 0} \in SUBSET WentOut(O)
        BY <1>1 DEF PlainInv, PlainTypes, UdpListed, InHand, WentOut
      <4> QED BY <1>1, <4>1, FS_Subset DEF PlainInv, FinitelyMany
    <3>3. whitelist[O] \in [Target -> Nat] /\ clock \in Nat \ {0}
      BY <1>1 DEF PlainInv, PlainTypes
    <3>4. PICK F \in SUBSET Target : /\ IsFiniteSet(F) /\ Cardinality(F) + 1 >= MaxSentTargets
                                  /\ p \notin F /\ t \notin F
                                  /\ \A y \in F : whitelist[O][y] # 0
                                        /\ whitelist[O][t] <= whitelist[O][y]
      BY <1>1, <2>5, <2>6, <2>9, <3>1, <3>2, <3>3, ThrownOut
    <3>5. \A y \in F : wentOut[O][y] > wentOut[O][t]
      <4>1. ASSUME NEW y \in F PROVE wentOut[O][y] > wentOut[O][t]
        <5>1. whitelist[O][y] + 1 = wentOut[O][y] /\ whitelist[O][y] \in Nat
          BY <1>1, <3>4 DEF PlainInv, PlainTypes, UdpListed, InHand
        <5>2. wentOut[O][y] # wentOut[O][t]
          BY <1>1, <2>4, <2>9, <3>4 DEF PlainInv, Stamped, Never
        <5> QED BY <2>3, <2>5, <2>9, <3>4, <5>1, <5>2
      <4> QED BY <4>1
    <3>6. F \cup {p} \in SUBSET (SentSince(o, t) \cup {p})
      <4>1. \A y \in F : y \in Target \ {t} /\ wentOut[o][y] > wentOut[o][t]
        BY <2>9, <3>4, <3>5
      <4>2. \A y \in F : y \in SentSince(o, t)
        BY <4>1 DEF SentSince
      <4> QED BY <4>2
    <3>7. IsFiniteSet(F \cup {p}) /\ Cardinality(F \cup {p}) = Cardinality(F) + 1
      BY <3>4, FS_AddElement
    <3>8. /\ IsFiniteSet(SentSince(o, t) \cup {p}) /\ Cardinality(SentSince(o, t) \cup {p}) \in Nat
          /\ Cardinality(F \cup {p}) <= Cardinality(SentSince(o, t) \cup {p})
      BY <2>1, <3>6, FS_AddElement, FS_Subset, FS_CardinalityType
    <3>9. Cardinality(SentSince(o, t) \cup {p}) < MaxSentTargets
      BY <1>8, <1>9, <2>9
    <3>10. Cardinality(F) \in Nat
      BY <3>4, FS_CardinalityType
    <3> QED BY <3>4, <3>7, <3>8, <3>9, <3>10, ServerUdpAssumption
  <2> QED BY <2>7, <2>8, <2>9
<1> QED BY <1>3, <1>6, <1>7, <1>9 DEF PlainInv, ReplyExpected

\* It goes out.
LEMMA TransmitKeeps == ASSUME PlainInv, Transmit("send", "recv") PROVE PlainInv'
<1>1. PICK O \in Outlet, p \in Target :
      /\ uplink = "send" /\ uplink' = "recv"
      /\ wentOut' = [wentOut EXCEPT ![O][p] = clock]
      /\ UNCHANGED <<packet, whitelist, clock, routes>> /\ packet = [to |-> p, out |-> O]
      /\ whitelist[O][p] = clock - 1 /\ clock > 1
  BY DEF Transmit, PlainInv, PlainTypes, UdpListed
<1>2. /\ wentOut'[O][p] = clock
      /\ \A o \in Outlet, t \in Target : ~(o = O /\ t = p) => wentOut'[o][t] = wentOut[o][t]
      /\ wentOut' \in [Outlet -> [Target -> Nat]]
  BY <1>1 DEF PlainInv, PlainTypes
<1>3. \A o \in Outlet, t \in Target : wentOut[o][t] \in Nat /\ wentOut[o][t] < clock
       /\ clock \in Nat
  BY <1>1 DEF PlainInv, PlainTypes, Stamped
<1>4. PlainTypes'
  BY <1>1, <1>2 DEF PlainInv, PlainTypes
<1>5. \A o \in Outlet, t \in Target : (InHand(o, t) <=> o = O /\ t = p) /\ ~InHand(o, t)'
  BY <1>1 DEF InHand
<1>6. UdpListed'
  <2>1. ASSUME NEW o \in Outlet, NEW t \in Target, whitelist'[o][t] # 0
        PROVE  whitelist'[o][t] + 1 = wentOut'[o][t]
    <3>1. CASE o = O /\ t = p
      <4>1. clock \in Nat /\ whitelist'[o][t] = clock - 1 /\ wentOut'[o][t] = clock
        BY <1>1, <1>2, <1>3, <3>1
      <4> QED BY <4>1
    <3>2. CASE ~(o = O /\ t = p)
      BY <1>1, <1>2, <1>5, <2>1, <3>2 DEF PlainInv, UdpListed
    <3> QED BY <3>1, <3>2
  <2> QED BY <1>1, <2>1 DEF UdpListed
<1>7. Stamped'
  BY <1>1, <1>2, <1>3 DEF PlainInv, Stamped
<1>8. FinitelyMany'
  <2>1. ASSUME NEW o \in Outlet PROVE IsFiniteSet(WentOut(o)')
    <3>1. WentOut(o)' \in SUBSET (WentOut(o) \cup {p})
      BY <1>2 DEF WentOut
    <3>2. IsFiniteSet(WentOut(o) \cup {p})
      BY FS_AddElement DEF PlainInv, FinitelyMany
    <3> QED BY <3>1, <3>2, FS_Subset
  <2> QED BY <2>1 DEF FinitelyMany
<1>9. \A o \in Outlet, t \in Target : ~(o = O /\ t = p) => SentSince(o, t)' = SentSince(o, t)
  BY <1>1, <1>2, <1>3, <1>5 DEF SentSince
<1>10. ReplyExpected'
  <2>1. ASSUME NEW o \in Outlet, NEW t \in Target,
               wentOut'[o][t] # Never, ~Idle(wentOut[o][t])',
                     Cardinality(SentSince(o, t)') < MaxSentTargets
        PROVE  Admitted(o, t)'
    <3>1. CASE o = O /\ t = p
      BY <1>1, <1>3, <3>1 DEF Admitted, Never
    <3>2. CASE ~(o = O /\ t = p)
      BY <1>1, <1>2, <1>9, <2>1, <3>2 DEF PlainInv, ReplyExpected, Idle, Admitted
    <3> QED BY <3>1, <3>2
  <2> QED BY <2>1 DEF ReplyExpected
<1> QED BY <1>4, <1>6, <1>7, <1>8, <1>10 DEF PlainInv

\* An outlet is built anew, with a list of its own.
LEMMA BuildKeeps == ASSUME PlainInv, BuildEgress PROVE PlainInv'
<1>1. PICK O \in Outlet :
      /\ packet.out = O /\ uplink = "egress" /\ uplink' \in {"resolve", "recv"}
      /\ UNCHANGED <<packet, routes, clock>>
      /\ \/ UNCHANGED <<whitelist, wentOut>>
         \/ /\ whitelist' = [whitelist EXCEPT ![O] = [t \in Target |-> 0]]
            /\ wentOut' = [wentOut EXCEPT ![O] = [t \in Target |-> 0]]
  BY DEF BuildEgress, PlainInv, PlainTypes, Never
<1>2. PlainTypes'
  <2>1. whitelist' \in [Outlet -> [Target -> Nat]] /\ wentOut' \in [Outlet -> [Target -> Nat]]
    <3>1. whitelist \in [Outlet -> [Target -> Nat]] /\ wentOut \in [Outlet -> [Target -> Nat]]
          /\ [t \in Target |-> 0] \in [Target -> Nat]
      BY DEF PlainInv, PlainTypes
    <3>2. CASE UNCHANGED <<whitelist, wentOut>>
      BY <3>1, <3>2
    <3>3. CASE /\ whitelist' = [whitelist EXCEPT ![O] = [t \in Target |-> 0]]
               /\ wentOut' = [wentOut EXCEPT ![O] = [t \in Target |-> 0]]
      BY <3>1, <3>3
    <3> QED BY <1>1, <3>2, <3>3
  <2> QED BY <1>1, <2>1 DEF PlainInv, PlainTypes
<1>3. CASE UNCHANGED <<whitelist, wentOut>>
  BY <1>1, <1>2, <1>3, NothingRecorded DEF tables
<1>4. CASE /\ whitelist' = [whitelist EXCEPT ![O] = [t \in Target |-> 0]]
           /\ wentOut' = [wentOut EXCEPT ![O] = [t \in Target |-> 0]]
  <2>1. /\ \A t \in Target : whitelist'[O][t] = 0 /\ wentOut'[O][t] = 0
        /\ \A o \in Outlet \ {O} : whitelist'[o] = whitelist[o] /\ wentOut'[o] = wentOut[o]
    BY <1>1, <1>4 DEF PlainInv, PlainTypes
  <2>2. \A o \in Outlet, t \in Target : ~InHand(o, t) /\ ~InHand(o, t)'
    BY <1>1 DEF InHand
  <2>3. \A o \in Outlet \ {O}, t \in Target : SentSince(o, t)' = SentSince(o, t)
    BY <2>1, <2>2 DEF SentSince
  <2>4. ReplyExpected'
    BY <1>1, <2>1, <2>3 DEF PlainInv, ReplyExpected, Idle, Admitted, Never
  <2>5. UdpListed'
    BY <1>1, <2>1, <2>2 DEF PlainInv, UdpListed
  <2>7. Stamped'
    BY <1>1, <2>1 DEF PlainInv, PlainTypes, Stamped
  <2>6. FinitelyMany'
    <3>1. WentOut(O)' = {}
      BY <2>1 DEF WentOut
    <3>2. ASSUME NEW o \in Outlet \ {O} PROVE WentOut(o)' = WentOut(o)
      BY <2>1 DEF WentOut
    <3> QED BY <3>1, <3>2, FS_EmptySet DEF PlainInv, FinitelyMany
  <2> QED BY <1>2, <2>4, <2>5, <2>6, <2>7 DEF PlainInv
<1> QED BY <1>1, <1>3, <1>4

\* Its invariant is inductive.
LEMMA PlainKeeps == PlainInv /\ [ServerUdpNext]_serverUdpVars => PlainInv'
<1> SUFFICES ASSUME PlainInv, [ServerUdpNext]_serverUdpVars PROVE PlainInv'
  OBVIOUS
<1>1. CASE MuxNext \/ UNCHANGED serverUdpVars
  <2>1. UNCHANGED plainVars
    BY <1>1 DEF serverUdpVars, MuxNext, StopMux, TakeFlow, OpenFlow, InsertFlow, EndMux,
       PumpLeaves, PumpRemoves
  <2> QED BY <2>1, NothingRecorded DEF plainVars, tables, PlainInv, PlainTypes
<1>2. CASE DirectSilent \/ \E o \in Outlet : Reply(o) \/ EgressFails(o)
  <2>1. UNCHANGED <<uplink, packet, routes, tables>>
    BY <1>2 DEF DirectSilent, Reply, EgressFails
  <2> QED BY <2>1, NothingRecorded DEF tables, PlainInv, PlainTypes
<1>3. CASE TakePacket \/ RoutePacket \/ PayPacket \/ Resolve
  <2>1. UNCHANGED tables /\ uplink # "send" /\ uplink' # "send"
    BY <1>3 DEF TakePacket, RoutePacket, PayPacket, Resolve
  <2>2. PlainTypes'
    <3>1. whitelist' = whitelist /\ wentOut' = wentOut /\ clock' = clock
      BY <2>1 DEF tables
    <3>2. CASE TakePacket
      BY <3>1, <3>2 DEF TakePacket, PlainInv, PlainTypes
    <3>3. CASE RoutePacket
      BY <3>1, <3>3 DEF RoutePacket, PlainInv, PlainTypes
    <3>4. CASE PayPacket \/ Resolve
      BY <3>1, <3>4 DEF PayPacket, Resolve, PlainInv, PlainTypes
    <3> QED BY <1>3, <3>2, <3>3, <3>4
  <2> QED BY <2>1, <2>2, NothingRecorded DEF tables
<1> QED BY <1>1, <1>2, <1>3, RecordKeeps, TransmitKeeps, BuildKeeps
        DEF ServerUdpNext, PlainNext, SendPacket

\* The flow that is about to enter the table has its pump.
MuxInv ==
  /\ mux \in {"open", "insert"} => sid \notin sessions
  /\ mux = "insert" /\ ~muxStop => pump[sid] = "on"
  /\ sessions \subseteq Flow /\ sid \in Flow /\ pump \in [Flow -> {"none", "on", "leaving"}]
        /\ muxStop \in BOOLEAN
  /\ FlowServed

\* A flow enters the table after its pump was spawned, and a pump that ends takes its flow out.
LEMMA MuxKeeps == MuxInv /\ [ServerUdpNext]_serverUdpVars => MuxInv'
<1> SUFFICES ASSUME MuxInv, [ServerUdpNext]_serverUdpVars PROVE MuxInv'
  OBVIOUS
<1> USE DEF MuxInv, FlowServed
<1>1. CASE PlainNext \/ UNCHANGED serverUdpVars
  <2>1. UNCHANGED muxVars
    BY <1>1 DEF serverUdpVars, PlainNext, TakePacket, RoutePacket, PayPacket, BuildEgress, Resolve,
       SendPacket, Record, Transmit, DirectSilent, Reply, EgressFails
  <2> QED BY <2>1 DEF muxVars
<1>2. CASE StopMux \/ TakeFlow \/ OpenFlow
  BY <1>2 DEF StopMux, TakeFlow, OpenFlow
<1>3. CASE InsertFlow \/ EndMux
  BY <1>3 DEF InsertFlow, EndMux
<1>4. ASSUME NEW f \in Flow, PumpLeaves(f) PROVE MuxInv'
  BY <1>4 DEF PumpLeaves
<1>5. ASSUME NEW f \in Flow, PumpRemoves(f) PROVE MuxInv'
  BY <1>5 DEF PumpRemoves, TakenOut
<1> QED BY <1>1, <1>2, <1>3, <1>4, <1>5 DEF ServerUdpNext, MuxNext

\* handle_udp_relay and handle_udp_mux_relay: a reply from a target to which a datagram went
\* recently is let through (record_sent_target is called before the datagram goes out), and a
\* flow that is open has its pump.
THEOREM UdpAlwaysServed == ServerUdpSpec => []UdpServed
<1>1. ServerUdpInit => MuxInv
  BY DEF ServerUdpInit, MuxInv, FlowServed
<1>2. PlainInv /\ MuxInv => UdpServed
  BY DEF PlainInv, MuxInv, UdpServed
<1> QED BY <1>1, <1>2, PlainStarts, PlainKeeps, MuxKeeps, PTL DEF ServerUdpSpec

-----------------------------------------------------------------------------
(* The rate limits.                                                        *)

BucketTypes ==
  /\ ticks \in Nat /\ tokens \in [RateBucket -> Nat] /\ through \in [RateBucket -> Nat]
  /\ last \in [RateBucket -> Nat] /\ \A b \in RateBucket : last[b] <= ticks
  /\ job \in [Job -> {"address", "user", "sent"}] /\ wakes \in [Job -> Nat]
  /\ need \in [Job -> Nat] /\ \A j \in Job : need[j] <= sizeOf[j]

\* The tokens that the blocks at a bucket have taken and not used yet, one by one.
Taken(b) == {p \in Job \X Nat : job[p[1]] = b /\ need[p[1]] < p[2] /\ p[2] <= sizeOf[p[1]]}

\* Nothing comes out of a bucket that was not put in.
Conserved ==
  \A b \in RateBucket :
    /\ IsFiniteSet(Taken(b))
    /\ through[b] + tokens[b] + Cardinality(Taken(b)) <= Burst + last[b]

BucketInv == BucketTypes /\ Conserved

\* A run of tokens of one block.
Slice(j, n, m) == {j} \X (n + 1 .. m)
\* A block's tokens from n to m are m - n.
LEMMA SliceCount ==
  ASSUME NEW j, NEW n \in Nat, NEW m \in Nat, n <= m
  PROVE  IsFiniteSet(Slice(j, n, m)) /\ Cardinality(Slice(j, n, m)) = m - n
<1>1. IsFiniteSet({j}) /\ Cardinality({j}) = 1
  BY FS_Singleton
<1>2. IsFiniteSet(n + 1 .. m) /\ Cardinality(n + 1 .. m) = m - n
  <2>1. n + 1 \in Int /\ m \in Int /\ (IF n + 1 > m THEN 0 ELSE m - (n + 1) + 1) = m - n
    OBVIOUS
  <2> QED BY <2>1, FS_Interval
<1>3. /\ IsFiniteSet({j} \X (n + 1 .. m))
      /\ Cardinality({j} \X (n + 1 .. m)) = Cardinality({j}) * Cardinality(n + 1 .. m)
  BY <1>1, <1>2, FS_Product
<1>4. 1 * (m - n) = m - n
  OBVIOUS
<1> QED BY <1>1, <1>2, <1>3, <1>4 DEF Slice

\* A slice of tokens, disjoint from a set, adds its length to the set's size.
LEMMA AddSlice ==
  ASSUME NEW S, IsFiniteSet(S), NEW j, NEW n \in Nat, NEW m \in Nat, n <= m,
         S \cap Slice(j, n, m) = {}
  PROVE  /\ IsFiniteSet(S \cup Slice(j, n, m)) /\ Cardinality(S) \in Nat
         /\ Cardinality(S \cup Slice(j, n, m)) = Cardinality(S) + (m - n)
<1>1. Cardinality(S \cap Slice(j, n, m)) = 0
  BY FS_EmptySet
<1>2. IsFiniteSet(Slice(j, n, m)) /\ Cardinality(Slice(j, n, m)) = m - n /\ Cardinality(S) \in Nat
  BY SliceCount, FS_CardinalityType
<1>3. /\ IsFiniteSet(S \cup Slice(j, n, m))
      /\ Cardinality(S \cup Slice(j, n, m)) =
           Cardinality(S) + Cardinality(Slice(j, n, m)) - Cardinality(S \cap Slice(j, n, m))
  BY <1>2, FS_Union
<1> QED BY <1>1, <1>2, <1>3

\* What a bucket holds when it is looked at.
LEMMA RefilledFacts ==
  ASSUME BucketTypes, NEW b \in RateBucket
  PROVE  Refilled(b) \in Nat /\ Refilled(b) <= tokens[b] + (ticks - last[b])
  BY RateLimitAssumption DEF BucketTypes, Refilled

\* Full buckets and nobody waiting at the start.
LEMMA BucketsStart == RateInit => BucketInv
<1> SUFFICES ASSUME RateInit PROVE BucketInv
  OBVIOUS
<1>1. BucketTypes
  BY RateLimitAssumption DEF RateInit, BucketTypes
<1>2. \A b \in RateBucket : Taken(b) = {}
  BY RateLimitAssumption DEF RateInit, Taken
<1> QED BY <1>1, <1>2, FS_EmptySet, RateLimitAssumption DEF RateInit, BucketInv, Conserved

\* A relay at its bucket.
LEMMA ConsumeKeeps == ASSUME BucketInv, NEW j \in Job, Consume(j) PROVE BucketInv'
<1>1. PICK b \in RateBucket : job[j] = b
  BY DEF Consume
<1> DEFINE R == Refilled(b)
<1>2. /\ R \in Nat /\ R <= tokens[b] + (ticks - last[b])
      /\ need[j] \in Nat /\ sizeOf[j] \in Nat /\ need[j] <= sizeOf[j]
      /\ ticks \in Nat /\ last[b] \in Nat /\ tokens[b] \in Nat /\ through[b] \in Nat
      /\ wakes[j] \in Nat
  BY RefilledFacts, RateLimitAssumption DEF BucketInv, BucketTypes
<1>3. last' = [last EXCEPT ![b] = ticks] /\ UNCHANGED ticks
  BY <1>1 DEF Consume
<1>4. ASSUME R >= need[j] PROVE BucketInv'
  <2>1. /\ tokens' = [tokens EXCEPT ![b] = R - need[j]]
        /\ job' = [job EXCEPT ![j] = IF b = "address" THEN "user" ELSE "sent"]
        /\ need' = [need EXCEPT ![j] = sizeOf[j]] /\ wakes' = wakes
        /\ through' = [through EXCEPT ![b] = @ + sizeOf[j]]
    BY <1>1, <1>4 DEF Consume, Pass
  <2>2. BucketTypes'
    BY <1>2, <1>3, <1>4, <2>1 DEF BucketInv, BucketTypes
  <2>3. /\ Taken(b) = Taken(b)' \cup Slice(j, need[j], sizeOf[j])
        /\ Taken(b)' \cap Slice(j, need[j], sizeOf[j]) = {}
        /\ \A c \in RateBucket \ {b} : Taken(c)' = Taken(c)
    <3>1. ASSUME NEW i \in Job, NEW n \in Nat, NEW c \in RateBucket
          PROVE  /\ <<i, n>> \in Taken(c) <=> job[i] = c /\ need[i] < n /\ n <= sizeOf[i]
                 /\ <<i, n>> \in Taken(c)' <=> job'[i] = c /\ need'[i] < n /\ n <= sizeOf[i]
                 /\ <<i, n>> \in Slice(j, need[j], sizeOf[j]) <=> i = j /\ need[j] < n
                       /\ n <= sizeOf[j]
      BY <1>2 DEF Taken, Slice
    <3>2. \A c \in RateBucket : Taken(c) \subseteq Job \X Nat /\ Taken(c)' \subseteq Job \X Nat
      BY DEF Taken
    <3>3. Slice(j, need[j], sizeOf[j]) \subseteq Job \X Nat
      BY <1>2 DEF Slice
    <3>4. ASSUME NEW i \in Job, NEW n \in Nat, NEW c \in RateBucket
          PROVE  /\ <<i, n>> \in Taken(b)
                     <=> <<i, n>> \in Taken(b)' \cup Slice(j, need[j], sizeOf[j])
                 /\ ~(<<i, n>> \in Taken(b)' /\ <<i, n>> \in Slice(j, need[j], sizeOf[j]))
                 /\ c # b => (<<i, n>> \in Taken(c) <=> <<i, n>> \in Taken(c)')
      <4>1. CASE i = j
        <5>1. job'[j] # b /\ need'[j] = sizeOf[j]
          BY <1>1, <2>1 DEF BucketInv, BucketTypes, RateBucket
        <5> QED BY <1>1, <1>2, <3>1, <4>1, <5>1
      <4>2. CASE i # j
        <5>1. job'[i] = job[i] /\ need'[i] = need[i]
          BY <2>1, <4>2 DEF BucketInv, BucketTypes
        <5> QED BY <3>1, <4>2, <5>1
      <4> QED BY <4>1, <4>2
    <3>5. ASSUME NEW p \in Job \X Nat
          PROVE  /\ p \in Taken(b) <=> p \in Taken(b)' \cup Slice(j, need[j], sizeOf[j])
                 /\ ~(p \in Taken(b)' /\ p \in Slice(j, need[j], sizeOf[j]))
                 /\ \A c \in RateBucket \ {b} : p \in Taken(c) <=> p \in Taken(c)'
      <4>1. PICK i \in Job, n \in Nat : p = <<i, n>>
        OBVIOUS
      <4> QED BY <3>4, <4>1
    <3>6. Taken(b) = Taken(b)' \cup Slice(j, need[j], sizeOf[j])
      BY <3>2, <3>3, <3>5
    <3>7. Taken(b)' \cap Slice(j, need[j], sizeOf[j]) = {}
      BY <3>2, <3>3, <3>5
    <3>8. ASSUME NEW c \in RateBucket \ {b} PROVE Taken(c)' = Taken(c)
      BY <3>2, <3>5
    <3> QED BY <3>6, <3>7, <3>8
  <2>4. IsFiniteSet(Taken(b)')
    BY <2>3, FS_Subset DEF BucketInv, Conserved
  <2>5. Cardinality(Taken(b)') \in Nat
         /\ Cardinality(Taken(b)) = Cardinality(Taken(b)') + (sizeOf[j] - need[j])
    BY <1>2, <2>3, <2>4, AddSlice
  <2>6. through'[b] + tokens'[b] + Cardinality(Taken(b)') <= Burst + last'[b]
    BY <1>2, <1>3, <2>1, <2>5, RateLimitAssumption DEF BucketInv, BucketTypes, Conserved
  <2>7. \A c \in RateBucket \ {b} : through'[c] = through[c] /\ tokens'[c] = tokens[c]
         /\ last'[c] = last[c]
    BY <1>3, <2>1 DEF BucketInv, BucketTypes
  <2> QED BY <2>2, <2>3, <2>4, <2>6, <2>7 DEF BucketInv, Conserved
<1>5. ASSUME ~(R >= need[j]) PROVE BucketInv'
  <2>1. /\ tokens' = [tokens EXCEPT ![b] = 0] /\ UNCHANGED <<job, through>>
        /\ need' = [need EXCEPT ![j] = @ - R]
        /\ wakes' = [wakes EXCEPT ![j] = ticks + need[j] - R]
    BY <1>1, <1>5 DEF Consume, LeftOver
  <2>2. BucketTypes'
    BY <1>2, <1>3, <1>5, <2>1 DEF BucketInv, BucketTypes
  <2>3. /\ Taken(b)' = Taken(b) \cup Slice(j, need[j] - R, need[j])
        /\ Taken(b) \cap Slice(j, need[j] - R, need[j]) = {}
        /\ \A c \in RateBucket \ {b} : Taken(c)' = Taken(c)
    <3>1. ASSUME NEW i \in Job, NEW n \in Nat, NEW c \in RateBucket
          PROVE  /\ <<i, n>> \in Taken(c) <=> job[i] = c /\ need[i] < n /\ n <= sizeOf[i]
                 /\ <<i, n>> \in Taken(c)' <=> job'[i] = c /\ need'[i] < n /\ n <= sizeOf[i]
                 /\ <<i, n>> \in Slice(j, need[j] - R, need[j]) <=> i = j /\ need[j] - R < n
                       /\ n <= need[j]
      BY <1>2, <1>5 DEF Taken, Slice
    <3>2. \A c \in RateBucket : Taken(c) \subseteq Job \X Nat /\ Taken(c)' \subseteq Job \X Nat
      BY DEF Taken
    <3>3. Slice(j, need[j] - R, need[j]) \subseteq Job \X Nat
      BY <1>2, <1>5 DEF Slice
    <3>4. ASSUME NEW i \in Job, NEW n \in Nat, NEW c \in RateBucket
          PROVE  /\ <<i, n>> \in Taken(b)'
                     <=> <<i, n>> \in Taken(b) \cup Slice(j, need[j] - R, need[j])
                 /\ ~(<<i, n>> \in Taken(b) /\ <<i, n>> \in Slice(j, need[j] - R, need[j]))
                 /\ c # b => (<<i, n>> \in Taken(c) <=> <<i, n>> \in Taken(c)')
      <4>1. CASE i = j
        <5>1. job'[j] = b /\ need'[j] = need[j] - R
          BY <1>1, <2>1 DEF BucketInv, BucketTypes, RateBucket
        <5> QED BY <1>1, <1>2, <1>5, <3>1, <4>1, <5>1
      <4>2. CASE i # j
        <5>1. job'[i] = job[i] /\ need'[i] = need[i]
          BY <2>1, <4>2 DEF BucketInv, BucketTypes
        <5> QED BY <3>1, <4>2, <5>1
      <4> QED BY <4>1, <4>2
    <3>5. ASSUME NEW p \in Job \X Nat
          PROVE  /\ p \in Taken(b)' <=> p \in Taken(b) \cup Slice(j, need[j] - R, need[j])
                 /\ ~(p \in Taken(b) /\ p \in Slice(j, need[j] - R, need[j]))
                 /\ \A c \in RateBucket \ {b} : p \in Taken(c) <=> p \in Taken(c)'
      <4>1. PICK i \in Job, n \in Nat : p = <<i, n>>
        OBVIOUS
      <4> QED BY <3>4, <4>1
    <3>6. Taken(b)' = Taken(b) \cup Slice(j, need[j] - R, need[j])
      BY <3>2, <3>3, <3>5
    <3>7. Taken(b) \cap Slice(j, need[j] - R, need[j]) = {}
      BY <3>2, <3>3, <3>5
    <3>8. ASSUME NEW c \in RateBucket \ {b} PROVE Taken(c)' = Taken(c)
      BY <3>2, <3>5
    <3> QED BY <3>6, <3>7, <3>8
  <2>5. /\ IsFiniteSet(Taken(b)') /\ Cardinality(Taken(b)) \in Nat
        /\ Cardinality(Taken(b)') = Cardinality(Taken(b)) + R
    BY <1>2, <1>5, <2>3, AddSlice DEF BucketInv, Conserved
  <2>6. through'[b] + tokens'[b] + Cardinality(Taken(b)') <= Burst + last'[b]
    BY <1>2, <1>3, <2>1, <2>5, RateLimitAssumption DEF BucketInv, BucketTypes, Conserved
  <2>7. \A c \in RateBucket \ {b} : through'[c] = through[c] /\ tokens'[c] = tokens[c]
         /\ last'[c] = last[c]
    BY <1>3, <2>1 DEF BucketInv, BucketTypes
  <2> QED BY <2>2, <2>3, <2>5, <2>6, <2>7 DEF BucketInv, Conserved
<1> QED BY <1>4, <1>5

\* A datagram takes from both at once, or from none; it waits for nothing.
LEMMA ConsumeTwoKeeps == ASSUME BucketInv, NEW j \in Job, TryConsumeTwo(j) PROVE BucketInv'
<1>1. /\ job[j] = "address" /\ need[j] = sizeOf[j] /\ UNCHANGED <<ticks, need, wakes>>
      /\ last' = [b \in RateBucket |-> ticks] /\ job' = [job EXCEPT ![j] = "sent"]
  BY DEF TryConsumeTwo
<1>2. ASSUME NEW b \in RateBucket
      PROVE  tokens'[b] \in Nat /\ through'[b] \in Nat
             /\ through'[b] + tokens'[b] <= through[b] + tokens[b] + (ticks - last[b])
  <2>1. /\ Refilled(b) \in Nat /\ Refilled(b) <= tokens[b] + (ticks - last[b])
        /\ sizeOf[j] \in Nat /\ through[b] \in Nat /\ tokens[b] \in Nat
        /\ ticks \in Nat /\ last[b] \in Nat
    BY RefilledFacts, RateLimitAssumption DEF BucketInv, BucketTypes
  <2>2. \/ tokens'[b] = Refilled(b) - sizeOf[j] /\ through'[b] = through[b] + sizeOf[j]
           /\ Refilled(b) >= sizeOf[j]
        \/ tokens'[b] = Refilled(b) /\ through'[b] = through[b]
    BY DEF TryConsumeTwo
  <2> QED BY <2>1, <2>2
<1>3. BucketTypes'
  <2>1. tokens' \in [RateBucket -> Nat] /\ through' \in [RateBucket -> Nat]
    BY <1>2 DEF TryConsumeTwo, BucketInv, BucketTypes
  <2> QED BY <1>1, <2>1 DEF BucketInv, BucketTypes
<1>4. ASSUME NEW b \in RateBucket PROVE Taken(b)' = Taken(b)
  <2>1. \A i \in Job : job'[i] = b /\ need'[i] < sizeOf[i] <=> job[i] = b /\ need[i] < sizeOf[i]
    BY <1>1, RateLimitAssumption DEF BucketInv, BucketTypes, RateBucket
  <2>2. \A i \in Job, n \in Nat : need[i] < n /\ n <= sizeOf[i] => need[i] < sizeOf[i]
    BY RateLimitAssumption DEF BucketInv, BucketTypes
  <2> QED BY <1>1, <2>1, <2>2 DEF Taken
<1>5. ASSUME NEW b \in RateBucket
      PROVE  through'[b] + tokens'[b] + Cardinality(Taken(b)') <= Burst + last'[b]
  <2>1. Cardinality(Taken(b)) \in Nat
         /\ through[b] + tokens[b] + Cardinality(Taken(b)) <= Burst + last[b]
    BY FS_CardinalityType DEF BucketInv, Conserved
  <2>2. last'[b] = ticks /\ last[b] \in Nat /\ ticks \in Nat /\ through[b] \in Nat
         /\ tokens[b] \in Nat
    BY <1>1 DEF BucketInv, BucketTypes
  <2> QED BY <1>2, <1>4, <2>1, <2>2, RateLimitAssumption
<1> QED BY <1>3, <1>4, <1>5 DEF BucketInv, Conserved

\* What each block has drawn is accounted for, step by step.
LEMMA BucketsKeep == BucketInv /\ [RateNext]_rateVars => BucketInv'
<1> SUFFICES ASSUME BucketInv, [RateNext]_rateVars PROVE BucketInv'
  OBVIOUS
<1>1. CASE Passes \/ LimiterNext \/ UNCHANGED rateVars
  <2>1. UNCHANGED <<tokens, last, job, need, wakes, through>> /\ ticks' \in {ticks, ticks + 1}
    BY <1>1 DEF Passes, LimiterNext, Rebuild, SetLimiter, Disconnects, BucketsFor, rateVars,
       bucketVars
  <2>2. \A b \in RateBucket : Taken(b)' = Taken(b)
    BY <2>1 DEF Taken
  <2> QED BY <2>1, <2>2 DEF BucketInv, BucketTypes, Conserved
<1> QED BY <1>1, ConsumeKeeps, ConsumeTwoKeeps DEF RateNext, BucketNext

\* So nothing gets through faster than rate and burst allow.
LEMMA BucketsNeverFaster == BucketInv => NeverFaster
  BY FS_CardinalityType, RateLimitAssumption DEF BucketInv, BucketTypes, Conserved, NeverFaster

-----------------------------------------------------------------------------

IsLimiter(l) == /\ l = [live |-> l.live, spare |-> l.spare]
                /\ l.spare \in Nat /\ \A a \in DOMAIN l.live : l.live[a] \in Nat

LinkType == [of : Address \cup {"none"}, bucket : Nat, own : BOOLEAN, era : Nat, late : BOOLEAN]

\* The limiter from which connections have their buckets once a reload is over.
Installed == IF rebuilt = NoLimit THEN limiter ELSE rebuilt
Current(c) == /\ link[c] # NoLink /\ link[c].own /\ ~link[c].late /\ link[c].era = era

LimiterInv ==
  /\ IsLimiter(limiter) /\ (rebuilt # NoLimit => IsLimiter(rebuilt))
  /\ made \in Nat /\ era \in Nat
  /\ link \in [Link -> LinkType]
  /\ \A c \in Link : link[c].era <= era
  /\ \A c \in Link : Current(c) => /\ link[c].of \in DOMAIN Installed.live
                                   /\ link[c].bucket = Installed.live[link[c].of]
  /\ OneBucket

\* An empty table at the start.
LEMMA LimiterStarts == RateInit => LimiterInv
  BY DEF RateInit, LimiterInv, LinkType, IsLimiter, NoLimiter, NoLink, Current, OneBucket

\* A connection that comes or goes leaves the others theirs.
LEMMA LinkKeeps ==
  ASSUME LimiterInv, NEW c \in Link, UNCHANGED <<rebuilt, era>>, made' \in Nat, IsLimiter(limiter'),
         NEW l \in LinkType, link' = [link EXCEPT ![c] = l], l.era <= era,
         \A d \in Link \ {c} : Current(d) /\ rebuilt = NoLimit =>
            link[d].of \in DOMAIN limiter'.live /\ limiter'.live[link[d].of] = link[d].bucket,
         l.own /\ ~l.late =>
            /\ rebuilt = NoLimit /\ l.era = era /\ l.of \in DOMAIN limiter'.live
            /\ l.bucket = limiter'.live[l.of]
  PROVE  LimiterInv'
<1>1. \A d \in Link : link'[d] = IF d = c THEN l ELSE link[d]
  BY DEF LimiterInv
<1>2. \A d \in Link \ {c} : Current(d)' <=> Current(d)
  BY <1>1 DEF Current
<1>3. \A d \in Link : Current(d)' => /\ link'[d].of \in DOMAIN Installed'.live
                                    /\ link'[d].bucket = Installed'.live[link'[d].of]
  BY <1>1, <1>2 DEF LimiterInv, Installed, Current
<1>4. OneBucket'
  BY <1>1, <1>2 DEF LimiterInv, LinkType, OneBucket, Current, Installed, NoLink
<1> QED BY <1>1, <1>3, <1>4 DEF LimiterInv

\* buckets_for: an address that has a bucket gets that one, and no entry in use is thrown out.
LEMMA BucketsForKeeps ==
  ASSUME LimiterInv, NEW c \in Link, NEW a \in Address, BucketsFor(c, a) PROVE LimiterInv'
<1>1. UNCHANGED <<rebuilt, era>> /\ made \in Nat /\ era \in Nat /\ IsLimiter(limiter)
  BY DEF BucketsFor, LimiterInv
<1>2. ASSUME NEW d \in Link, Current(d), rebuilt = NoLimit
      PROVE  link[d].of \in Live /\ limiter.live[link[d].of] = link[d].bucket
  BY <1>2 DEF LimiterInv, Installed, Live
<1>3. ASSUME NEW n \in Nat, NEW own \in BOOLEAN, Connects(c, a, n, own),
             made' \in Nat, IsLimiter(limiter'), own => a \in DOMAIN limiter'.live
                   /\ limiter'.live[a] = n,
             \A d \in Link : Current(d) /\ rebuilt = NoLimit =>
                link[d].of \in DOMAIN limiter'.live /\ limiter'.live[link[d].of] = link[d].bucket
      PROVE  LimiterInv'
  <2> DEFINE l == [of |-> a, bucket |-> n, own |-> own, era |-> era, late |-> rebuilt # NoLimit]
  <2>1. PICK k : k = l
    OBVIOUS
  <2>2. /\ k \in LinkType /\ link' = [link EXCEPT ![c] = k]
        /\ k.of = a /\ k.bucket = n /\ k.era = era /\ k.own = own
        /\ k.late \in BOOLEAN /\ (k.late <=> rebuilt # NoLimit)
    BY <1>1, <1>3, <2>1 DEF Connects, LinkType
  <2> HIDE DEF l
  <2>3. k.era <= era
    BY <1>1, <2>2
  <2>4. \A d \in Link \ {c} : Current(d) /\ rebuilt = NoLimit =>
            link[d].of \in DOMAIN limiter'.live /\ limiter'.live[link[d].of] = link[d].bucket
    BY <1>3
  <2>5. k.own /\ ~k.late =>
            /\ rebuilt = NoLimit /\ k.era = era /\ k.of \in DOMAIN limiter'.live
            /\ k.bucket = limiter'.live[k.of]
    BY <1>3, <2>2
  <2>6. k \in LinkType /\ link' = [link EXCEPT ![c] = k] /\ UNCHANGED <<rebuilt, era>>
        /\ made' \in Nat /\ IsLimiter(limiter')
    BY <1>1, <1>3, <2>2
  <2> QED BY LimiterInv, <2>3, <2>4, <2>5, <2>6, LinkKeeps
<1>4. CASE a \in Live /\ Connects(c, a, limiter.live[a], TRUE) /\ UNCHANGED <<limiter, made>>
  <2>1. limiter.live[a] \in Nat
    BY <1>1, <1>4 DEF IsLimiter, Live
  <2> QED BY <1>1, <1>2, <1>3, <1>4, <2>1 DEF Live
<1>5. ASSUME NEW D, D \subseteq Live, a \notin D, made' = made + 1, Connects(c, a, made + 1, TRUE),
             limiter' = [limiter EXCEPT !.live =
                          [x \in D \cup {a} |-> IF x = a THEN made + 1 ELSE limiter.live[x]]],
             \A d \in Link : Current(d) /\ rebuilt = NoLimit => link[d].of \in D
      PROVE  LimiterInv'
  <2>1. /\ DOMAIN limiter'.live = D \cup {a} /\ limiter'.live[a] = made + 1
        /\ \A x \in D : limiter'.live[x] = limiter.live[x]
        /\ IsLimiter(limiter')
    BY <1>1, <1>5 DEF IsLimiter, Live
  <2>2. made + 1 \in Nat /\ made' \in Nat
    BY <1>1, <1>5
  <2>3. \A d \in Link : Current(d) /\ rebuilt = NoLimit =>
            link[d].of \in DOMAIN limiter'.live /\ limiter'.live[link[d].of] = link[d].bucket
    BY <1>2, <1>5, <2>1
  <2> QED BY <1>3, <1>5, <2>1, <2>2, <2>3
<1>6. CASE /\ a \notin Live /\ New /\ Connects(c, a, made + 1, TRUE)
           /\ limiter' = [limiter EXCEPT !.live = Joined(@, a, made + 1)]
  BY <1>2, <1>5, <1>6 DEF New, Joined, Live
<1>7. ASSUME NEW old \in Live, a \notin Live, Evictable(old), New, Connects(c, a, made + 1, TRUE),
             limiter' = [limiter EXCEPT !.live = Joined(Without(@, old), a, made + 1)]
      PROVE  LimiterInv'
  <2>1. limiter' = [limiter EXCEPT !.live =
           [x \in (Live \ {old}) \cup {a} |-> IF x = a THEN made + 1 ELSE limiter.live[x]]]
    BY <1>7 DEF Joined, Without, Live
  <2>2. \A d \in Link : Current(d) /\ rebuilt = NoLimit => link[d].of \in Live \ {old}
    BY <1>2, <1>7 DEF Evictable, InUse
  <2> QED BY <1>5, <1>7, <2>1, <2>2 DEF New
<1>8. ASSUME NEW n \in Nat, Connects(c, a, n, FALSE), limiter'.live = limiter.live, made' \in Nat,
             IsLimiter(limiter')
      PROVE  LimiterInv'
  <2>1. \A d \in Link : Current(d) /\ rebuilt = NoLimit =>
            link[d].of \in DOMAIN limiter'.live /\ limiter'.live[link[d].of] = link[d].bucket
    BY <1>2, <1>8 DEF Live
  <2> QED BY <1>3, <1>8, <2>1
<1>9. CASE Connects(c, a, limiter.spare, FALSE) /\ UNCHANGED <<limiter, made>>
  BY <1>1, <1>8, <1>9 DEF IsLimiter
<1>10. CASE New /\ Connects(c, a, made + 1, FALSE) /\ limiter' = [limiter EXCEPT !.spare = made + 1]
  <2>1. IsLimiter(limiter') /\ limiter'.live = limiter.live /\ made + 1 \in Nat
    BY <1>1, <1>10 DEF IsLimiter
  <2> QED BY <1>1, <1>8, <1>10, <2>1 DEF New
<1> QED BY <1>4, <1>6, <1>7, <1>9, <1>10 DEF BucketsFor

\* An address in use stays in the table with its bucket.
LEMMA LimiterKeeps == LimiterInv /\ [RateNext]_rateVars => LimiterInv'
<1> SUFFICES ASSUME LimiterInv, [RateNext]_rateVars PROVE LimiterInv'
  OBVIOUS
<1>1. CASE BucketNext \/ UNCHANGED rateVars
  <2>1. UNCHANGED limiterVars
    BY <1>1 DEF BucketNext, Passes, Consume, TryConsumeTwo, rateVars
  <2> QED BY <2>1 DEF limiterVars, LimiterInv, Current, Installed, OneBucket
<1>2. CASE Rebuild
  <2>1. UNCHANGED <<limiter, link, made>> /\ rebuilt = NoLimit
        /\ \/ era' = era /\ rebuilt' = limiter
           \/ era' = era + 1 /\ rebuilt' = NoLimiter
    BY <1>2 DEF Rebuild
  <2>2. IsLimiter(NoLimiter)
    BY DEF IsLimiter, NoLimiter
  <2>3. CASE era' = era /\ rebuilt' = limiter
    BY <2>1, <2>3 DEF LimiterInv, Current, Installed, OneBucket
  <2>4. CASE era' = era + 1 /\ rebuilt' = NoLimiter
    <3>1. \A c \in Link : ~Current(c)'
      BY <2>1, <2>4 DEF LimiterInv, Current
    <3>2. \A c \in Link : link'[c].era <= era'
      BY <2>1, <2>4 DEF LimiterInv, LinkType
    <3>3. OneBucket'
      BY <2>1 DEF LimiterInv, OneBucket
    <3> QED BY <2>1, <2>2, <2>4, <3>1, <3>2, <3>3 DEF LimiterInv
  <2> QED BY <2>1, <2>3, <2>4
<1>3. CASE SetLimiter
  BY <1>3 DEF SetLimiter, LimiterInv, Current, Installed, OneBucket
<1>4. ASSUME NEW c \in Link, Disconnects(c) PROVE LimiterInv'
  <2>1. NoLink \in LinkType
        /\ NoLink.era = 0 /\ ~NoLink.own
    BY DEF NoLink, LinkType
  <2>2. \A d \in Link : Current(d) /\ rebuilt = NoLimit =>
            link[d].of \in DOMAIN limiter.live /\ limiter.live[link[d].of] = link[d].bucket
    BY DEF LimiterInv, Installed
  <2>3. /\ UNCHANGED <<rebuilt, era, limiter, made>> /\ link' = [link EXCEPT ![c] = NoLink]
        /\ era \in Nat /\ made \in Nat /\ IsLimiter(limiter)
    BY <1>4 DEF Disconnects, LimiterInv
  <2>4. UNCHANGED <<rebuilt, era>> /\ made' \in Nat /\ NoLink.era <= era
    BY <2>1, <2>3
  <2>5. IsLimiter(limiter')
    BY <2>3
  <2>6. \A d \in Link \ {c} : Current(d) /\ rebuilt = NoLimit =>
            link[d].of \in DOMAIN limiter'.live /\ limiter'.live[link[d].of] = link[d].bucket
    BY <2>2, <2>3
  <2>7. ~(NoLink.own /\ ~NoLink.late)
    BY <2>1
  <2> HIDE DEF NoLink
  <2> QED BY LimiterInv, <2>1, <2>3, <2>4, <2>5, <2>6, <2>7, LinkKeeps
<1>5. ASSUME NEW c \in Link, NEW a \in Address, BucketsFor(c, a) PROVE LimiterInv'
  BY <1>5, BucketsForKeeps
<1> QED BY <1>1, <1>2, <1>3, <1>4, <1>5 DEF RateNext, LimiterNext

\* consume, try_consume_two and buckets_for: a bucket lets no more through than its burst and
\* what was refilled, however many wait at it, and the connections of an address share one.
THEOREM RateAlwaysKept == RateSpec => []RateKept
<1>1. BucketInv /\ LimiterInv => RateKept
  BY BucketsNeverFaster DEF LimiterInv, RateKept
<1> QED BY <1>1, BucketsStart, BucketsKeep, LimiterStarts, LimiterKeeps, PTL DEF RateSpec

-----------------------------------------------------------------------------
(* The relay.                                                              *)

Points == {"off", "head", "wait", "charge", "write", "notify", "finish", "done"}
RelayTypes ==
  /\ stage \in {"first", "second", "third", "route", "signal", "linger", "payload", "relay",
                "udp", "gone"}
  /\ kind \in {"direct", "ss", "wg"} /\ target \in {"none", "open", "shut", "reset"}
  /\ sent \in [Way -> Nat] /\ queue \in [Way -> Nat] /\ passed \in [Way -> Nat]
  /\ batch \in [Way -> Nat] /\ beforeStop \in [Way -> Nat]
  /\ fin \in [Way -> {"open", "clean", "broken"}]
  /\ seen \in [Way -> {"open", "clean", "broken", "refused"}]
  /\ at \in [Way -> Points] /\ at["up"] \notin {"notify", "finish"}
  /\ numb \in BOOLEAN /\ free \in BOOLEAN /\ stop \in BOOLEAN

\* Where the tunnel stands, what the coroutines, the socket and the two receivers are.
StagesFit ==
  /\ stage = "relay" => target # "none" /\ \A d \in Way : at[d] # "off"
  /\ stage \notin {"relay", "gone"} => free /\ \A d \in Way : at[d] = "off"
  /\ stage = "payload" => target = "open"
  /\ stage \notin {"payload", "relay", "gone"} => target = "none"
  /\ stage \notin {"linger", "relay", "gone"} => seen["dn"] = "open"
  /\ target \in {"none", "open"} <=> seen["up"] = "open"
  /\ seen["up"] # "refused"

\* Whoever takes the descriptor ends the connection; a download that has not ended and finds it
\* there finds the socket as it was.
FreeMeansOpen ==
  stage = "relay" => /\ free => target = "open" \/ at["dn"] = "done"
                     /\ kind # "wg" => (free <=> target = "open")

\* What was read and not written is in hand.
BatchInHand == \A d \in Way : batch[d] > 0 <=> at[d] \in {"charge", "write"}

\* Nothing is handed over that was not sent, and while a way is open nothing is missing.
Accounted ==
  /\ \A d \in Way : passed[d] + batch[d] + queue[d] <= sent[d]
  /\ target \in {"none", "open"} => passed["dn"] + batch["dn"] + queue["dn"] = sent["dn"]
  /\ stage \notin {"linger", "gone"} /\ at["up"] # "done"
       => passed["up"] + batch["up"] + queue["up"] = sent["up"]

\* A download that is about to be told as whole is whole.
AboutToEnd ==
  /\ at["dn"] \in {"head", "wait", "charge", "write", "notify"} => seen["dn"] = "open"
  /\ at["dn"] = "notify" => /\ passed["dn"] = sent["dn"]
                            /\ kind = "ss" => fin["dn"] = "clean"
  /\ at["dn"] = "finish" => seen["dn"] = "clean"
  /\ at["dn"] \in {"notify", "finish"} => fin["dn"] # "open"
  /\ numb => kind = "direct"

\* What is being written when the user is stopped had been sent before.
StoppedInTime ==
  stop => \A d \in Way : /\ passed[d] <= beforeStop[d]
                         /\ at[d] = "write" => passed[d] + batch[d] <= beforeStop[d]

RelayInv == /\ RelayTypes /\ StagesFit /\ FreeMeansOpen /\ BatchInHand /\ Accounted /\ AboutToEnd
            /\ StoppedInTime

USE DEF Way

\* The relay begins in the invariant.
LEMMA RelayStarts == RelayInit => RelayInv
<1> SUFFICES ASSUME RelayInit PROVE RelayInv
  OBVIOUS
<1> USE DEF RelayInit
<1>1. RelayTypes
  BY DEF RelayTypes, Points
<1>2. StagesFit /\ FreeMeansOpen /\ BatchInHand /\ Accounted /\ AboutToEnd /\ StoppedInTime
  BY DEF StagesFit, FreeMeansOpen, BatchInHand, Accounted, AboutToEnd, StoppedInTime
<1> QED BY <1>1, <1>2 DEF RelayInv

\* What comes from outside: data, ends, the console and time.
LEMMA OutsideKeeps ==
  ASSUME RelayInv, Stop \/ RelayTick \/ \E d \in Way : Send(d) \/ Finish(d)
  PROVE  RelayInv'
<1> USE DEF RelayInv, asked, flow, shown, hands, waits, ends, authVars
<1>1. CASE Stop
  BY <1>1 DEF Stop, RelayTypes, Points, StagesFit, FreeMeansOpen, BatchInHand, Accounted,
     AboutToEnd,
     StoppedInTime
<1>2. CASE RelayTick
  BY <1>2 DEF RelayTick, RelayTypes, Points, StagesFit, FreeMeansOpen, BatchInHand, Accounted,
     AboutToEnd, StoppedInTime
<1>3. ASSUME NEW d \in Way, Send(d) PROVE RelayInv'
  <2>1. /\ sent' = [sent EXCEPT ![d] = @ + 1] /\ queue' = [queue EXCEPT ![d] = @ + 1]
        /\ fin[d] = "open"
        /\ UNCHANGED <<stage, kind, target, passed, batch, beforeStop, fin, seen, at, numb, free,
              stop>>
    BY <1>3 DEF Send, MaySend
  <2>2. RelayTypes'
    BY <2>1 DEF RelayTypes, Points
  <2>3. StagesFit' /\ FreeMeansOpen' /\ BatchInHand' /\ StoppedInTime'
    BY <2>1 DEF StagesFit, FreeMeansOpen, BatchInHand, StoppedInTime
  <2>4. \A w \in Way : sent'[w] - queue'[w] = sent[w] - queue[w] /\ sent'[w] \in Nat
         /\ queue'[w] \in Nat
    BY <2>1 DEF RelayTypes
  <2>5. Accounted'
    BY <2>1, <2>4 DEF Accounted, RelayTypes
  <2>6. AboutToEnd'
    BY <2>1 DEF AboutToEnd, RelayTypes
  <2> QED BY <2>2, <2>3, <2>5, <2>6
<1>4. ASSUME NEW d \in Way, Finish(d) PROVE RelayInv'
  BY <1>4 DEF Finish, MaySend, RelayTypes, Points, StagesFit, FreeMeansOpen, BatchInHand, Accounted,
     AboutToEnd, StoppedInTime
<1> QED BY <1>1, <1>2, <1>3, <1>4

\* The handlers before the relay begins, and its last steps.
LEMMA HandlerKeeps ==
  ASSUME RelayInv, NoFrame \/ TakeFrame \/ Route \/ Reject \/ Payload \/ Notify \/ Join
  PROVE  RelayInv'
<1> USE DEF RelayInv, RelayTypes, Points, StagesFit, FreeMeansOpen, BatchInHand, Accounted,
       AboutToEnd,
        StoppedInTime, asked, flow, shown, hands, waits, ends, authVars, idleRelay, Refuse
<1>1. CASE NoFrame
  BY <1>1 DEF NoFrame
<1>2. CASE TakeFrame
  BY <1>2 DEF TakeFrame
<1>3. CASE Route
  BY <1>3 DEF Route
<1>4. CASE Reject
  BY <1>4 DEF Reject
<1>5. CASE Payload
  BY <1>5 DEF Payload, Dropped, Begins, Fails
<1>6. CASE Notify
  BY <1>6 DEF Notify, Running, MoveTo
<1>7. CASE Join
  BY <1>7 DEF Join
<1> QED BY <1>1, <1>2, <1>3, <1>4, <1>5, <1>6, <1>7

\* A coroutine that ends, however it does.
LEMMA EndsKeeps ==
  ASSUME RelayInv, NEW d \in Way, NEW how \in {"clean", "failed", "cut"}, stage = "relay",
         at[d] # "done", Ends(d, how)
  PROVE  RelayInv'
<1> USE DEF RelayInv, asked, flow, shown, hands, waits, ends, authVars, Ends, Fine
<1>1. RelayTypes'
  <2>1. target' \in {"none", "open", "shut", "reset"} /\ free' \in BOOLEAN
    BY DEF RelayTypes
  <2>2. seen' \in [Way -> {"open", "clean", "broken", "refused"}] /\ queue' \in [Way -> Nat]
    BY DEF RelayTypes
  <2> QED BY <2>1, <2>2 DEF RelayTypes, Points
<1>2. StagesFit' /\ FreeMeansOpen'
  <2>1. free' => kind = "wg" /\ d = "dn"
    BY DEF RelayTypes
  <2>2. /\ target' \in {"shut", "reset"} /\ seen'["up"] \in {"clean", "broken"}
        /\ UNCHANGED <<stage, kind>>
    BY DEF RelayTypes, StagesFit, FreeMeansOpen
  <2>3. at'[d] = "done" /\ \A w \in Way : at[w] # "off" => at'[w] # "off"
    BY DEF RelayTypes
  <2> QED BY <2>1, <2>2, <2>3 DEF StagesFit, FreeMeansOpen
<1>3. BatchInHand' /\ StoppedInTime'
  BY DEF RelayTypes, BatchInHand, StoppedInTime
<1>4. target' \notin {"none", "open"}
  BY <1>2 DEF RelayTypes, StagesFit, FreeMeansOpen
<1>5. Accounted'
  <2>1. /\ batch' = [batch EXCEPT ![d] = 0] /\ at' = [at EXCEPT ![d] = "done"]
        /\ UNCHANGED <<sent, passed, stage>>
    OBVIOUS
  <2>2. queue'["up"] = queue["up"] /\ queue'["dn"] \in 0..queue["dn"]
    BY DEF RelayTypes
  <2> QED BY <2>1, <2>2, <1>4 DEF RelayTypes, Accounted
<1>6. AboutToEnd'
  <2>1. /\ at' = [at EXCEPT ![d] = "done"] /\ UNCHANGED <<kind, sent, passed, fin, numb>>
        /\ d # "dn" => seen'["dn"] = seen["dn"]
    BY DEF RelayTypes
  <2> QED BY <2>1 DEF RelayTypes, AboutToEnd
<1> QED BY <1>1, <1>2, <1>3, <1>5, <1>6

\* The ways a coroutine ends, and what each of them knows when it does.
RelayKnows(d, how) ==
  /\ stage = "relay" /\ at[d] # "done" /\ how \in {"clean", "failed", "cut"}
  /\ d = "up" /\ how = "clean" => fin["up"] = "clean" /\ passed["up"] = sent["up"]
  /\ d = "up" /\ how = "failed" => fin["dn"] # "open" \/ target # "open"
  /\ d = "dn" /\ how = "clean" => fin["dn"] # "open" /\ seen["dn"] = "clean"

\* The other steps of the loops: a coroutine moves on, takes data, or hands it over.
RelayRest == <<stage, kind, sent, fin, seen, target, free, stop, beforeStop>>
MovesOn(d) ==
  /\ UNCHANGED <<RelayRest, batch, queue, passed, numb>>
  /\ \/ UNCHANGED at
     \/ at[d] = "head" /\ MoveTo(d, "wait")
     \/ at[d] = "charge" /\ ~stop /\ MoveTo(d, "write")
     \/ /\ d = "dn" /\ at[d] = "wait" /\ MoveTo(d, "notify") /\ fin[d] # "open"
        /\ kind = "ss" => fin[d] = "clean"
        /\ passed[d] = sent[d]
Takes(d) ==
  /\ UNCHANGED <<RelayRest, passed>> /\ at[d] = "wait" /\ MoveTo(d, "charge")
  /\ \E n \in 1..queue[d] :
       batch' = [batch EXCEPT ![d] = n] /\ queue' = [queue EXCEPT ![d] = @ - n]
  /\ numb' \in BOOLEAN /\ (numb' => numb \/ kind = "direct")
HandsOver(d) ==
  /\ UNCHANGED <<RelayRest, queue, numb>> /\ at[d] = "write" /\ MoveTo(d, "head") /\ Works(d)
  /\ passed' = [passed EXCEPT ![d] = @ + batch[d]] /\ batch' = [batch EXCEPT ![d] = 0]

\* What a direction's loop does, seen from the pipe: it moves on, takes a batch in hand, or
\* hands it over.
LEMMA LoopSteps ==
  ASSUME RelayInv, NEW d \in Way, Coroutine(d) \/ Finished
  PROVE  \/ \E w \in Way, how \in {"clean", "failed", "cut"} : Ends(w, how) /\ RelayKnows(w, how)
         \/ stage = "relay" /\ (MovesOn(d) \/ Takes(d) \/ HandsOver(d))
<1> USE DEF asked, flow, shown, hands, waits, ends, authVars, RelayRest
<1>1. CASE LoopHead(d)
  BY <1>1 DEF LoopHead, Running, RelayKnows, MovesOn
<1>2. CASE Wake(d)
  BY <1>2 DEF Wake, Running, RelayKnows, MovesOn
<1>3. CASE ReadData(d)
  <2>1. numb' \in BOOLEAN /\ (numb' => numb \/ kind = "direct")
    <3>1. UNCHANGED numb \/ (kind = "direct" /\ numb' = TRUE)
      BY <1>3 DEF ReadData
    <3>2. numb \in BOOLEAN
      BY DEF RelayInv, RelayTypes
    <3>3. CASE numb' = numb
      BY <3>2, <3>3
    <3>4. CASE kind = "direct" /\ numb' = TRUE
      BY <3>4
    <3> QED BY <3>1, <3>3, <3>4
  <2> QED BY <1>3, <2>1 DEF ReadData, Running, Takes
<1>4. CASE ReadEnd(d)
  <2>1. CASE Result(d) = "end" /\ d = "up" /\ Ends(d, "clean")
    <3>1. fin["up"] = "clean" /\ queue["up"] = 0
      BY <2>1 DEF Result, RelayInv, RelayTypes
    <3>2. batch["up"] = 0 /\ passed["up"] + batch["up"] + queue["up"] = sent["up"]
      BY <1>4, <2>1 DEF ReadEnd, Running, RelayInv, RelayTypes, BatchInHand, Accounted
    <3> QED BY <1>4, <2>1, <3>1, <3>2 DEF ReadEnd, Running, RelayKnows, RelayInv, RelayTypes
  <2>2. CASE Result(d) = "end" /\ d = "dn" /\ Own /\ MoveTo(d, "notify")
             /\ UNCHANGED <<asked, flow, shown, batch, numb, waits, ends, quiet, authVars>>
    <3>1. stage = "relay" /\ at[d] = "wait" /\ free
      BY <1>4, <2>2 DEF ReadEnd, Running, Own
    <3>2. target = "open"
      BY <2>2, <3>1 DEF RelayInv, FreeMeansOpen
    <3>3. queue[d] = 0 /\ fin[d] # "open" /\ (kind = "ss" => fin[d] = "clean")
      BY <2>2, <3>2 DEF Result, RelayInv, RelayTypes, AboutToEnd
    <3>4. batch[d] = 0 /\ passed[d] + batch[d] + queue[d] = sent[d]
      BY <2>2, <3>1, <3>2 DEF RelayInv, RelayTypes, BatchInHand, Accounted
    <3>5. passed[d] = sent[d]
      BY <2>2, <3>3, <3>4 DEF RelayInv, RelayTypes
    <3> QED BY <2>2, <3>1, <3>3, <3>5 DEF MovesOn
  <2>3. CASE Ends(d, "cut")
    BY <1>4, <2>3 DEF ReadEnd, Running, RelayKnows
  <2> QED BY <1>4, <2>1, <2>2, <2>3 DEF ReadEnd
<1>5. CASE Charge(d)
  BY <1>5 DEF Charge, Pays, Running, RelayKnows, MovesOn
<1>6. CASE WriteData(d)
  BY <1>6 DEF WriteData, Running, RelayKnows, Broken, Fails, HandsOver
<1>7. CASE Finished
  BY <1>7 DEF Finished, Running, RelayKnows, RelayInv, AboutToEnd
<1> QED BY <1>1, <1>2, <1>3, <1>4, <1>5, <1>6, <1>7 DEF Coroutine

\* The loops keep the invariant.
LEMMA LoopKeeps ==
  ASSUME RelayInv, NEW d \in Way, Coroutine(d) \/ Finished
  PROVE  RelayInv'
<1>1. ASSUME NEW w \in Way, NEW how \in {"clean", "failed", "cut"}, Ends(w, how), RelayKnows(w, how)
      PROVE  RelayInv'
  BY <1>1, EndsKeeps DEF RelayKnows
<1>2. CASE stage = "relay" /\ MovesOn(d)
  BY <1>2 DEF MovesOn, RelayRest, MoveTo, RelayInv, RelayTypes, Points, StagesFit, FreeMeansOpen,
     BatchInHand,
     Accounted, AboutToEnd, StoppedInTime
<1>3. CASE stage = "relay" /\ Takes(d)
  BY <1>3 DEF Takes, RelayRest, MoveTo, RelayInv, RelayTypes, Points, StagesFit, FreeMeansOpen,
     BatchInHand,
     Accounted, AboutToEnd, StoppedInTime
<1>4. CASE stage = "relay" /\ HandsOver(d)
  BY <1>4 DEF HandsOver, RelayRest, MoveTo, RelayInv, RelayTypes, Points, StagesFit, FreeMeansOpen,
     BatchInHand,
     Accounted, AboutToEnd, StoppedInTime
<1> QED BY LoopSteps, <1>1, <1>2, <1>3, <1>4

\* Every step keeps the invariant.
LEMMA RelayKeeps == RelayInv /\ [RelayNext]_relayVars => RelayInv'
<1> SUFFICES ASSUME RelayInv, [RelayNext]_relayVars PROVE RelayInv'
  OBVIOUS
<1>1. CASE UNCHANGED relayVars
  BY <1>1 DEF relayVars, asked, flow, shown, hands, waits, ends, authVars, RelayInv, RelayTypes,
     Points, StagesFit, FreeMeansOpen, BatchInHand, Accounted, AboutToEnd, StoppedInTime
<1>2. CASE RelayNext
  BY <1>2, OutsideKeeps, HandlerKeeps, LoopKeeps DEF RelayNext, Handler
<1> QED BY <1>1, <1>2

\* The invariant of the relay always holds.
LEMMA RelayInvariant == RelaySpec => []RelayInv
  BY RelayStarts, RelayKeeps, PTL DEF RelaySpec

\* handle_tcp_relay: once the stop signal is seen (quota spent, user removed), no direction
\* passes a byte that had not been read before.
THEOREM StopIsTheEnd == RelaySpec => []NothingAfterStop
<1>1. RelayInv => NothingAfterStop
  BY DEF RelayInv, StoppedInTime, NothingAfterStop
<1> QED BY <1>1, RelayInvariant, PTL

-----------------------------------------------------------------------------

\* What a step does to the two ways as a pipe sees them.
BothWays == RelayUp!PipeNext /\ RelayDown!PipeNext

\* A tunnel that is gone stays as it is.
StaysGone == stage = "gone" => UNCHANGED <<stage, target, at>>

\* A step that hands nothing over and shows nothing.
LEMMA QuietSteps ==
  ASSUME RelayInv, StaysGone, UNCHANGED <<kind, passed, seen>>,
         UNCHANGED <<sent, fin>> \/ \E d \in Way : Send(d) \/ Finish(d)
  PROVE  BothWays
<1>1. RelayUp!Deafens /\ RelayDown!Deafens
  BY DEF StaysGone, RelayUp!Deafens, RelayDown!Deafens, Neither, Relayed, Send, Finish, MaySend,
     RelayInv, RelayTypes, flow, shown
<1>2. RelayUp!Passes /\ RelayDown!Passes /\ RelayUp!Shows /\ RelayDown!Shows
  BY DEF RelayUp!Passes, RelayDown!Passes, RelayUp!Shows, RelayDown!Shows
<1>3. RelayUp!Sends /\ RelayDown!Sends
  BY DEF RelayUp!Sends, RelayDown!Sends, Send, Finish, MaySend, RelayInv, RelayTypes
<1>4. RelayUp!Finishes /\ RelayDown!Finishes
  BY DEF RelayUp!Finishes, RelayDown!Finishes, RelayUp!Ends, RelayDown!Ends, Send, Finish,
     MaySend, RelayInv, RelayTypes
<1> QED BY <1>1, <1>2, <1>3, <1>4 DEF BothWays, RelayUp!PipeNext, RelayDown!PipeNext

\* A step that shows an end, and what makes that right.
LEMMA ShowingSteps ==
  ASSUME RelayInv, stage # "gone", UNCHANGED <<kind, passed, sent, fin>>,
         seen["up"] # seen'["up"] =>
           /\ seen["up"] = "open" /\ seen'["up"] \in {"clean", "broken"}
           /\ seen'["up"] = "clean" =>
                \/ fin["up"] = "clean" /\ passed["up"] = sent["up"]
                \/ fin["dn"] # "open" \/ Neither',
         seen["dn"] # seen'["dn"] =>
           /\ seen["dn"] = "open" /\ seen'["dn"] \in {"clean", "broken", "refused"}
           /\ seen'["dn"] = "clean" =>
                \/ /\ fin["dn"] # "open" /\ (kind = "ss" => fin["dn"] = "clean")
                   /\ passed["dn"] = sent["dn"]
                \/ ~Relayed' /\ Neither'
  PROVE  BothWays
<1>1. RelayUp!Deafens /\ RelayDown!Deafens
  BY DEF RelayUp!Deafens, RelayDown!Deafens, Neither, Relayed
<1>2. RelayUp!Passes /\ RelayDown!Passes /\ RelayUp!Sends /\ RelayDown!Sends
  BY DEF RelayUp!Passes, RelayDown!Passes, RelayUp!Sends, RelayDown!Sends
<1>3. RelayUp!Shows
  BY DEF RelayUp!Shows, RelayUp!Ends, RelayUp!Whole
<1>4. RelayDown!Shows
  BY DEF RelayDown!Shows, RelayDown!Ends, RelayDown!Whole, RelayInv, RelayTypes
<1>5. RelayUp!Finishes /\ RelayDown!Finishes
  BY DEF RelayUp!Finishes, RelayDown!Finishes
<1> QED BY <1>1, <1>2, <1>3, <1>4, <1>5 DEF BothWays, RelayUp!PipeNext, RelayDown!PipeNext

\* A step that hands over what was sent, to one that has not been shown an end.
LEMMA PassingSteps ==
  ASSUME RelayInv, stage # "gone", UNCHANGED <<kind, sent, fin, seen>>, NEW d \in Way,
         seen[d] = "open", NEW n \in Nat, n > 0, passed' = [passed EXCEPT ![d] = @ + n],
         passed[d] + n <= sent[d]
  PROVE  BothWays
<1>1. RelayUp!Deafens /\ RelayDown!Deafens
  BY DEF RelayUp!Deafens, RelayDown!Deafens, Neither, Relayed
<1>2. RelayUp!Passes /\ RelayDown!Passes
  BY DEF RelayUp!Passes, RelayDown!Passes, RelayInv, RelayTypes
<1>3. RelayUp!Shows /\ RelayDown!Shows /\ RelayUp!Sends /\ RelayDown!Sends
  BY DEF RelayUp!Shows, RelayDown!Shows, RelayUp!Sends, RelayDown!Sends
<1>5. RelayUp!Finishes /\ RelayDown!Finishes
  BY DEF RelayUp!Finishes, RelayDown!Finishes
<1> QED BY <1>1, <1>2, <1>3, <1>5 DEF BothWays, RelayUp!PipeNext, RelayDown!PipeNext

\* Each step of the relay is one of both pipes, or none.
LEMMA PipeSteps == RelayInv /\ RelayInv' /\ [RelayNext]_relayVars => BothWays
<1> SUFFICES ASSUME RelayInv, RelayInv', [RelayNext]_relayVars PROVE BothWays
  OBVIOUS
<1> USE DEF asked, flow, shown, hands, waits, ends, authVars
<1>1. CASE UNCHANGED relayVars \/ Stop \/ RelayTick \/ Route \/ Join
  BY <1>1, QuietSteps DEF relayVars, Stop, RelayTick, Route, Join, StaysGone, idleRelay, Refuse
<1>2. ASSUME NEW d \in Way, Send(d) \/ Finish(d) PROVE BothWays
  BY <1>2, QuietSteps DEF Send, Finish, MaySend, StaysGone
<1>3. CASE NoFrame
  BY <1>3, ShowingSteps DEF NoFrame, Refuse, idleRelay, RelayInv, StagesFit, RelayTypes
<1>4. CASE TakeFrame
  <2>1. /\ stage \in {"first", "second", "third"}
            /\ UNCHANGED <<kind, sent, fin, passed, target, at>>
        /\ \/ UNCHANGED seen
           \/ stage' = "gone" /\ \E how \in {"clean", "broken"} : seen'
                 = [seen EXCEPT !["dn"] = how]
    BY <1>4 DEF TakeFrame, Refuse, idleRelay
  <2>2. seen["dn"] = "open" /\ target = "none" /\ at["up"] = "off"
    BY <2>1 DEF RelayInv, StagesFit
  <2> QED BY <2>1, <2>2, ShowingSteps DEF RelayInv, RelayTypes, Relayed, Neither
<1>5. CASE Reject
  <2>1. /\ stage \in {"signal", "linger"} /\ UNCHANGED <<kind, sent, fin, passed, target, at>>
        /\ \/ UNCHANGED seen
           \/ stage = "signal" /\ \E how \in {"refused", "broken"} : seen'
                 = [seen EXCEPT !["dn"] = how]
    BY <1>5 DEF Reject, Refuse, idleRelay
  <2>2. stage = "signal" => seen["dn"] = "open"
    BY DEF RelayInv, StagesFit
  <2> QED BY <2>1, <2>2, ShowingSteps DEF RelayInv, RelayTypes
<1>6. CASE Payload
  <2>1. stage = "payload" /\ seen["up"] = "open" /\ seen["dn"] = "open" /\ at["up"] = "off"
        /\ UNCHANGED <<kind, sent, fin>>
    BY <1>6 DEF Payload, RelayInv, StagesFit, idleRelay
  <2>2. \/ UNCHANGED <<passed, seen>>
        \/ UNCHANGED <<passed, at>> /\ Dropped
        \/ queue["up"] > 0 /\ passed' = [passed EXCEPT !["up"] = @ + 1] /\ UNCHANGED seen
    BY <1>6 DEF Payload, idleRelay
  <2>3. CASE UNCHANGED <<passed, seen>>
    BY <2>1, <2>3, ShowingSteps
  <2>4. CASE UNCHANGED <<passed, at>> /\ Dropped
    BY <2>1, <2>4, ShowingSteps DEF Dropped, Neither
  <2>5. CASE queue["up"] > 0 /\ passed' = [passed EXCEPT !["up"] = @ + 1] /\ UNCHANGED seen
    <3>1. passed["up"] + 1 <= sent["up"]
      BY <2>5 DEF RelayInv, RelayTypes, Accounted
    <3>2. "up" \in Way /\ 1 \in Nat /\ 1 > 0 /\ stage # "gone"
      BY <2>1
    <3>3. passed' = [passed EXCEPT !["up"] = passed["up"] + 1]
      BY <2>5
    <3> QED BY ONLY RelayInv, <2>1, <2>5, <3>1, <3>2, <3>3, PassingSteps, Zenon
  <2> QED BY <2>2, <2>3, <2>4, <2>5
<1>7. CASE Notify
  <2>1. /\ stage = "relay" /\ at["dn"] = "notify" /\ UNCHANGED <<kind, sent, fin, passed>>
        /\ seen' = [seen EXCEPT !["dn"] = "clean"]
    BY <1>7 DEF Notify, Running
  <2> QED BY <2>1, ShowingSteps DEF RelayInv, RelayTypes, AboutToEnd
<1>8. ASSUME NEW d \in Way, NEW how \in {"clean", "failed", "cut"}, Ends(d, how), RelayKnows(d, how)
      PROVE  BothWays
  <2>1. stage = "relay" /\ UNCHANGED <<kind, sent, fin, passed>>
    BY <1>8 DEF Ends, RelayKnows
  <2>2. seen["up"] # seen'["up"] =>
           /\ seen["up"] = "open" /\ seen'["up"] \in {"clean", "broken"}
           /\ seen'["up"] = "clean" => Fine(d, how) /\ target \in {"none", "open"}
    BY <1>8 DEF Ends, RelayInv, RelayTypes, StagesFit
  <2>3. seen["dn"] # seen'["dn"] => seen["dn"] = "open" /\ seen'["dn"] = "broken"
    BY <1>8 DEF Ends, RelayInv, RelayTypes
  <2>4. Fine(d, how) /\ target \in {"none", "open"} /\ stage = "relay" =>
           \/ fin["up"] = "clean" /\ passed["up"] = sent["up"]
           \/ fin["dn"] # "open"
    BY <1>8 DEF RelayKnows, Fine, RelayInv, StagesFit
  <2> QED BY <2>1, <2>2, <2>3, <2>4, ShowingSteps
<1>9. ASSUME NEW d \in Way, stage = "relay", MovesOn(d) \/ Takes(d) PROVE BothWays
  BY <1>9, QuietSteps DEF MovesOn, Takes, RelayRest, StaysGone
<1>10. ASSUME NEW d \in Way, stage = "relay", HandsOver(d) PROVE BothWays
  <2>1. seen[d] = "open"
    BY <1>10 DEF HandsOver, Works, RelayInv, AboutToEnd, StagesFit
  <2>2. batch[d] \in Nat /\ batch[d] > 0 /\ passed[d] + batch[d] <= sent[d]
    BY <1>10 DEF HandsOver, RelayInv, RelayTypes, BatchInHand, Accounted
  <2> QED BY <1>10, <2>1, <2>2, PassingSteps DEF HandsOver, RelayRest
<1>11. ASSUME NEW d \in Way, Coroutine(d) \/ Finished PROVE BothWays
  BY <1>8, <1>9, <1>10, <1>11, LoopSteps
<1> QED BY <1>1, <1>2, <1>3, <1>4, <1>5, <1>6, <1>7, <1>11 DEF RelayNext, Handler

\* The relay of a tunnel implements HalfPipe in both directions: bytes arrive in order and once,
\* and an end that is seen as clean comes after every byte (the FIN propagation of
\* handle_tcp_relay, relay_via_shadowsocks and relay_via_wireguard).
THEOREM RelayIsPipe == RelaySpec => RelayIsAPipe
<1>1. RelayInit => RelayUp!PipeInit /\ RelayDown!PipeInit
  BY DEF RelayInit, RelayUp!PipeInit, RelayDown!PipeInit, Neither, Relayed
<1>2. BothWays => RelayUp!PipeNext /\ RelayDown!PipeNext
  BY DEF BothWays
<1> QED BY <1>1, <1>2, RelayInvariant, PipeSteps, PTL
     DEF RelaySpec, RelayIsAPipe, RelayUp!PipeSpec, RelayDown!PipeSpec
=============================================================================
