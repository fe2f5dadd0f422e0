---------------------------- MODULE ReplayCache ----------------------------
(***************************************************************************)
(* The token that a client hides in its ClientHello is good once, and for  *)
(* a time: the server compares the token's timestamp with its clock and    *)
(* then remembers the token in a cache of buckets by timestamp, which      *)
(* forgets by a high-water mark (src/src/crypto/hello_auth.rs).            *)
(*                                                                         *)
(* The cache of one credential is modelled: each has its own, and a token  *)
(* of another credential ends at the comparison of its tag.                *)
(***************************************************************************)
EXTENDS Integers, FiniteSets

CONSTANTS
  Client,       \* connections that present tokens
  Token,        \* the credential's tokens
  Ts,           \* the timestamp in each
  Tolerance,    \* auth_ts_tolerance_secs
  BucketSecs,   \* REPLAY_BUCKET_SECS
  BucketCap,    \* REPLAY_BUCKET_CAP
  Slack,        \* how far a steady clock may be set back, or a check take
  MaxNow        \* bound: the last second

ASSUME ReplayAssumption ==
  /\ Ts \in [Token -> Nat] /\ IsFiniteSet(Token)
  /\ Tolerance \in Nat /\ BucketSecs \in Nat \ {0} /\ BucketCap \in Nat \ {0}
  /\ Slack \in 0 .. BucketSecs
  /\ MaxNow \in Nat

VARIABLES
  now,          \* the server's clock
  hwm, cache,   \* the high-water mark, and the tokens in the buckets
  pending,      \* of each client, the token whose tag is right and the time it was judged by
  latest,       \* history: the latest time so far
  steady,       \* history: no time has been behind that by more than Slack
  accepted      \* history: how often a token was accepted since the cache was cleared

replayVars == <<now, hwm, cache, pending, latest, steady, accepted>>

Nothing == [token |-> {}, at |-> 0]

RetainBuckets == (2 * Tolerance) \div BucketSecs + 2
Bucket(ts) == ts \div BucketSecs
BucketOf(t) == Bucket(Ts[t])

ts_within_tolerance(ts, time) == time <= ts + Tolerance /\ ts <= time + Tolerance

ReplayInit ==
  /\ now \in 0 .. MaxNow /\ latest = now /\ steady = TRUE
  /\ hwm = 0 /\ cache = {}
  /\ pending = [c \in Client |-> Nothing]
  /\ accepted = [t \in Token |-> 0]

-----------------------------------------------------------------------------
\* verify_session_token, up to the lock of the cache.
Judge(c, t) ==
  /\ pending[c] = Nothing
  /\ ts_within_tolerance(Ts[t], now)
  /\ pending' = [pending EXCEPT ![c] = [token |-> {t}, at |-> now]]
  /\ UNCHANGED <<now, hwm, cache, latest, steady, accepted>>

(* check_and_insert, under the lock.                                       *)

\* The token is older than anything the cache retains, which is taken for a clock set back.
SteppedBack(t) == BucketOf(t) + RetainBuckets < hwm

MarkFor(t) == IF SteppedBack(t) \/ BucketOf(t) > hwm THEN BucketOf(t) ELSE hwm

Retained(t) ==
  IF SteppedBack(t) THEN {} ELSE {u \in cache : MarkFor(t) - BucketOf(u) <= RetainBuckets}

Saturated(t) == Cardinality({u \in Retained(t) : BucketOf(u) = BucketOf(t)}) >= BucketCap

\* Mutant: a saturated bucket lets everything pass.
FreshWhenFull(t) == Saturated(t) \/ t \notin Retained(t)

\* HashSet::insert tells whether the token is new; a saturated bucket refuses it.
Fresh(t) == ~Saturated(t) /\ t \notin Retained(t)

Insert(c, t) ==
  /\ pending[c].token = {t}
  /\ hwm' = MarkFor(t)
  /\ cache' = Retained(t) \cup (IF Saturated(t) THEN {} ELSE {t})
  /\ accepted' =
       LET before == IF SteppedBack(t) THEN [u \in Token |-> 0] ELSE accepted
       IN  IF Fresh(t) THEN [before EXCEPT ![t] = @ + 1] ELSE before
  /\ pending' = [pending EXCEPT ![c] = Nothing]
  /\ UNCHANGED <<now, latest, steady>>

-----------------------------------------------------------------------------
Later(n) == IF n > latest THEN n ELSE latest

\* The clock goes on, or is set back.
SetClock(n) ==
  /\ n # now /\ now' = n
  /\ latest' = Later(n)
  /\ steady' = (steady /\ n >= Later(n) - Slack
                /\ \A c \in Client : pending[c] # Nothing => pending[c].at >= Later(n) - Slack)
  /\ UNCHANGED <<hwm, cache, pending, accepted>>

\* The cache is in memory only.
Restart ==
  /\ hwm' = 0 /\ cache' = {}
  /\ pending' = [c \in Client |-> Nothing]
  /\ latest' = now /\ steady' = TRUE
  /\ accepted' = [t \in Token |-> 0]
  /\ UNCHANGED now

ReplayNext ==
  \/ \E c \in Client, t \in Token : Judge(c, t) \/ Insert(c, t)
  \/ \E n \in 0 .. MaxNow : SetClock(n)
  \/ Restart

ReplaySpec == ReplayInit /\ [][ReplayNext]_replayVars

-----------------------------------------------------------------------------
Judged == [token : {{t} : t \in Token}, at : Nat] \cup {Nothing}

\* The types of the variables; the mark is never below a bucket that is kept.
ReplayTypeOK ==
  /\ now \in Nat /\ latest \in Nat /\ steady \in BOOLEAN
  /\ hwm \in Nat /\ cache \in SUBSET Token
  /\ pending \in [Client -> Judged]
  /\ accepted \in [Token -> Nat]
  /\ \A t \in cache : BucketOf(t) <= hwm

\* While the clock is steady no token, however old a replay it is, makes the cache forget:
\* the mark is never so far ahead of a token that has passed the tolerance.
OldTokenNeverClears ==
  steady => \A c \in Client, t \in Token : pending[c].token = {t} => ~SteppedBack(t)

Once == INSTANCE TokenOnce WITH Token <- Token, accepted <- accepted, steady <- steady

\* The cache keeps the promise: a token is accepted at most once, through eviction, replays at
\* the edge of the tolerance, clients at once and saturated buckets, until the server forgets.
TokensOnce == Once!Spec
=============================================================================
