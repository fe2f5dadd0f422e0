----------------------------- MODULE RateLimit -----------------------------
(***************************************************************************)
(* Rate limits: token buckets that relays wait at and datagrams are        *)
(* dropped by, and the table that gives the connections of an address      *)
(* their bucket (src/src/proxy/rate_limit.rs).                             *)
(*                                                                         *)
(* A tick refills one token (rate 1).  A relay pays at the bucket of its   *)
(* address and then at the bucket of its user.                             *)
(***************************************************************************)
EXTENDS Integers, FiniteSets

CONSTANTS
  Job,           \* blocks to forward, each with its size
  sizeOf,
  Burst,
  MaxTicks,      \* bound: the last tick
  Address, Link, \* client addresses of one network, and connections
  LimitCap,      \* RATE_LIMIT_CAP
  MaxBuckets,    \* bounds: buckets made, and changes of the limit
  MaxChanges

ASSUME RateLimitAssumption ==
  /\ sizeOf \in [Job -> Nat \ {0}] /\ {Burst, LimitCap} \subseteq Nat \ {0}
  /\ {MaxTicks, MaxBuckets, MaxChanges} \subseteq Nat

RateBucket == {"address", "user"}

VARIABLES
  ticks, tokens, last,   \* the time, and each bucket: what it holds, when it was refilled
  job,                   \* where a block stands
  need, wakes,           \* what it still needs of its bucket, and when it tries again
  through,               \* what each bucket let through
  limiter, rebuilt,      \* the limiter that is installed, and one that is being built
  link,                  \* the bucket of each connection and how it came by it
  made, era              \* buckets made, and how often the limit was changed

bucketVars == <<ticks, tokens, last, job, need, wakes, through>>
limiterVars == <<limiter, rebuilt, link, made, era>>
rateVars == <<bucketVars, limiterVars>>

NoLink == [of |-> "none", bucket |-> 0, own |-> FALSE, era |-> 0, late |-> FALSE]
NoLimiter == [live |-> <<>>, spare |-> 0]
NoLimit == [live |-> <<>>, spare |-> 0 - 1]   \* nothing is being built
RateInit ==
  /\ ticks = 0 /\ tokens = [b \in RateBucket |-> Burst] /\ last = [b \in RateBucket |-> 0]
  /\ job = [j \in Job |-> "address"]
  /\ need = sizeOf /\ wakes = [j \in Job |-> 0] /\ through = [b \in RateBucket |-> 0]
  /\ limiter = NoLimiter /\ rebuilt = NoLimit
  /\ link = [c \in Link |-> NoLink] /\ made = 0 /\ era = 0

-----------------------------------------------------------------------------
(* TokenBucket.                                                            *)

Passes == ticks < MaxTicks /\ ticks' = ticks + 1
          /\ UNCHANGED <<tokens, last, job, need, wakes, through, limiterVars>>

Refilled(b) == LET t == tokens[b] + (ticks - last[b]) IN IF t < Burst THEN t ELSE Burst
Pass(b, n) == through' = [through EXCEPT ![b] = @ + n]

\* Mutant of LeftOver: the tokens a waiting block took account of stay in the bucket
KeptTokens(b) == Refilled(b)
LeftOver(b) == 0

\* consume: take what is there, sleep for the rest, and try again.
Consume(j) ==
  LET b == job[j]
      enough == Refilled(b) >= need[j]
  IN  /\ b \in RateBucket /\ ticks >= wakes[j]
      /\ last' = [last EXCEPT ![b] = ticks]
      /\ tokens' = [tokens EXCEPT ![b] = IF enough THEN Refilled(b) - need[j] ELSE LeftOver(b)]
      /\ IF enough
         THEN /\ job' = [job EXCEPT ![j] = IF b = "address" THEN "user" ELSE "sent"]
              /\ need' = [need EXCEPT ![j] = sizeOf[j]]
              /\ wakes' = wakes /\ Pass(b, sizeOf[j])
         ELSE /\ need' = [need EXCEPT ![j] = @ - Refilled(b)]
              /\ wakes' = [wakes EXCEPT ![j] = ticks + need[j] - Refilled(b)]
              /\ UNCHANGED <<job, through>>
      /\ UNCHANGED <<ticks, limiterVars>>

\* try_consume_two: of a datagram both buckets have enough, or neither loses any.
TryConsumeTwo(j) ==
  /\ job[j] = "address" /\ need[j] = sizeOf[j] /\ wakes[j] = 0
  /\ last' = [b \in RateBucket |-> ticks]
  /\ job' = [job EXCEPT ![j] = "sent"]
  /\ IF \A b \in RateBucket : Refilled(b) >= sizeOf[j]
     THEN /\ tokens' = [b \in RateBucket |-> Refilled(b) - sizeOf[j]]
          /\ through' = [b \in RateBucket |-> through[b] + sizeOf[j]]
     ELSE tokens' = [b \in RateBucket |-> Refilled(b)] /\ UNCHANGED through
  /\ UNCHANGED <<ticks, need, wakes, limiterVars>>

BucketNext == Passes \/ \E j \in Job : Consume(j) \/ TryConsumeTwo(j)

-----------------------------------------------------------------------------
(* RateLimiter.                                                            *)

Live == DOMAIN limiter.live
InUse(b) == \/ \E c \in Link : link[c].bucket = b
            \/ rebuilt # NoLimit /\ b \in {rebuilt.live[a] : a \in DOMAIN rebuilt.live}
Joined(f, a, b) == [x \in DOMAIN f \cup {a} |-> IF x = a THEN b ELSE f[x]]
Without(f, a) == [x \in DOMAIN f \ {a} |-> f[x]]

Connects(c, a, bucket, own) ==
  link' = [link EXCEPT ![c] = [of |-> a, bucket |-> bucket, own |-> own, era |-> era,
                               late |-> rebuilt # NoLimit]]
New == made < MaxBuckets /\ made' = made + 1

\* Only an entry that no connection uses makes room.
Evictable(a) == ~InUse(limiter.live[a])

\* buckets_for: the bucket of the address, a new one, one in the place of an entry nobody
\* uses (the code takes the one that was looked up longest ago), or the shared spare one.
BucketsFor(c, a) ==
  /\ link[c] = NoLink
  /\ \/ a \in Live /\ Connects(c, a, limiter.live[a], TRUE) /\ UNCHANGED <<limiter, made>>
     \/ /\ a \notin Live /\ Cardinality(Live) < LimitCap
        /\ New /\ Connects(c, a, made + 1, TRUE)
        /\ limiter' = [limiter EXCEPT !.live = Joined(@, a, made + 1)]
     \/ /\ a \notin Live /\ Cardinality(Live) >= LimitCap
        /\ \E old \in Live :
             /\ Evictable(old) /\ New /\ Connects(c, a, made + 1, TRUE)
             /\ limiter' = [limiter EXCEPT !.live = Joined(Without(@, old), a, made + 1)]
     \/ /\ a \notin Live /\ Cardinality(Live) >= LimitCap /\ \A old \in Live : ~Evictable(old)
        /\ IF limiter.spare # 0
           THEN Connects(c, a, limiter.spare, FALSE) /\ UNCHANGED <<limiter, made>>
           ELSE /\ New /\ Connects(c, a, made + 1, FALSE)
                /\ limiter' = [limiter EXCEPT !.spare = made + 1]
  /\ UNCHANGED <<rebuilt, era, bucketVars>>

Disconnects(c) ==
  /\ link[c] # NoLink /\ link' = [link EXCEPT ![c] = NoLink]
  /\ UNCHANGED <<limiter, rebuilt, made, era, bucketVars>>

\* rebuild_from keeps the buckets the limit of which is the same, and the limiter is put in
\* place by set_server_limiter.
Rebuild ==
  /\ rebuilt = NoLimit
  /\ \E same \in BOOLEAN :
       /\ (same \/ era < MaxChanges) /\ era' = IF same THEN era ELSE era + 1
       /\ rebuilt' = IF same THEN limiter ELSE NoLimiter
  /\ UNCHANGED <<limiter, link, made, bucketVars>>
SetLimiter ==
  /\ rebuilt # NoLimit /\ limiter' = rebuilt /\ rebuilt' = NoLimit
  /\ UNCHANGED <<link, made, era, bucketVars>>

LimiterNext == \/ Rebuild \/ SetLimiter
               \/ \E c \in Link : Disconnects(c) \/ \E a \in Address : BucketsFor(c, a)

RateNext == BucketNext \/ LimiterNext
RateSpec == RateInit /\ [][RateNext]_rateVars

-----------------------------------------------------------------------------
(* Properties.                                                             *)

\* However many relays and datagrams share a bucket, it never lets more through than its
\* burst and what has been refilled.
NeverFaster == \A b \in RateBucket : through[b] <= Burst + ticks

\* The connections of an address have one bucket, through reloads and a full table, but for
\* those that took the spare one, came while a limiter was being replaced, or before the
\* limit was changed.
OneBucket ==
  \A c, d \in Link :
    (/\ link[c] # NoLink /\ link[c].of = link[d].of /\ link[c].era = link[d].era
     /\ link[c].own /\ link[d].own /\ ~link[c].late /\ ~link[d].late)
      => link[c].bucket = link[d].bucket

\* An address gets no more than its rate: not from a bucket, and not from a second one.
RateKept == NeverFaster /\ OneBucket

\* What the comment of buckets_for says of the spare bucket: it only slows down.
SpareOnlySlows ==
  \A c, d \in Link :
    (/\ link[c] # NoLink /\ link[c].of = link[d].of /\ link[c].era = link[d].era
     /\ ~link[c].late /\ ~link[d].late)
      => link[c].bucket = link[d].bucket
=============================================================================
