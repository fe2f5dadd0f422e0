---------------------------- MODULE HostNetwork ----------------------------
(***************************************************************************)
(* What a process knows of the network it is in: the addresses of names    *)
(* (src/src/proxy/resolver.rs), which of them it may dial and which are    *)
(* its own (src/src/net_util.rs), and that a path has changed              *)
(* (src/src/net_monitor.rs).                                               *)
(*                                                                         *)
(* A resolution takes as long as it takes.  One name, the camouflage       *)
(* site's, is kept in the cache by a task that asks again before the entry *)
(* expires.                                                                *)
(***************************************************************************)
EXTENDS Integers, FiniteSets

CONSTANTS
  Name,          \* names that are asked for
  KeptName,      \* the one that is kept
  Dialer,        \* connections that resolve
  Ttl,           \* DNS_CACHE_TTL
  Interval,      \* keep_warm_interval: 0.65 to 0.85 of Ttl
  StaleCap,      \* DNS_STALE_CAP
  CacheMax,      \* CACHE_MAX_ENTRIES
  MaxAsking,     \* DNS_MAX_CONCURRENT
  LastSecond,    \* bounds: the last second, and changes of the path
  MaxPathChanges,
  addrsOf        \* [Name -> addresses as they come, each [v, class, reachable]]

Keeper == "keeper"

\* What egress_allowed tells apart
Class == {"public", "own", "loopback", "unspecified", "linklocal", "metadata", "multicast",
          "broadcast"}

ASSUME NetworkAssumption ==
  /\ KeptName \in Name /\ Keeper \notin Dialer
  /\ {Ttl, Interval, StaleCap, CacheMax, MaxAsking} \subseteq Nat \ {0}
  /\ {LastSecond, MaxPathChanges} \subseteq Nat /\ Interval < Ttl
  /\ \A n \in Name : \A i \in DOMAIN addrsOf[n] : addrsOf[n][i].class \in Class

Asker == Dialer \cup {Keeper}

VARIABLES
  second,    \* the time
  entries,   \* dns_cache: [name, expiry, at]
  asker,     \* where each asker is
  wanted,    \* the name it asks for
  wake,      \* when the keeper asks again
  extended,  \* the expiry it has computed for the old entry
  held,      \* ghost: the keeper's last round left an entry, which was not cleared since
  served     \* ghost: what was last taken from the cache, and how old it was

resolverVars == <<second, entries, asker, wanted, wake, extended, held, served>>

-----------------------------------------------------------------------------
(* resolve_cached and resolve_fresh.                                       *)

NothingServed == [name |-> KeptName, age |-> 0]
EntryOf(n) == CHOOSE e \in entries : e.name = n
FreshIn(n) == \E e \in entries : e.name = n /\ e.expiry > second

\* A fresh entry answers; otherwise the asker queues for a permit
Resolves(c, n) ==
  /\ asker[c] = "idle" /\ wanted' = [wanted EXCEPT ![c] = n]
  /\ IF FreshIn(n)
     THEN /\ served' = [name |-> n, age |-> second - EntryOf(n).at] /\ UNCHANGED asker
     ELSE /\ asker' = [asker EXCEPT ![c] = "queued"] /\ UNCHANGED served
  /\ UNCHANGED <<second, entries, wake, extended, held>>

Asking == {c \in Asker : asker[c] = "asking"}
Permitted(c) ==
  /\ asker[c] = "queued" /\ Cardinality(Asking) < MaxAsking
  /\ asker' = [asker EXCEPT ![c] = "asking"]
  /\ UNCHANGED <<second, entries, wanted, wake, extended, held, served>>

\* A full cache loses what is stale, and if that is not enough, everything
Room == IF Cardinality(entries) < CacheMax THEN entries
        ELSE LET live == {e \in entries : e.expiry > second}
             IN  IF Cardinality(live) < CacheMax THEN live ELSE {}
Inserted(n) == {e \in Room : e.name # n} \cup {[name |-> n, expiry |-> second + Ttl, at |-> second]}

\* The keeper sleeps for an Interval, the others go on with what they have
Rests(c) ==
  /\ asker' = [asker EXCEPT ![c] = IF c = Keeper THEN "sleep" ELSE "idle"]
  /\ wake' = IF c = Keeper THEN second + Interval ELSE wake

AnswerComes(c) ==
  /\ asker[c] = "asking" /\ Rests(c)
  /\ entries' = Inserted(wanted[c])
  /\ held' = (IF wanted[c] = KeptName THEN c = Keeper \/ held
              ELSE held /\ \E e \in Room : e.name = KeptName)
  /\ UNCHANGED <<second, wanted, extended, served>>

-----------------------------------------------------------------------------
(* keep_warm_dns.                                                          *)

\* Mutant of ExtendedExpiry: an entry that was there once is never given up
ExtendedAlways(e) ==
  IF e.expiry > second + Ttl THEN e.expiry ELSE second + Ttl
\* stale_extended_expiry, 0: not any more
ExtendedExpiry(e) ==
  IF second - e.at >= StaleCap THEN 0
  ELSE IF e.expiry > second + Ttl THEN e.expiry ELSE second + Ttl

\* What a failure leaves: a caller gets an error, the keeper holds on to what it had
AnswerFails(c) ==
  /\ asker[c] = "asking"
  /\ IF c = Keeper
     THEN /\ wake # 0 /\ asker' = [asker EXCEPT ![c] = "extends"] /\ UNCHANGED wake
          /\ extended' = IF \E e \in entries : e.name = KeptName
                         THEN ExtendedExpiry(EntryOf(KeptName)) ELSE 0
     ELSE Rests(c) /\ UNCHANGED extended
  /\ UNCHANGED <<second, entries, wanted, held, served>>

\* The lock is taken a second time
Extends ==
  /\ asker[Keeper] = "extends" /\ Rests(Keeper)
  /\ entries' = {IF e.name = KeptName /\ extended # 0 THEN [e EXCEPT !.expiry = extended] ELSE e :
                   e \in entries}
  /\ held' = (extended # 0 /\ \E e \in entries : e.name = KeptName)
  /\ extended' = 0 /\ UNCHANGED <<second, wanted, served>>

\* The start goes on when the first answer is a failure, or two seconds later
FirstGivenUp ==
  /\ wake = 0 /\ asker[Keeper] \in {"queued", "asking"}
  /\ asker[Keeper] = "asking" \/ second >= 2
  /\ Rests(Keeper) /\ UNCHANGED <<second, entries, wanted, extended, held, served>>

AsksAgain ==
  /\ asker[Keeper] = "sleep" /\ second >= wake
  /\ asker' = [asker EXCEPT ![Keeper] = "queued"]
  /\ UNCHANGED <<second, entries, wanted, wake, extended, held, served>>

\* Time passes; the keeper's timer is not late, and between its two locks there is none
SecondPasses ==
  /\ second < LastSecond /\ second' = second + 1
  /\ asker[Keeper] # "extends" /\ (asker[Keeper] = "sleep" => second < wake)
  /\ UNCHANGED <<entries, asker, wanted, wake, extended, held, served>>

ResolverInit ==
  /\ second = 0 /\ entries = {} /\ asker = [c \in Asker |-> IF c = Keeper THEN "queued" ELSE "idle"]
  /\ wanted = [c \in Asker |-> KeptName] /\ wake = 0 /\ extended = 0 /\ held = FALSE
  /\ served = NothingServed
ResolverNext ==
  \/ \E c \in Asker : Permitted(c) \/ AnswerComes(c) \/ AnswerFails(c)
  \/ \E c \in Dialer, n \in Name : Resolves(c, n)
  \/ Extends \/ FirstGivenUp \/ AsksAgain \/ SecondPasses

-----------------------------------------------------------------------------
(* connect_smart_filtered: a name's addresses are tried in their order,    *)
(* those of version 4 first, as far as egress_allowed lets them.           *)

VARIABLES
  dial,      \* [name, local: allow_local, untried: places, allowed: one was, result]
  ownAddrs   \* LOCAL_IPS: which classes it holds; refreshed every minute

dialVars == <<dial, ownAddrs>>

\* egress_allowed
Egress(class, local) ==
  /\ class \notin {"multicast", "broadcast"}
  /\ local \/ class \notin {"loopback", "unspecified", "linklocal", "metadata"} \cup ownAddrs

\* Of the places in the list of a name, the one that comes first when the list is sorted
Sooner(a, b, i, j) == a.v < b.v \/ (a.v = b.v /\ i < j)
IsFirst(n, i, places) ==
  \A j \in places \ {i} : Sooner(addrsOf[n][i], addrsOf[n][j], i, j)

\* Mutant of Tried: an address that is not allowed is dialled when none before it was reached
TriedAny(a) == TRUE
Tried(a) == Egress(a.class, dial.local)

TryNext ==
  /\ dial.result = "none"
  /\ \E i \in dial.untried : LET a == addrsOf[dial.name][i] IN
       /\ IsFirst(dial.name, i, dial.untried)
       /\ dial' = [dial EXCEPT !.untried = @ \ {i}, !.allowed = @ \/ Tried(a),
                                !.result = IF Tried(a) /\ a.reachable THEN a.class ELSE @]
  /\ UNCHANGED ownAddrs
Exhausted ==
  /\ dial.result = "none" /\ dial.untried = {}
  /\ dial' = [dial EXCEPT !.result = IF dial.allowed THEN "failed" ELSE "denied"]
  /\ UNCHANGED ownAddrs

\* refresh_local_ips: what the interfaces have now; an error keeps the old set
Refreshes == \E own \in {{}, {"own"}} : ownAddrs' = own /\ UNCHANGED dial

Dials == {[name |-> n, local |-> l, untried |-> DOMAIN addrsOf[n], allowed |-> FALSE,
           result |-> "none"] : n \in Name, l \in BOOLEAN}
DialAgain == dial.result # "none" /\ dial' \in Dials /\ UNCHANGED ownAddrs

DialInit == ownAddrs \in {{}, {"own"}} /\ dial \in Dials
DialNext == TryNext \/ Exhausted \/ DialAgain \/ Refreshes

-----------------------------------------------------------------------------
(* net_monitor: messages of the kernel, and the epoch that pools wait on.  *)

VARIABLES
  inbox,     \* a message is there: a change that counts (should_bump), or another
  listener,  \* where the thread is
  pathsSeen, \* changes so far
  epoch,     \* the epoch
  owed       \* ghost: the path has changed since the epoch last did

monitorVars == <<inbox, listener, pathsSeen, epoch, owed>>

PathChanges ==
  /\ pathsSeen < MaxPathChanges /\ pathsSeen' = pathsSeen + 1
  /\ inbox' = "change" /\ owed' = TRUE /\ UNCHANGED <<listener, epoch>>
RouteNoise ==
  /\ inbox' = (IF inbox = "none" THEN "noise" ELSE inbox)
  /\ UNCHANGED <<listener, pathsSeen, epoch, owed>>

\* recv: noise is dropped, a change begins a burst
Receives ==
  /\ listener = "recv" /\ inbox # "none" /\ inbox' = "none"
  /\ listener' = IF inbox = "change" THEN "drain" ELSE "recv"
  /\ UNCHANGED <<pathsSeen, epoch, owed>>

\* Mutant of After: the epoch goes up when the burst begins to be awaited
AfterEager(l) == CASE l = "drain" -> "bump" [] l = "bump" -> "again" [] OTHER -> "recv"
\* What is there is drained, half a second later again, and then the epoch goes up
After(l) == CASE l = "drain" -> "again" [] l = "again" -> "bump" [] OTHER -> "recv"

Drains ==
  /\ listener \in {"drain", "again"} /\ inbox' = "none"
  /\ listener' = After(listener) /\ UNCHANGED <<pathsSeen, epoch, owed>>
Bumps ==
  /\ listener = "bump" /\ listener' = After(listener)
  /\ epoch' = epoch + 1 /\ owed' = FALSE /\ UNCHANGED <<inbox, pathsSeen>>

\* The socket fails: the thread ends and pools go by their own probes
ListenerDies ==
  /\ listener = "recv" /\ listener' = "dead" /\ UNCHANGED <<inbox, pathsSeen, epoch, owed>>

MonitorInit == inbox = "none" /\ listener = "recv" /\ pathsSeen = 0 /\ epoch = 0 /\ owed = FALSE
MonitorNext == PathChanges \/ RouteNoise \/ Receives \/ Drains \/ Bumps \/ ListenerDies

networkVars == <<resolverVars, dialVars, monitorVars>>

\* The three know nothing of each other.
NetworkSpec ==
  /\ ResolverInit /\ [][ResolverNext]_resolverVars
  /\ DialInit /\ [][DialNext]_dialVars
  /\ MonitorInit /\ [][MonitorNext]_monitorVars

-----------------------------------------------------------------------------
(* Properties.                                                             *)

\* Nobody is given an address that was looked up longer ago than an entry lives, or, for the
\* name that is kept, than failures may be bridged; and while failures are bridged no connection
\* to the site waits for a resolution, unless a full cache was cleared: the entry outlasts the
\* keeper's sleep.
NamesRecent ==
  /\ served.age < IF served.name = KeptName THEN StaleCap + Ttl ELSE Ttl
  /\ held /\ asker[Keeper] = "sleep" => FreshIn(KeptName)

\* What is dialled is an address that may be: none that is left out however few there are, and
\* a refusal is told apart from a failure.
DialsAllowed ==
  /\ dial.result \notin {"multicast", "broadcast"}
  /\ ~dial.local => dial.result \notin {"loopback", "unspecified", "linklocal", "metadata"}
  /\ dial.result = "denied" =>
       \A i \in DOMAIN addrsOf[dial.name] :
         addrsOf[dial.name][i].class \notin IF dial.local THEN {"public", "own"} ELSE {"public"}

\* No change of the path is swallowed: until the epoch has gone up after it, it is in the inbox
\* or the thread is on its way.
ChangeSeen == owed => inbox = "change" \/ listener \in {"drain", "again", "bump", "dead"}

NetworkKnown == NamesRecent /\ DialsAllowed /\ ChangeSeen

=============================================================================
