--------------------------- MODULE CamouflageSite ---------------------------
(***************************************************************************)
(* What a server keeps of the site it looks like: the templates of its     *)
(* first flight (src/src/crypto/handshake_cache.rs), shared by every       *)
(* inbound of the process, and the estimates of how far away it is         *)
(* (src/src/proxy/mirage_server/camouflage_rtt.rs).                        *)
(*                                                                         *)
(* A template is the set of the kinds of its records, whether its last     *)
(* record was cut short, and its key share.                                *)
(***************************************************************************)
EXTENDS Integers, Sequences, FiniteSets

CONSTANTS
  Hello,         \* handshakes that need a flight
  Starter,       \* inbounds that start: each fills the cache before it accepts
  Stream,        \* what the site may send: [records, ends, next, share]
  Batch,         \* BATCH
  MaxTemplates,  \* MAX_TEMPLATES
  MaxRecords,    \* records a fetch reads at most (9)
  Waits,         \* how often a handshake looks whether the cache is filled (50)
  MaxCancels,    \* bounds: handshakes given up, and rounds of the refresh task
  MaxRefreshes,
  Observer,      \* connections to the site, and the task that seeds the estimate
  Seeder,
  Took           \* what a connect may take

ASSUME CamouflageAssumption ==
  /\ {Batch, MaxTemplates, MaxRecords, Waits} \subseteq Nat \ {0} /\ Batch <= MaxTemplates
  /\ {MaxCancels, MaxRefreshes} \subseteq Nat /\ Took \subseteq Nat

VARIABLES
  cache,       \* HANDSHAKE_CACHE
  warming,     \* WARMING_UP
  refresher,   \* the refresh task: not there, asleep or fetching (REFRESH_SPAWNED)
  warmer,      \* where each handshake and each starting inbound is
  tries,       \* how often a handshake has looked
  answer,      \* the flight a handshake was given
  cancels, refreshes

templateVars == <<cache, warming, refresher, warmer, tries, answer, cancels, refreshes>>

-----------------------------------------------------------------------------
(* fetch_real_server_hello.                                                *)

Kinds == {"hello", "ccs", "data"}
NoTemplate == [kinds |-> {}, cut |-> FALSE, share |-> "none"]

\* template_is_complete, of the first n records of what the site sends
CompleteAt(s, n) == Kinds \subseteq {s.records[i] : i \in 1..n}
Readable(s) == 1..IF Len(s.records) < MaxRecords THEN Len(s.records) ELSE MaxRecords
Renewable(share) == share \in {"x25519", "p256"}

\* Mutant of Gate: what was read so far is a template when time is up
GateOpen(kinds) == TRUE
Gate(kinds) == Kinds \subseteq kinds

\* The records that are there until all kinds are.  A read that ends in time counts as read even
\* when the site has closed: the rest of a record that was begun is taken for zeros.
Fetched(s) ==
  LET done == {n \in Readable(s) : CompleteAt(s, n)}
      whole == {s.records[i] : i \in Readable(s)}
      more == s.ends = "closed" /\ s.next # "none" /\ Len(s.records) < MaxRecords
      kinds == IF done # {} THEN Kinds ELSE whole \cup (IF more THEN {s.next} ELSE {})
  IN  IF /\ s.records # <<>> /\ s.records[1] = "hello"
         /\ Gate(kinds) /\ Renewable(s.share)
      THEN [kinds |-> kinds, cut |-> done = {}, share |-> s.share]
      ELSE NoTemplate

\* fetch_batch: those of Batch fetches that came back with one, in any order
Batches == LET good == {Fetched(s) : s \in Stream} \ {NoTemplate}
           IN  UNION {[1..n -> good] : n \in 0..Batch}

\* fallback_server_hello
Fallback == [kinds |-> Kinds, cut |-> FALSE, share |-> "x25519"]

\* patch_server_hello and apply_server_random: the session id, the random and a share that can be
\* made again are the connection's own
Patched(h, t) == [kinds |-> t.kinds, share |-> IF Renewable(t.share) THEN h ELSE "copied"]
NoAnswer == [kinds |-> {}, share |-> "none"]

-----------------------------------------------------------------------------
(* The cache and who fills it.                                             *)

\* Mutant of Merged: what comes replaces what is there
MergedReplaced(old, new) == new
\* merge_templates
Merged(old, new) ==
  IF Len(new) >= Batch THEN new
  ELSE LET all == new \o old
       IN  SubSeq(all, 1, IF Len(all) < MaxTemplates THEN Len(all) ELSE MaxTemplates)

SpawnRefresh == refresher' = IF refresher = "none" THEN "asleep" ELSE refresher

\* get_server_hello_pfs and prewarm begin alike: is anything there?
Looks(w) ==
  /\ warmer[w] = "new"
  /\ warmer' = [warmer EXCEPT ![w] = IF cache = <<>> THEN "empty"
                                      ELSE IF w \in Hello THEN "picks" ELSE "done"]
  /\ UNCHANGED <<cache, warming, refresher, tries, answer, cancels, refreshes>>

\* Whoever sets WARMING_UP fetches; a handshake that finds it set waits, an inbound goes on
Claims(w) ==
  /\ warmer[w] = "empty" /\ warming' = TRUE
  /\ warmer' = [warmer EXCEPT ![w] = IF ~warming THEN "fetching"
                                      ELSE IF w \in Hello THEN "waits" ELSE "done"]
  /\ UNCHANGED <<cache, refresher, tries, answer, cancels, refreshes>>

\* What the warmer puts into the cache: a handshake that got nothing adds a synthetic template
Fills(w) ==
  /\ warmer[w] = "fetching"
  /\ \E b \in Batches :
       cache' = cache \o (IF b = <<>> /\ w \in Hello THEN <<Fallback>> ELSE b)
  /\ SpawnRefresh
  /\ warmer' = [warmer EXCEPT ![w] = "filled"]
  /\ UNCHANGED <<warming, tries, answer, cancels, refreshes>>

\* Mutant of Released: the flag is cleared by who got to the end, and not by a guard
ReleasedAtEnd(w) == warming /\ warmer[w] # "filled"
\* WarmGuard
Released(w) == FALSE

Releases(w) ==
  /\ warmer[w] = "filled" /\ warming' = Released(w)
  /\ warmer' = [warmer EXCEPT ![w] = IF w \in Hello THEN "picks" ELSE "done"]
  /\ UNCHANGED <<cache, refresher, tries, answer, cancels, refreshes>>

\* The connection of a handshake goes away in the middle of a fetch
Cancel(w) ==
  /\ cancels < MaxCancels /\ cancels' = cancels + 1
  /\ w \in Hello /\ warmer[w] \in {"fetching", "waits"}
  /\ warming' = IF warmer[w] = "fetching" THEN Released(w) ELSE warming
  /\ warmer' = [warmer EXCEPT ![w] = "done"] /\ tries' = [tries EXCEPT ![w] = 0]
  /\ UNCHANGED <<cache, refresher, answer, refreshes>>

Waited(h) ==
  /\ warmer[h] = "waits" /\ warming /\ tries[h] < Waits
  /\ tries' = [tries EXCEPT ![h] = @ + 1]
  /\ UNCHANGED <<cache, warming, refresher, warmer, answer, cancels, refreshes>>

Answers(h, t) ==
  /\ answer' = [answer EXCEPT ![h] = Patched(h, t)]
  /\ warmer' = [warmer EXCEPT ![h] = "done"] /\ tries' = [tries EXCEPT ![h] = 0]

\* It has waited for the warmer, or long enough: with nothing there it makes its own
StopsWaiting(h) ==
  /\ warmer[h] = "waits" /\ (~warming \/ tries[h] = Waits)
  /\ IF cache = <<>> THEN Answers(h, Fallback)
     ELSE /\ warmer' = [warmer EXCEPT ![h] = "picks"]
          /\ UNCHANGED <<answer, tries>>
  /\ UNCHANGED <<cache, warming, refresher, cancels, refreshes>>

Picks(h) ==
  /\ warmer[h] = "picks"
  /\ \E i \in DOMAIN cache : Answers(h, cache[i])
  /\ UNCHANGED <<cache, warming, refresher, cancels, refreshes>>

\* spawn_refresh_task: half an hour later
Wakes ==
  /\ refresher = "asleep" /\ refresher' = "fetching"
  /\ refreshes < MaxRefreshes /\ refreshes' = refreshes + 1
  /\ UNCHANGED <<cache, warming, warmer, tries, answer, cancels>>

\* install_templates: a round without any leaves the cache alone
Installs ==
  /\ refresher = "fetching" /\ refresher' = "asleep"
  /\ \E b \in Batches : cache' = IF b = <<>> THEN cache ELSE Merged(cache, b)
  /\ UNCHANGED <<warming, warmer, tries, answer, cancels, refreshes>>

\* Another connection comes in the place of one that has been answered.
Arrives(h) ==
  /\ warmer[h] = "done" /\ warmer' = [warmer EXCEPT ![h] = "new"]
  /\ answer' = [answer EXCEPT ![h] = NoAnswer]
  /\ UNCHANGED <<cache, warming, refresher, tries, cancels, refreshes>>

TemplatesInit ==
  /\ cache = <<>> /\ warming = FALSE /\ refresher = "none"
  /\ warmer = [w \in Hello \cup Starter |-> IF w \in Starter THEN "new" ELSE "done"]
  /\ tries = [h \in Hello |-> 0] /\ answer = [h \in Hello |-> NoAnswer]
  /\ cancels = 0 /\ refreshes = 0

\* Fetches, waits and locks end, and the runtime lets each task go on
Serves(w) == \/ Looks(w) \/ Claims(w) \/ Fills(w) \/ Releases(w)
             \/ w \in Hello /\ (Waited(w) \/ StopsWaiting(w) \/ Picks(w))
TemplatesNext ==
  \/ \E w \in Hello \cup Starter : Serves(w)
  \/ Wakes \/ Installs
  \/ \E h \in Hello : Arrives(h) \/ Cancel(h)

-----------------------------------------------------------------------------
(* CamouflageRtt: the estimate of the way to the site, from connections    *)
(* that probes make necessary, and from those of the templates' fetches.   *)

VARIABLES
  siteUp,      \* the site can be reached
  rtt,         \* rtt_us, 0: unknown
  lastConnect, \* LAST_CONNECT_US
  observer,    \* where each of them is
  prev,        \* what it read of the estimate
  sample,      \* and what it measured
  since        \* ghost: the samples taken in, whenever measured, since the last reset

timingVars == <<siteUp, rtt, lastConnect, observer, prev, sample, since>>

SiteChanges == siteUp' = ~siteUp /\ UNCHANGED <<rtt, lastConnect, observer, prev, sample, since>>

\* observe_connect begins: what is the estimate now?
Measures(o, t) ==
  /\ sample' = [sample EXCEPT ![o] = t] /\ prev' = [prev EXCEPT ![o] = rtt]
  /\ observer' = [observer EXCEPT ![o] = "exchange"]

\* connect_camouflage
Connects(o) ==
  /\ observer[o] = "idle" /\ siteUp
  /\ \E t \in Took : Measures(o, t)
  /\ UNCHANGED <<siteUp, rtt, lastConnect, since>>

Ewma(p, t) == IF p = 0 THEN t ELSE (p * 7 + t) \div 8

\* Mutant of Exchanged: the new estimate is stored over whatever is there
ExchangedBlindly(o) == TRUE
Exchanged(o) == rtt = prev[o]

\* compare_exchange: the estimate that was read is still there, or it is read again
Exchanges(o) ==
  /\ observer[o] = "exchange"
  /\ IF Exchanged(o)
     THEN /\ rtt' = Ewma(prev[o], sample[o]) /\ since' = since \cup {sample[o]}
          /\ observer' = [observer EXCEPT ![o] = "idle"] /\ prev' = [prev EXCEPT ![o] = 0]
          /\ sample' = [sample EXCEPT ![o] = 0]
     ELSE /\ prev' = [prev EXCEPT ![o] = rtt]
          /\ UNCHANGED <<rtt, since, observer, sample>>
  /\ UNCHANGED <<siteUp, lastConnect>>

\* observe_connect_failure
Fails(o) ==
  /\ observer[o] = "idle" /\ o # Seeder /\ ~siteUp
  /\ rtt' = 0 /\ since' = {}
  /\ UNCHANGED <<siteUp, lastConnect, observer, prev, sample>>

\* A template is fetched
Fetches == \E t \in Took : /\ siteUp /\ lastConnect' = t
                           /\ UNCHANGED <<siteUp, rtt, observer, prev, sample, since>>

\* seed_rtt_from_cache, at the start and every half hour
Seeds ==
  /\ observer[Seeder] = "idle" /\ lastConnect > 0
  /\ Measures(Seeder, lastConnect)
  /\ UNCHANGED <<siteUp, rtt, lastConnect, since>>

TimingInit ==
  /\ siteUp \in BOOLEAN /\ rtt = 0 /\ lastConnect = 0 /\ since = {}
  /\ observer = [o \in Observer \cup {Seeder} |-> "idle"]
  /\ prev = [o \in Observer \cup {Seeder} |-> 0] /\ sample = [o \in Observer \cup {Seeder} |-> 0]
TimingNext ==
  \/ SiteChanges \/ Fetches \/ Seeds
  \/ \E o \in Observer : Connects(o) \/ Fails(o)
  \/ \E o \in Observer \cup {Seeder} : Exchanges(o)

\* injection_base_us: what an accepted handshake waits, from the estimate and from what a
\* forwarded one took; the product and the offset are auth_succ_delay_us
Delay(calibrated, forwarded, factor, offset, estimate, cap) ==
  LET formula(o) == factor * estimate + o
      base == IF ~calibrated \/ forwarded > cap THEN formula(offset)
              ELSE IF forwarded > 0 THEN forwarded ELSE formula(0)
  IN  IF estimate = 0 THEN 0 ELSE IF base < cap THEN base ELSE cap

siteVars == <<templateVars, timingVars>>

\* The templates and the estimates go their own ways.
SiteSpec == /\ TemplatesInit /\ [][TemplatesNext]_templateVars
            /\ TimingInit /\ [][TimingNext]_timingVars

-----------------------------------------------------------------------------
(* Properties.                                                             *)

\* A flight that a handshake is given has all the records its client waits for, and nothing in
\* it that another connection has been given; a template that could not do that is not cached.
HellosSound ==
  /\ \A i \in DOMAIN cache : Kinds \subseteq cache[i].kinds /\ Renewable(cache[i].share)
  /\ \A h \in Hello : answer[h] # NoAnswer => Kinds \subseteq answer[h].kinds /\ answer[h].share = h

\* Refreshes do not narrow the choice: a filled cache is never empty again (a handshake that has
\* seen it filled picks without a second look) and has a batch of templates once it had one.
ChoiceKept ==
  [][cache # <<>> => /\ cache' # <<>>
                     /\ Len(cache) >= Batch => Len(cache') >= Batch]_cache

\* As long as handshakes come the cache is filled at last, although those that would fill it are
\* given up in the middle: then another one does.
CacheFills == []<>(\E h \in Hello : warmer[h] = "new") => <>(cache # <<>>)

\* The loss of the site discards the average: an estimate that is there again lies among the
\* samples taken in since, and no update that was under way brings the old average back.  A
\* sample taken in since may have been measured before: an observer that was under way stores
\* what it had measured, and the seeder (mod.rs:697) what the last fetch took, whenever that was.
OldAverageGone ==
  rtt # 0 => (\E t \in since : t <= rtt) /\ (\E t \in since : rtt <= t)

\* What the cache and the estimate promise.
SiteSound == HellosSound /\ OldAverageGone
SiteKept == ChoiceKept /\ CacheFills
=============================================================================
