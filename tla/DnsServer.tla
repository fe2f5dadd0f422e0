------------------------------ MODULE DnsServer ------------------------------
(***************************************************************************)
(* The DNS forwarder of the client (dns/server.rs): what it decides for a  *)
(* question, its cache with prefetching and stale answers, the flights     *)
(* that merge equal upstream queries, and the learned classification.      *)
(*                                                                         *)
(* A question is a record [name, qtype, size, options]: size is the UDP    *)
(* payload its client accepts, options says that its OPT record carries    *)
(* options (such a question uses neither cache nor flights).  An answer is *)
(* a record [kind, path, len] where path is how it was resolved.           *)
(*                                                                         *)
(* Every query owns one slot for the query itself and one for the          *)
(* background task it may spawn (prefetch, refresh, verification).         *)
(***************************************************************************)
EXTENDS Naturals, Sequences, FiniteSets

CONSTANTS
    Query,          \* slots for queries served at the same time (DNS_MAX_CONCURRENT)
    Scenarios,      \* what is asked in one behaviour: records [asks, most], asks a set
                    \* of <<question, class>> and most the bound on their number
    RemoteServers,  \* the remote servers in failover order (never empty: the fallback host)
    CnOverTcp,      \* TRUE: some domestic upstream speaks TCP
    MaxEntries,     \* entries of the cache
    MaxLearned      \* entries of the learned tables

None == [kind |-> "none", path |-> "none", len |-> 0]

VARIABLES
    foreign,    \* names learned as foreign
    learned,    \* names whose remote answer was domestic
    cache,      \* set of entries, at most one per key
    table,      \* [flight key -> cell or 0]
    cell,       \* [cell -> [key, runner, done, resp]]
    job,        \* [Slot -> its state]
    asked,      \* number of queries so far
    scenario    \* the questions of this behaviour, and the classes they may meet

vars == <<scenario, foreign, learned, cache, table, cell, job, asked>>

Question == {a[1] : a \in UNION {c.asks : c \in Scenarios}}
Name == {q.name : q \in Question}
Slot == Query \X {"query", "task"}
Cell == 1..(2 * Cardinality(Query))
Path == {"cn", "remote"}
Upstream == {"cn"} \cup {RemoteServers[i] : i \in 1..Len(RemoteServers)}

ASSUME DnsAssumption ==
    /\ Query \subseteq Nat /\ IsFiniteSet(Query)
    /\ Question # {}
    /\ \A q \in Question : q.size \in Nat \ {0} /\ q.options \in BOOLEAN
    /\ CnOverTcp \in BOOLEAN
    /\ Len(RemoteServers) \in Nat \ {0}
    /\ \A i \in 1..Len(RemoteServers) : RemoteServers[i] # "cn"

-----------------------------------------------------------------------------
(* The decision of process_query.  A class stands for the static host, the *)
(* rule, the exclusion or the outbound that the name meets first under the *)
(* configuration in force and the inbound the query came by.               *)

\* ip_strategy_suppresses: the strategy of the configuration is part of the class
Suppressed(class, q) ==
    \/ class = "directV6" /\ q.qtype = "A"
    \/ class = "directV4" /\ q.qtype = "AAAA"

StaticKind(class, q) ==
    IF q.qtype = "A" /\ class \in {"static", "host"} THEN "host" ELSE "empty"

Local(kind) == [kind |-> kind, path |-> "local", len |-> 1]

\* answer_fakeip: A -> a fake address, anything else an empty answer
FakeAnswer(q) == Local(IF q.qtype = "A" THEN "fake" ELSE "empty")

PlanFor(how, path, learns) == [how |-> how, path |-> path, learns |-> learns, ans |-> None]
Now(a) == [PlanFor("now", "none", FALSE) EXCEPT !.ans = a]

\* No rule took the question: auto_classify when routing has no match either, else
\* the active leaf of the outbound that routing names
Routed(class, q) ==
    IF class \in {"block", "dead"} THEN Now(Local("nxdomain"))
    ELSE IF Suppressed(class, q) THEN Now(Local("empty"))
    ELSE IF class \in {"direct", "directV4", "directV6"} THEN PlanFor("direct", "cn", FALSE)
    ELSE IF class = "proxyFake" /\ q.qtype \in {"A", "AAAA"} THEN Now(FakeAnswer(q))
    ELSE IF class \in {"proxyFake", "proxy"} THEN PlanFor("cached", "remote", FALSE)
    ELSE IF q.name \in foreign THEN Now(FakeAnswer(q))
    ELSE IF q.qtype = "AAAA" THEN Now(Local("empty"))
    ELSE IF q.qtype = "A" THEN PlanFor("auto", "cn", class = "autoVerify")
    ELSE PlanFor("plain", "cn", FALSE)

\* What process_query does before its first await: answer at once, resolve along
\* a path through the cache, or probe.  Static hosts come first, then the rules
\* and the exclusions of fake addresses (ruleCn), then routing.
Plan(class, q) ==
    IF class \in {"static", "host"} THEN Now(Local(StaticKind(class, q)))
    ELSE IF class = "reject" THEN Now(Local("empty"))
    ELSE IF class = "ruleCn" THEN PlanFor("cached", "cn", FALSE)
    ELSE IF class = "ruleRemote"
         THEN IF q.name \in learned THEN PlanFor("cached", "cn", FALSE)
                                     ELSE PlanFor("cached", "remote", TRUE)
    ELSE Routed(class, q)

-----------------------------------------------------------------------------
(* The cache.  The key is (path, name, qtype, bucket); the sizes of a model *)
(* are in one bucket, so that the length check of a hit matters.           *)

\* Mutant of Key: one entry for both paths
KeyWithoutPath(path, q) == <<"any", q.name, q.qtype>>

Key(path, q) == <<path, q.name, q.qtype>>

Entries(path, q) == {e \in cache : e.key = Key(path, q) /\ ~q.options}

Live(e) == e.age \in {"fresh", "due"}
Negative(e) == e.resp.kind = "neg"
Fits(e, q) == e.resp.len <= q.size

\* get: a live entry that fits the client
Hits(path, q) == {e \in Entries(path, q) : Live(e) /\ Fits(e, q)}

\* get_with_prefetch: the hit also claims the prefetch
ClaimsPrefetch(e) == e.age = "due" /\ ~Negative(e) /\ ~e.prefetching

\* get_stale_with_recheck: an expired positive entry inside the window
Stale(path, q) == {e \in Entries(path, q) : e.age = "stale" /\ ~Negative(e) /\ Fits(e, q)}
\* ... which removes a positive entry past the window
Purge(path, q) == {e \in Entries(path, q) : e.age = "gone" /\ ~Negative(e)}

Update(es, f(_)) == (cache \ es) \cup {f(e) : e \in es}

\* Mutant of MarkFailed: the flag is left up
MarkFailedKeepsFlag(path, q) ==
    cache' = Update(Entries(path, q), LAMBDA e : [e EXCEPT !.failed = TRUE])

MarkFailed(path, q) ==
    cache' = Update(Entries(path, q),
                    LAMBDA e : [e EXCEPT !.failed = TRUE, !.prefetching = FALSE])

ClearPrefetching(path, q) ==
    cache' = Update(Entries(path, q), LAMBDA e : [e EXCEPT !.prefetching = FALSE])

Cacheable(resp) == resp.kind \in {"cn", "foreign", "neg"}
Failure(resp) == resp.kind \in {"none", "servfail"}

\* put: nothing for a truncated or failed response; a full cache first drops
\* what is past the window, then one victim, an expired one if there is one.
Put(path, q, resp) ==
    IF ~Cacheable(resp) \/ q.options THEN cache' = cache
    ELSE LET new == [key |-> Key(path, q), resp |-> resp, age |-> "fresh",
                     failed |-> FALSE, prefetching |-> FALSE]
             others == {e \in cache : e.key # new.key}
             kept == IF Cardinality(cache) >= MaxEntries /\ others = cache
                     THEN {e \in cache : e.age # "gone"} ELSE others
             expired == {e \in kept : ~Live(e)}
         IN  IF Cardinality(kept) >= MaxEntries
             THEN \E victim \in IF expired # {} THEN expired ELSE kept :
                     cache' = (kept \ {victim}) \cup {new}
             ELSE cache' = kept \cup {new}

-----------------------------------------------------------------------------
(* Slots.                                                                   *)

Idle == [pc |-> "idle", q |-> CHOOSE q \in Question : TRUE, how |-> "none", path |-> "none",
         learns |-> FALSE, old |-> FALSE, next |-> 0, cell |-> 0, resp |-> None]

Task(s) == <<s[1], "task">>
Set(s, r) == job' = [job EXCEPT ![s] = r]
Sends(j, a) == [Idle EXCEPT !.pc = "send", !.q = j.q, !.path = j.path, !.resp = a]
Done(s, a) == Set(s, Sends(job[s], a))

\* or_else(make_nxdomain): the paths that never leave their client without an answer
OrNx(a) == IF a = None THEN Local("nxdomain") ELSE a

\* resolve_cn and the remote paths end in or_else(make_nxdomain); the direct
\* outbound passes None on (the client gets no answer).
Final(s, a) == IF job[s].how = "direct" THEN a ELSE OrNx(a)

Spawned(s, how, path, next) ==
    [job[s] EXCEPT !.pc = "fetch", !.how = how, !.path = path, !.next = next,
                   !.cell = 0, !.resp = None]

\* run_loop: a datagram takes a permit (the first free slot: permits have no names)
\* and process_query decides; with no permit left the query is dropped
Vacant == {s \in Query \X {"query"} : job[s].pc = "idle" /\ job[Task(s)].pc = "idle"}

Receive(s, q, class) ==
    /\ asked < scenario.most
    /\ s \in Vacant /\ \A t \in Vacant : s[1] <= t[1]
    /\ asked' = asked + 1
    /\ LET p == Plan(class, q)
           start == IF p.how = "now" THEN "send"
                    ELSE IF p.how = "plain" THEN "fetch" ELSE "lookup"
       IN  Set(s, [Idle EXCEPT !.pc = start, !.q = q, !.how = p.how, !.path = p.path,
                               !.learns = p.learns, !.next = 1, !.resp = p.ans])
    /\ UNCHANGED <<foreign, learned, cache, table, cell>>

\* The first look at the cache, with the prefetch it may start
Lookup(s) ==
    LET j == job[s]  hits == Hits(j.path, j.q) IN
    /\ j.pc = "lookup"
    /\ IF hits = {}
       THEN /\ Set(s, [j EXCEPT !.pc = IF j.how = "auto" THEN "fetch" ELSE "stale"])
            /\ UNCHANGED cache
       ELSE \E e \in hits :
              LET due == j.how # "auto" /\ ClaimsPrefetch(e)
              IN  /\ cache' = Update({e}, LAMBDA x : [x EXCEPT !.prefetching = due \/ @])
                  /\ job' = [job EXCEPT ![s] = Sends(j, e.resp),
                                        ![Task(s)] = IF due
                                                     THEN Spawned(s, "prefetch", j.path, 1)
                                                     ELSE @]
    /\ UNCHANGED <<foreign, learned, table, cell, asked>>

\* The second look: no usable stale answer -> fetch; failed lately -> answer
\* with it; else a background refresh that is awaited for STALE_ANSWER_DELAY.
LookupStale(s) ==
    LET j == job[s]  stale == Stale(j.path, j.q) IN
    /\ j.pc = "stale"
    /\ cache' = cache \ Purge(j.path, j.q)
    /\ IF stale = {} THEN Set(s, [j EXCEPT !.pc = "fetch"])
       ELSE \E e \in stale :
              IF e.failed THEN Done(s, e.resp)
              ELSE job' = [job EXCEPT ![s] = [j EXCEPT !.pc = "wait", !.resp = e.resp],
                                      ![Task(s)] = Spawned(s, "refresh", j.path, 1)]
    /\ UNCHANGED <<foreign, learned, table, cell, asked>>

\* The delay passes before the refresh is there
AnswerEarly(s) ==
    /\ job[s].pc = "wait"
    /\ Done(s, job[s].resp)
    /\ UNCHANGED <<foreign, learned, cache, table, cell, asked>>

\* The answer (or nothing, for None) goes out and the permit is given back
Send(s) ==
    /\ job[s].pc = "send"
    /\ Set(s, Idle)
    /\ UNCHANGED <<foreign, learned, cache, table, cell, asked>>

-----------------------------------------------------------------------------
(* singleflight.                                                           *)

Holders(c) == {s \in Slot : job[s].cell = c}
Free == {c \in Cell : Holders(c) = {} /\ \A k \in DOMAIN table : table[k] # c}

Server(j) == IF j.path = "cn" THEN "cn" ELSE RemoteServers[j.next]
FlightKey(j) == <<j.q.name, j.q.qtype, j.q.size, Server(j)>>
NoCell == [key |-> <<>>, runner |-> <<>>, done |-> FALSE, resp |-> None]

\* The entry is taken, or made and run, under the lock; a question with options
\* flies alone
Join(s) ==
    LET j == job[s]  k == FlightKey(j)  c == CHOOSE c \in Free : TRUE IN
    /\ j.pc = "fetch" /\ j.cell = 0
    /\ IF ~j.q.options /\ table[k] # 0
       THEN /\ Set(s, [j EXCEPT !.cell = table[k]])
            /\ UNCHANGED <<table, cell>>
       ELSE /\ Set(s, [j EXCEPT !.cell = c])
            /\ table' = IF j.q.options THEN table ELSE [table EXCEPT ![k] = c]
            /\ cell' = [cell EXCEPT ![c] = [NoCell EXCEPT !.key = k, !.runner = s]]
    /\ UNCHANGED <<foreign, learned, cache, asked>>

\* Mutant of TakeOver: only the caller that made the flight ever runs it
NeverTakeOver(s) == job[s].cell # 0 /\ cell[job[s].cell].runner = s /\ UNCHANGED vars

\* get_or_init: another holder takes over when the one that runs is cancelled
TakeOver(s) ==
    LET c == job[s].cell IN
    /\ c # 0 /\ ~cell[c].done /\ cell[c].runner = <<>>
    /\ cell' = [cell EXCEPT ![c].runner = s]
    /\ UNCHANGED <<foreign, learned, cache, table, job, asked>>

\* What a query can end with: a response that answers this question (id, flag and
\* question are compared), or none when every round or attempt has timed out.  Over
\* UDP a server keeps to the size the question states; over the tunnel's TCP it does not.
Responses(path, lens) ==
    {None} \cup [kind : {"cn", "foreign"}, path : {path}, len : lens]
           \cup [kind : {"neg", "trunc", "servfail"}, path : {path}, len : {1}]

UdpQuery(q) == Responses("cn", 1..q.size)
TcpQuery(q) == Responses("cn", {p.size : p \in Question})
DnsOverTunnelOnce(q) == Responses("remote", {p.size : p \in Question})

\* direct_query_once: UDP and TCP upstreams race when both are configured
DirectQueryOnce(q) == IF CnOverTcp THEN UdpQuery(q) \cup TcpQuery(q) ELSE UdpQuery(q)

Reply(s) ==
    LET c == job[s].cell  q == job[s].q IN
    /\ c # 0 /\ cell[c].runner = s
    /\ \E r \in IF cell[c].key[4] = "cn" THEN DirectQueryOnce(q) ELSE DnsOverTunnelOnce(q) :
          cell' = [cell EXCEPT ![c] = [@ EXCEPT !.runner = <<>>, !.done = TRUE, !.resp = r]]
    /\ UNCHANGED <<foreign, learned, cache, table, job, asked>>

\* Remove::drop: the entry goes when it has a result or nobody else holds it
Removed(s) ==
    LET c == job[s].cell IN
    [k \in DOMAIN table |->
        IF table[k] = c /\ (cell[c].done \/ Holders(c) = {s}) THEN 0 ELSE table[k]]

\* A cell is freed with its last holder
Freed(s) == IF Holders(job[s].cell) = {s} THEN [cell EXCEPT ![job[s].cell] = NoCell] ELSE cell

Learn(tbl, name) ==
    IF Cardinality(tbl) >= MaxLearned THEN {(tbl \ {n}) \cup {name} : n \in tbl}
    ELSE {tbl \cup {name}}

\* A holder takes the result with it: the next remote server after none, else
\* the end of the fetch (where the remote rule learns)
Leave(s) ==
    LET j == job[s]  r == cell[j.cell].resp
        again == /\ r = None /\ j.path = "remote" /\ j.how # "verify"
                 /\ j.next < Len(RemoteServers)
    IN
    /\ j.cell # 0 /\ cell[j.cell].done
    /\ table' = Removed(s)
    /\ cell' = Freed(s)
    /\ Set(s, IF again THEN [j EXCEPT !.cell = 0, !.next = @ + 1]
              ELSE [j EXCEPT !.cell = 0, !.pc = "store", !.resp = r])
    /\ IF j.learns /\ j.path = "remote" /\ ~j.old /\ r.kind = "cn"
       THEN learned' \in Learn(learned, j.q.name)
       ELSE UNCHANGED learned
    /\ UNCHANGED <<foreign, cache, asked>>

-----------------------------------------------------------------------------
(* After the fetch.                                                        *)

\* resolve_cached, query or task: record the failure or store the response.  A
\* refresh hands its result to the query that still waits for it.
Store(s) ==
    LET j == job[s] IN
    /\ j.pc = "store" /\ j.how \in {"cached", "direct", "prefetch", "refresh"}
    /\ IF Failure(j.resp) THEN MarkFailed(j.path, j.q) ELSE Put(j.path, j.q, j.resp)
    /\ \/ j.how \in {"cached", "direct"} /\ Set(s, [j EXCEPT !.pc = "fallback"])
       \/ /\ j.how = "prefetch"
          /\ Set(s, IF Failure(j.resp) THEN Idle ELSE [j EXCEPT !.pc = "clear"])
       \/ /\ j.how = "refresh"
          /\ LET o == <<s[1], "query">> IN
             job' = [job EXCEPT ![s] = Idle,
                                ![o] = IF @.pc = "wait"
                                       THEN [@ EXCEPT !.pc = "fallback", !.resp = j.resp]
                                       ELSE @]
    /\ UNCHANGED <<foreign, learned, table, cell, asked>>

\* The prefetch resets its flag, whatever put did with the response
Clear(s) ==
    /\ job[s].pc = "clear"
    /\ ClearPrefetching(job[s].path, job[s].q)
    /\ Set(s, Idle)
    /\ UNCHANGED <<foreign, learned, table, cell, asked>>

\* stale_fallback: the third look at the cache, only after a failure
Fallback(s) ==
    LET j == job[s]  stale == Stale(j.path, j.q) IN
    /\ j.pc = "fallback"
    /\ IF ~Failure(j.resp) THEN Done(s, j.resp) /\ UNCHANGED cache
       ELSE /\ cache' = cache \ Purge(j.path, j.q)
            /\ IF stale = {} THEN Done(s, Final(s, j.resp))
               ELSE \E e \in stale : Done(s, e.resp)
    /\ UNCHANGED <<foreign, learned, table, cell, asked>>

\* auto_classify after its probe: domestic -> answer, store and verify in the
\* background; foreign -> learn and answer with a fake address; neither -> fallback
Classify(s) ==
    LET j == job[s] IN
    /\ j.pc = "store" /\ j.how = "auto"
    /\ \/ /\ j.resp.kind = "cn"
          /\ Put("cn", j.q, j.resp)
          /\ job' = [job EXCEPT ![s] = Sends(j, j.resp),
                                ![Task(s)] = IF j.learns
                                             THEN Spawned(s, "verify", "remote", 1)
                                             ELSE @]
          /\ UNCHANGED foreign
       \/ /\ j.resp.kind = "foreign"
          /\ IF j.old THEN UNCHANGED foreign ELSE foreign' \in Learn(foreign, j.q.name)
          /\ Done(s, FakeAnswer(j.q))
          /\ UNCHANGED cache
       \/ /\ j.resp.kind \notin {"cn", "foreign"}
          /\ Put("cn", j.q, j.resp)
          /\ Set(s, [j EXCEPT !.pc = "fallback"])
          /\ UNCHANGED foreign
    /\ UNCHANGED <<learned, table, cell, asked>>

\* auto_classify for other types: the probe is the answer, nothing is cached
Plain(s) ==
    /\ job[s].pc = "store" /\ job[s].how = "plain"
    /\ Done(s, OrNx(job[s].resp))
    /\ UNCHANGED <<foreign, learned, cache, table, cell, asked>>

\* spawn_cn_verify: the tunnel's answer is foreign -> the domestic one was forged
Verify(s) ==
    LET j == job[s] IN
    /\ j.pc = "store" /\ j.how = "verify"
    /\ IF j.resp.kind = "foreign" /\ ~j.old THEN foreign' \in Learn(foreign, j.q.name)
                                             ELSE UNCHANGED foreign
    /\ Set(s, Idle)
    /\ UNCHANGED <<learned, cache, table, cell, asked>>

-----------------------------------------------------------------------------
(* The environment.                                                        *)

\* The future of a hijacked query is dropped; a background task lives on
Cancel(s) ==
    LET j == job[s] IN
    /\ s[2] = "query" /\ j.pc # "idle"
    /\ Set(s, Idle)
    /\ IF j.cell = 0 THEN UNCHANGED <<table, cell>>
       ELSE /\ table' = Removed(s)
            /\ cell' = IF cell[j.cell].runner = s /\ Holders(j.cell) # {s}
                       THEN [cell EXCEPT ![j.cell].runner = <<>>] ELSE Freed(s)
    /\ UNCHANGED <<foreign, learned, cache, asked>>

\* Time: an entry nears its end, expires, leaves the window; a failure is forgotten
Tick ==
    /\ \E e \in cache :
          \/ \E to \in {"due", "stale", "gone"} :
                /\ <<e.age, to>> \in {<<"fresh", "due">>, <<"fresh", "stale">>,
                                      <<"due", "stale">>, <<"stale", "gone">>}
                /\ cache' = Update({e}, LAMBDA x : [x EXCEPT !.age = to])
          \/ e.failed /\ cache' = Update({e}, LAMBDA x : [x EXCEPT !.failed = FALSE])
    /\ UNCHANGED <<foreign, learned, table, cell, job, asked>>

\* The TTL of a learned name passes
Unlearn ==
    /\ \E n \in foreign \cup learned :
          \/ n \in foreign /\ foreign' = foreign \ {n} /\ UNCHANGED learned
          \/ n \in learned /\ learned' = learned \ {n} /\ UNCHANGED foreign
    /\ UNCHANGED <<cache, table, cell, job, asked>>

\* Who looks into the learned tables or learns, at the end of what is under way
Learns(j) == j.learns \/ j.how \in {"auto", "verify"}

\* A new configuration is loaded: the learned tables are made anew.  Who is
\* under way holds the old state and learns into the old tables.
Reload ==
    /\ foreign' = {} /\ learned' = {}
    /\ job' = [s \in Slot |-> IF Learns(job[s]) THEN [job[s] EXCEPT !.old = TRUE]
                              ELSE job[s]]
    /\ UNCHANGED <<cache, table, cell, asked>>

Init ==
    /\ foreign = {} /\ learned = {} /\ cache = {}
    /\ table = [k \in {<<q.name, q.qtype, q.size, u>> : q \in Question, u \in Upstream} |-> 0]
    /\ cell = [c \in Cell |-> NoCell]
    /\ job = [s \in Slot |-> Idle]
    /\ asked = 0
    /\ scenario \in Scenarios

Step(s) ==
    \/ Lookup(s) \/ LookupStale(s) \/ AnswerEarly(s) \/ Send(s)
    \/ Join(s) \/ TakeOver(s) \/ Reply(s) \/ Leave(s)
    \/ Store(s) \/ Clear(s) \/ Fallback(s) \/ Classify(s) \/ Plain(s) \/ Verify(s)

Next ==
    /\ \/ \E s \in Slot : Step(s) \/ Cancel(s)
       \/ \E s \in Slot, a \in scenario.asks : Receive(s, a[1], a[2])
       \/ Tick \/ Unlearn \/ Reload
    /\ UNCHANGED scenario

\* Every upstream query ends (rounds, timeouts, the reassembly limit) and the
\* runtime does not stop while a task can go on; nothing is assumed of clients,
\* clock or reloads.
Fairness == WF_vars((\E s \in Slot : Step(s)) /\ UNCHANGED scenario)
Spec == Init /\ [][Next]_vars /\ Fairness

-----------------------------------------------------------------------------
(* Properties.                                                             *)

TypeOK ==
    /\ foreign \subseteq Name /\ learned \subseteq Name
    /\ \A e, f \in cache : e.key = f.key => e = f
    /\ \A k \in DOMAIN table : table[k] \in Cell \cup {0}
    /\ \A s \in Slot : job[s].cell \in Cell \cup {0}

\* singleflight: at any time at most one upstream query runs for a key, and an
\* entry of the table is held by a caller that will remove it: no result and no
\* abandoned flight is left for a later query to find, whoever is cancelled when.
FlightsExact ==
    /\ \A k \in DOMAIN table : table[k] # 0 => Holders(table[k]) # {}
    /\ \A s, t \in Slot :
          /\ job[s].cell # 0 /\ job[t].cell # 0 /\ s # t
          /\ cell[job[s].cell].runner = s /\ cell[job[t].cell].runner = t
          /\ ~job[s].q.options /\ ~job[t].q.options
          => cell[job[s].cell].key # cell[job[t].cell].key

\* The prefetching flag of an entry blocks every later prefetch of it, so it is
\* only up while a task is under way that takes it down, however that task ends.
PrefetchDue ==
    \A e \in cache : e.prefetching =>
        \E s \in Slot : /\ job[s].pc # "idle" /\ job[s].how = "prefetch"
                        /\ Key(job[s].path, job[s].q) = e.key

\* What a query or a prefetch marks for others to see, it takes away again.
MarksRemoved == FlightsExact /\ PrefetchDue

\* ResolvePath: an answer that came from an upstream reached its client along the
\* path decided for it, through whichever cache entries and flights; and one that
\* came over UDP is not longer than what this client accepts.
RightAnswer ==
    \A s \in Slot :
        LET j == job[s] IN
        /\ s[2] = "query" /\ j.pc = "send" /\ j.resp.path \in Path
        => /\ j.resp.path = j.path
           /\ j.path = "cn" /\ ~CnOverTcp => j.resp.len <= j.q.size

\* The two together: what queries share, the table of flights and the cache, neither outlives
\* those who share it nor serves one that it was not made for.
DnsSound == MarksRemoved /\ RightAnswer

\* Clients stop asking in every behaviour of the model, and then every query, task and
\* flight comes to its end, even when the query that others wait on is cancelled.
AllAnswered ==
    <>[](/\ \A s \in Slot : job[s].pc = "idle"
         /\ \A k \in DOMAIN table : table[k] = 0)

=============================================================================
