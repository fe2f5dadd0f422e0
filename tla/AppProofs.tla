----------------------------- MODULE AppProofs -----------------------------
(***************************************************************************)
(* Proofs about what an application meets at the client: the names it asks *)
(* for (DnsServer) and the connections it makes (ClientConn).              *)
(***************************************************************************)
EXTENDS DnsServer, ClientConn, FiniteSetTheorems, TLAPS

-----------------------------------------------------------------------------
(* The names.                                                              *)

Resp == [kind : {"none", "host", "empty", "fake", "nxdomain", "cn", "foreign", "neg", "trunc",
                 "servfail"},
         path : {"none", "local", "cn", "remote"}, len : Nat]
JobRec == [pc : {"idle", "lookup", "stale", "wait", "fetch", "store", "fallback", "clear", "send"},
           q : Question,
           how : {"none", "now", "cached", "direct", "plain", "auto", "prefetch", "refresh",
                 "verify"},
           path : Path \cup {"none"}, learns : BOOLEAN, old : BOOLEAN, next : Nat,
           cell : Cell \cup {0}, resp : Resp]
FlightKeys == {<<q.name, q.qtype, q.size, u>> : q \in Question, u \in Upstream}

\* A response is the answer to this question along this path.
Suits(r, path, q) == /\ r.path = path /\ r.kind \in {"cn", "foreign", "neg", "trunc", "servfail"}
                     /\ path = "cn" /\ ~CnOverTcp => r.len <= q.size

\* What a job has in hand at each point, and who may do what.
Background == {"prefetch", "refresh", "verify"}
UnderWay == {"lookup", "stale", "wait", "fetch", "store", "fallback", "clear"}
JobFits(s, j) ==
  /\ j \in JobRec
  /\ j.pc # "fetch" => j.cell = 0
  /\ j.pc \in UnderWay => /\ j.path \in Path
                          /\ j.path = "remote" => j.next \in 1..Len(RemoteServers)
  /\ j.pc \in {"wait", "store", "fallback"} => j.resp = None \/ Suits(j.resp, j.path, j.q)
  /\ j.pc = "send" => j.resp.path \in {"none", "local"} \/ Suits(j.resp, j.path, j.q)
  /\ s[2] = "query" => j.pc # "clear" /\ j.how \notin Background
  /\ s[2] = "task" => j.pc \in {"idle", "fetch", "store", "clear"}
                      /\ (j.pc # "idle" => j.how \in Background)
  /\ j.how = "prefetch" => ~j.q.options
  /\ j.pc = "clear" => j.how = "prefetch"
  /\ j.how \in {"auto", "plain"} => j.pc = "idle" \/ j.path = "cn"
JobsFit == /\ scenario \in Scenarios
           /\ job \in [Slot -> JobRec]
           /\ \A s \in Slot : JobFits(s, job[s])

\* A query has at most one task, and one that waits for its refresh.
Pair(q, t) == /\ q.pc \in {"lookup", "stale", "fetch", "store", "fallback"} => t.pc = "idle"
              /\ q.pc = "wait" => /\ t.pc \in {"fetch", "store"} /\ t.how = "refresh"
                                  /\ t.q = q.q /\ t.path = q.path
OneTask == \A n \in Query : Pair(job[<<n, "query">>], job[<<n, "task">>])

\* A flight is what its holders asked for, is in the table while it has no result, and has a
\* holder while it is in the table.
CellRec == [key : FlightKeys \cup {<<>>}, runner : Slot \cup {<<>>}, done : BOOLEAN, resp : Resp]
PathTo(server) == IF server = "cn" THEN "cn" ELSE "remote"
FlightsFit ==
  /\ cell \in [Cell -> CellRec]
  /\ table \in [FlightKeys -> Cell \cup {0}]
  /\ \A c \in Cell : cell[c].done =>
       /\ cell[c].runner = <<>>
       /\ cell[c].resp = None \/
            (/\ cell[c].resp.path = PathTo(cell[c].key[4])
             /\ cell[c].resp.kind \in {"cn", "foreign", "neg", "trunc", "servfail"}
             /\ cell[c].key[4] = "cn" /\ ~CnOverTcp => cell[c].resp.len <= cell[c].key[3])
  /\ \A s \in Slot : job[s].cell # 0 => cell[job[s].cell].key = FlightKey(job[s])
  /\ \A k \in FlightKeys : table[k] # 0 => cell[table[k]].key = k /\ Holders(table[k]) # {}
  /\ \A s \in Slot : job[s].cell # 0 /\ ~job[s].q.options /\ ~cell[job[s].cell].done =>
       table[cell[job[s].cell].key] = job[s].cell

EntryRec == [key : {<<p, q.name, q.qtype>> : p \in Path, q \in Question}, resp : Resp,
             age : {"fresh", "due", "stale", "gone"}, failed : BOOLEAN, prefetching : BOOLEAN]
CacheFits ==
  /\ cache \subseteq EntryRec
  /\ \A e \in cache : e.resp.path = e.key[1] /\ Cacheable(e.resp)
  /\ PrefetchDue

DnsInv == JobsFit /\ OneTask /\ FlightsFit /\ CacheFits

-----------------------------------------------------------------------------
(* Slots and their jobs.                                                   *)

\* A slot is a pair of a query and a role, and every query has a slot for its task.
LEMMA Pairs ==
  ASSUME NEW s \in Slot
  PROVE  /\ s[1] \in Query /\ s[2] \in {"query", "task"}
         /\ s = <<s[1], s[2]>> /\ s # <<>>
         /\ Task(s) = <<s[1], "task">> /\ Task(s) \in Slot /\ <<s[1], "query">> \in Slot
<1>1. PICK n \in Query, k \in {"query", "task"} : s = <<n, k>>
  BY DEF Slot
<1>2. s[1] = n /\ s[2] = k
  BY <1>1
<1>3. s # <<>>
  BY <1>1
<1> QED BY <1>1, <1>2, <1>3 DEF Slot, Task

\* An idle job has its type and fits any slot.
LEMMA IdleFits ==
  ASSUME NEW s \in Slot
  PROVE  /\ Idle \in JobRec /\ JobFits(s, Idle) /\ Idle.pc = "idle" /\ Idle.cell = 0
         /\ Idle.q \in Question /\ Idle.how = "none"
<1>1. (CHOOSE q \in Question : TRUE) \in Question
  BY DnsAssumption
<1>2. None \in Resp
  BY DEF None, Resp
<1> QED BY <1>1, <1>2 DEF Idle, JobRec, JobFits, UnderWay, Background

\* A step that touches the two slots of one query only keeps the jobs in order if these fit.
LEMMA PairStep ==
  ASSUME JobsFit, OneTask, NEW n \in Query,
         scenario' = scenario,
         job' = [m \in Slot |-> job'[m]],
         \A m \in Slot : m[1] # n => job'[m] = job[m],
         JobFits(<<n, "query">>, job'[<<n, "query">>]),
         JobFits(<<n, "task">>, job'[<<n, "task">>]),
         Pair(job'[<<n, "query">>], job'[<<n, "task">>])
  PROVE  JobsFit' /\ OneTask'
<1>1. \A m \in Slot : JobFits(m, job'[m])
  <2>1. SUFFICES ASSUME NEW m \in Slot PROVE JobFits(m, job'[m])
    OBVIOUS
  <2>2. CASE m[1] # n
    BY <2>2 DEF JobsFit
  <2>3. CASE m[1] = n
    <3>1. m = <<n, "query">> \/ m = <<n, "task">>
      BY <2>3, Pairs
    <3> QED BY <3>1
  <2> QED BY <2>2, <2>3
<1>2. \A m \in Slot : job'[m] \in JobRec
  BY <1>1 DEF JobFits
<1>3. JobsFit'
  BY <1>1, <1>2 DEF JobsFit
<1>4. OneTask'
  <2>1. SUFFICES ASSUME NEW m \in Query PROVE Pair(job'[<<m, "query">>], job'[<<m, "task">>])
    BY DEF OneTask
  <2>2. CASE m = n
    BY <2>2
  <2>3. CASE m # n
    <3>1. <<m, "query">> \in Slot /\ <<m, "task">> \in Slot
      BY DEF Slot
    <3>2. job'[<<m, "query">>] = job[<<m, "query">>] /\ job'[<<m, "task">>] = job[<<m, "task">>]
      BY <3>1, <2>3
    <3> QED BY <3>2 DEF OneTask
  <2> QED BY <2>2, <2>3
<1> QED BY <1>3, <1>4

\* The same for a step that sets the job of one slot.
LEMMA OneSlot ==
  ASSUME JobsFit, OneTask, NEW s \in Slot, NEW r,
         scenario' = scenario, job' = [job EXCEPT ![s] = r], JobFits(s, r),
         s[2] = "query" => Pair(r, job[Task(s)]),
         s[2] = "task" => Pair(job[<<s[1], "query">>], r)
  PROVE  JobsFit' /\ OneTask'
<1> DEFINE n == s[1]
           Q == <<n, "query">>
           T == <<n, "task">>
<1>1. n \in Query /\ Q \in Slot /\ T \in Slot /\ (s = Q \/ s = T) /\ Q # T /\ Task(s) = T
      /\ s = <<n, s[2]>>
  BY Pairs
<1>2. job \in [Slot -> JobRec] /\ \A m \in Slot : JobFits(m, job[m])
  BY DEF JobsFit
<1>3. job' = [m \in Slot |-> job'[m]]
  BY <1>2
<1>4. \A m \in Slot : m[1] # n => job'[m] = job[m]
  BY <1>2
<1>5. CASE s = Q
  <2>1. job'[Q] = r /\ job'[T] = job[T]
    BY <1>1, <1>2, <1>5
  <2>2. Pair(r, job[T])
    BY <1>1, <1>5
  <2>3. JobFits(Q, job'[Q]) /\ JobFits(T, job'[T]) /\ Pair(job'[Q], job'[T])
    BY <1>1, <1>2, <1>5, <2>1, <2>2
  <2> QED BY <1>1, <1>3, <1>4, <2>3, PairStep
<1>6. CASE s = T
  <2>1. job'[T] = r /\ job'[Q] = job[Q]
    BY <1>1, <1>2, <1>6
  <2>2. Pair(job[Q], r)
    BY <1>1, <1>6
  <2>3. JobFits(Q, job'[Q]) /\ JobFits(T, job'[T]) /\ Pair(job'[Q], job'[T])
    BY <1>1, <1>2, <1>6, <2>1, <2>2
  <2> QED BY <1>1, <1>3, <1>4, <2>3, PairStep
<1> QED BY <1>1, <1>5, <1>6

-----------------------------------------------------------------------------
(* What leaves the flights and the marks alone.                            *)

\* The holder of a flight stays one, for the same question and server.
Keeps(t) == /\ job'[t].cell = job[t].cell
            /\ job[t].cell # 0 => /\ FlightKey(job'[t]) = FlightKey(job[t])
                                  /\ job'[t].q = job[t].q

\* A step that leaves table and cells alone keeps the flights, if every slot keeps its part.
LEMMA Flightless ==
  ASSUME FlightsFit, table' = table, cell' = cell, \A t \in Slot : Keeps(t)
  PROVE  FlightsFit'
<1>1. \A c \in Cell : Holders(c)' = Holders(c)
  BY DEF Holders, Keeps
<1>2. \A k \in FlightKeys : table[k] # 0 => table[k] \in Cell
  BY DEF FlightsFit
<1>3. (\A k \in FlightKeys : table[k] # 0 => cell[table[k]].key = k /\ Holders(table[k]) # {})'
  BY <1>1, <1>2 DEF FlightsFit
<1>4. \A s \in Slot : job'[s].cell # 0 => cell'[job'[s].cell].key = FlightKey(job'[s])
  BY DEF FlightsFit, Keeps
<1>5. \A s \in Slot : job'[s].cell # 0 /\ ~job'[s].q.options /\ ~cell'[job'[s].cell].done =>
         table'[cell'[job'[s].cell].key] = job'[s].cell
  BY DEF FlightsFit, Keeps
<1> QED BY <1>3, <1>4, <1>5 DEF FlightsFit

\* A prefetch under way stays one.
Prefetches(j) == j.pc # "idle" /\ j.how = "prefetch"
StillPrefetches(t) == Prefetches(job[t]) => /\ Prefetches(job'[t])
                                            /\ job'[t].path = job[t].path
                                            /\ job'[t].q = job[t].q

\* The cache changes by entries that may be there, and a mark that is up was up before, or
\* has somebody to take it down; whoever no longer does has taken down what was his.
LEMMA CacheStep ==
  ASSUME CacheFits,
         \A e \in cache' : /\ e \in EntryRec
                           /\ e.resp.path = e.key[1] /\ Cacheable(e.resp),
         \A e \in cache' : e.prefetching =>
            \/ \E f \in cache : f.key = e.key /\ f.prefetching
            \/ \E t \in Slot : Prefetches(job'[t]) /\ Key(job'[t].path, job'[t].q) = e.key,
         \A t \in Slot : \/ StillPrefetches(t)
                         \/ \A e \in cache' : e.prefetching =>
                               e.key # Key(job[t].path, job[t].q)
  PROVE  CacheFits'
<1>1. \A e \in cache' : e.prefetching =>
         \E t \in Slot : Prefetches(job'[t]) /\ Key(job'[t].path, job'[t].q) = e.key
  <2>1. SUFFICES ASSUME NEW e \in cache', e.prefetching, NEW f \in cache, f.key = e.key,
                        f.prefetching
                 PROVE  \E t \in Slot : Prefetches(job'[t]) /\ Key(job'[t].path, job'[t].q) = e.key
    OBVIOUS
  <2>2. PICK t \in Slot : Prefetches(job[t]) /\ Key(job[t].path, job[t].q) = e.key
    BY <2>1 DEF CacheFits, PrefetchDue, Prefetches
  <2>3. StillPrefetches(t)
    BY <2>1, <2>2
  <2> QED BY <2>2, <2>3 DEF StillPrefetches
<1>2. PrefetchDue'
  BY <1>1 DEF PrefetchDue, Prefetches
<1>3. \A e \in cache' : e.resp.path = e.key[1] /\ Cacheable(e.resp)
  OBVIOUS
<1>4. cache' \subseteq EntryRec
  OBVIOUS
<1> QED BY <1>2, <1>3, <1>4 DEF CacheFits

\* The most frequent case: the cache is left alone.
LEMMA CacheAlone ==
  ASSUME CacheFits, cache' = cache, \A t \in Slot : StillPrefetches(t)
  PROVE  CacheFits'
<1>1. \A e \in cache' : e \in EntryRec /\ e.resp.path = e.key[1] /\ Cacheable(e.resp)
  BY DEF CacheFits
<1> QED BY <1>1, CacheStep

-----------------------------------------------------------------------------
(* What the operations of the cache leave in it.                           *)

EntryFits(e) == e \in EntryRec /\ e.resp.path = e.key[1] /\ Cacheable(e.resp)

\* What fits a cache fits each entry.
LEMMA EntriesFit ==
  ASSUME CacheFits PROVE \A e \in cache : EntryFits(e)
BY DEF CacheFits, EntryFits

\* A failure and the end of a prefetch take the mark down.
LEMMA MarkTakenDown ==
  ASSUME CacheFits, NEW path, NEW q,
         MarkFailed(path, q) \/ ClearPrefetching(path, q)
  PROVE  \A e \in cache' : /\ EntryFits(e)
                           /\ e.prefetching => /\ e \in cache
                                               /\ ~q.options => e.key # Key(path, q)
<1> DEFINE es == Entries(path, q)
           F(e) == [e EXCEPT !.failed = TRUE, !.prefetching = FALSE]
           C(e) == [e EXCEPT !.prefetching = FALSE]
<1>1. cache' = (cache \ es) \cup {F(e) : e \in es} \/ cache' = (cache \ es) \cup {C(e) : e \in es}
  BY DEF MarkFailed, ClearPrefetching, Update
<1>2. \A e \in es : e \in cache /\ EntryFits(e)
  BY EntriesFit DEF Entries
<1>3. \A e \in es : /\ EntryFits(F(e)) /\ F(e).prefetching = FALSE
                    /\ EntryFits(C(e)) /\ C(e).prefetching = FALSE
  <2>1. SUFFICES ASSUME NEW e \in es
                 PROVE  /\ EntryFits(F(e)) /\ F(e).prefetching = FALSE
                        /\ EntryFits(C(e)) /\ C(e).prefetching = FALSE
    OBVIOUS
  <2>2. e \in EntryRec /\ e.resp.path = e.key[1] /\ Cacheable(e.resp)
    BY <1>2 DEF EntryFits
  <2> DEFINE K == {<<p, x.name, x.qtype>> : p \in Path, x \in Question}
  <2>3. EntryRec = [key : K, resp : Resp, age : {"fresh", "due", "stale", "gone"},
                    failed : BOOLEAN, prefetching : BOOLEAN]
    BY DEF EntryRec
  <2> HIDE DEF K
  <2>4. /\ F(e) \in EntryRec /\ F(e).key = e.key /\ F(e).resp = e.resp /\ F(e).prefetching = FALSE
        /\ C(e) \in EntryRec /\ C(e).key = e.key /\ C(e).resp = e.resp /\ C(e).prefetching = FALSE
    BY <2>2, <2>3
  <2> QED BY <2>2, <2>4 DEF EntryFits
<1>4. \A e \in cache : e \notin es /\ ~q.options => e.key # Key(path, q)
  BY DEF Entries
<1> HIDE DEF F, C
<1> QED BY <1>1, <1>2, <1>3, <1>4, EntriesFit

\* An entry is stored under the path it came by, and storing marks none for prefetching.
LEMMA PutFits ==
  ASSUME CacheFits, NEW path \in Path, NEW q \in Question, NEW resp \in Resp, resp.path = path,
         Put(path, q, resp)
  PROVE  \A e \in cache' : EntryFits(e) /\ (e.prefetching => e \in cache)
<1> DEFINE new == [key |-> Key(path, q), resp |-> resp, age |-> "fresh",
                   failed |-> FALSE, prefetching |-> FALSE]
<1>1. CASE ~Cacheable(resp) \/ q.options
  BY <1>1, EntriesFit DEF Put
<1>2. CASE Cacheable(resp) /\ ~q.options
  <2>1. \A e \in cache' : e \in cache \/ e = new
    BY <1>2 DEF Put
  <2>2. EntryFits(new) /\ ~new.prefetching
    BY <1>2 DEF EntryFits, EntryRec, Key
  <2> QED BY <2>1, <2>2, EntriesFit
<1> QED BY <1>1, <1>2

\* A stale or live answer is one for the question that found it.
LEMMA FoundSuits ==
  ASSUME CacheFits, NEW path \in Path, NEW q \in Question, NEW e \in cache,
         e \in Hits(path, q) \/ e \in Stale(path, q)
  PROVE  /\ e \in Entries(path, q) /\ e.resp \in Resp /\ Suits(e.resp, path, q)
         /\ ~q.options /\ e.key = Key(path, q)
<1>1. EntryFits(e)
  BY EntriesFit
<1>2. e \in Entries(path, q) /\ Fits(e, q)
  BY DEF Hits, Stale
<1>3. e.key = Key(path, q) /\ ~q.options
  BY <1>2 DEF Entries
<1>4. e.key[1] = path
  BY <1>3 DEF Key
<1> QED BY <1>1, <1>2, <1>3, <1>4 DEF EntryFits, EntryRec, Suits, Cacheable, Fits

-----------------------------------------------------------------------------
(* What a job becomes.                                                     *)

\* An answer that suits, or one made here, may be sent.
LEMMA SendsFits ==
  ASSUME NEW s \in Slot, s[2] = "query", NEW j \in JobRec, NEW a \in Resp,
         a.path \in {"none", "local"} \/ Suits(a, j.path, j.q)
  PROVE  /\ JobFits(s, Sends(j, a)) /\ Sends(j, a).pc = "send"
         /\ Sends(j, a).cell = 0 /\ Sends(j, a).how = "none"
<1>1. Sends(j, a) = [pc |-> "send", q |-> j.q, how |-> "none", path |-> j.path, learns |-> FALSE,
                     old |-> FALSE, next |-> 0, cell |-> 0, resp |-> a]
  <2>1. PICK x : x = CHOOSE q \in Question : TRUE
    OBVIOUS
  <2>2. Idle = [pc |-> "idle", q |-> x, how |-> "none", path |-> "none", learns |-> FALSE,
                old |-> FALSE, next |-> 0, cell |-> 0, resp |-> None]
    BY <2>1 DEF Idle
  <2>3. PICK i : i = Idle
    OBVIOUS
  <2>4. Sends(j, a) = [i EXCEPT !.pc = "send", !.q = j.q, !.path = j.path, !.resp = a]
    BY <2>3 DEF Sends
  <2> QED BY <2>2, <2>3, <2>4
<1> QED BY <1>1 DEF JobRec, JobFits, UnderWay, Background

\* A background task carries the question of the query that starts it.
LEMMA SpawnedFits ==
  ASSUME NEW s \in Slot, JobsFit, NEW how \in Background, NEW path \in Path,
         how = "prefetch" => ~job[s].q.options
  PROVE  /\ JobFits(Task(s), Spawned(s, how, path, 1))
         /\ Spawned(s, how, path, 1).pc = "fetch" /\ Spawned(s, how, path, 1).how = how
         /\ Spawned(s, how, path, 1).path = path /\ Spawned(s, how, path, 1).q = job[s].q
         /\ Spawned(s, how, path, 1).cell = 0
<1>1. job[s] \in JobRec /\ Task(s)[2] = "task"
  BY Pairs DEF JobsFit, Task
<1>2. Spawned(s, how, path, 1) =
        [pc |-> "fetch", q |-> job[s].q, how |-> how, path |-> path, learns |-> job[s].learns,
         old |-> job[s].old, next |-> 1, cell |-> 0, resp |-> None]
  <2>1. PICK j : j = job[s]
    OBVIOUS
  <2>2. j = [pc |-> j.pc, q |-> j.q, how |-> j.how, path |-> j.path, learns |-> j.learns,
             old |-> j.old, next |-> j.next, cell |-> j.cell, resp |-> j.resp]
    BY <1>1, <2>1 DEF JobRec
  <2>3. Spawned(s, how, path, 1) = [j EXCEPT !.pc = "fetch", !.how = how, !.path = path, !.next = 1,
                   !.cell = 0, !.resp = None]
    BY <2>1 DEF Spawned
  <2> QED BY <2>1, <2>2, <2>3
<1>3. None \in Resp
  BY DEF None, Resp
<1> QED BY <1>1, <1>2, <1>3, DnsAssumption DEF JobRec, JobFits, UnderWay, Background

-----------------------------------------------------------------------------
(* The steps of a query before its fetch.                                  *)

\* Each way of answering comes with the path decided for the question's class.
LEMMA PlanFits ==
  ASSUME NEW class, NEW q \in Question
  PROVE  LET p == Plan(class, q) IN
         /\ p.how \in {"now", "cached", "direct", "plain", "auto"} /\ p.learns \in BOOLEAN
         /\ p.how = "now" => p.path = "none" /\ p.ans \in Resp /\ p.ans.path = "local"
         /\ p.how # "now" => p.path \in Path /\ p.ans = None
         /\ p.how \in {"auto", "plain"} => p.path = "cn"
<1>1. \A kind \in {"host", "empty", "fake", "nxdomain"} :
         Local(kind) \in Resp /\ Local(kind).path = "local"
  BY DEF Local, Resp
<1>2. FakeAnswer(q) \in Resp /\ FakeAnswer(q).path = "local"
  BY <1>1 DEF FakeAnswer
<1>3. \A a \in Resp : a.path = "local" => /\ Now(a).how = "now" /\ Now(a).path = "none"
                                          /\ Now(a).ans = a /\ Now(a).learns = FALSE
  BY DEF Now, PlanFor
<1>4. \A how, path, learns : /\ PlanFor(how, path, learns).how = how
                             /\ PlanFor(how, path, learns).path = path
                             /\ PlanFor(how, path, learns).learns = learns
                             /\ PlanFor(how, path, learns).ans = None
  BY DEF PlanFor
<1> DEFINE Good(p) ==
         /\ p.how \in {"now", "cached", "direct", "plain", "auto"} /\ p.learns \in BOOLEAN
         /\ p.how = "now" => p.path = "none" /\ p.ans \in Resp /\ p.ans.path = "local"
         /\ p.how # "now" => p.path \in Path /\ p.ans = None
         /\ p.how \in {"auto", "plain"} => p.path = "cn"
<1>5. \A a \in Resp : a.path = "local" => Good(Now(a))
  BY <1>3
<1>6. /\ Good(PlanFor("direct", "cn", FALSE)) /\ Good(PlanFor("cached", "remote", FALSE))
      /\ Good(PlanFor("cached", "remote", TRUE)) /\ Good(PlanFor("cached", "cn", FALSE))
      /\ Good(PlanFor("plain", "cn", FALSE)) /\ Good(PlanFor("auto", "cn", class = "autoVerify"))
  <2>1. \A b \in BOOLEAN : /\ Good(PlanFor("auto", "cn", b)) /\ Good(PlanFor("direct", "cn", b))
                           /\ Good(PlanFor("plain", "cn", b)) /\ Good(PlanFor("cached", "cn", b))
                           /\ Good(PlanFor("cached", "remote", b))
    BY <1>4 DEF Path
  <2>2. (class = "autoVerify") \in BOOLEAN
    OBVIOUS
  <2>3. Good(PlanFor("auto", "cn", class = "autoVerify"))
    BY <2>1, <2>2
  <2>4. /\ Good(PlanFor("direct", "cn", FALSE)) /\ Good(PlanFor("cached", "remote", FALSE))
        /\ Good(PlanFor("cached", "remote", TRUE)) /\ Good(PlanFor("cached", "cn", FALSE))
        /\ Good(PlanFor("plain", "cn", FALSE))
    <3>1. FALSE \in BOOLEAN /\ TRUE \in BOOLEAN
      OBVIOUS
    <3> QED BY <2>1, <3>1
  <2> QED BY <2>3, <2>4
<1> HIDE DEF Good
<1>7. Good(Routed(class, q))
  BY <1>1, <1>2, <1>5, <1>6 DEF Routed
<1>8. StaticKind(class, q) \in {"host", "empty"}
  BY DEF StaticKind
<1>9. Good(Plan(class, q))
  BY <1>1, <1>5, <1>6, <1>7, <1>8 DEF Plan
<1> QED BY <1>9 DEF Good

\* A step of one slot that holds no flight, neither before nor after, and is no prefetch.
LEMMA NoFlight ==
  ASSUME DnsInv, NEW s \in Slot, NEW r,
         scenario' = scenario, table' = table, cell' = cell,
         job' = [job EXCEPT ![s] = r], JobFits(s, r), job[s].cell = 0, r.cell = 0,
         s[2] = "query" => Pair(r, job[Task(s)]),
         s[2] = "task" => Pair(job[<<s[1], "query">>], r),
         CacheFits'
  PROVE  DnsInv'
<1>1. JobsFit' /\ OneTask'
  BY OneSlot DEF DnsInv
<1>2. \A t \in Slot : Keeps(t)
  BY DEF DnsInv, JobsFit, Keeps
<1>3. FlightsFit'
  BY <1>2, Flightless DEF DnsInv
<1> QED BY <1>1, <1>3 DEF DnsInv

\* A query that is not at rest is no prefetch, whatever becomes of it.
LEMMA QueriesDoNotPrefetch ==
  ASSUME JobsFit, NEW s \in Slot, s[2] = "query", NEW r, job' = [job EXCEPT ![s] = r]
  PROVE  \A t \in Slot : StillPrefetches(t)
BY DEF JobsFit, JobFits, Background, StillPrefetches, Prefetches

\* A question begins a job that fits it.
LEMMA ReceiveKeeps ==
  ASSUME DnsInv, NEW s \in Slot, NEW q \in Question, NEW class, Receive(s, q, class),
         scenario' = scenario
  PROVE  DnsInv'
<1>1. /\ s[2] = "query" /\ job[s].pc = "idle" /\ job[Task(s)].pc = "idle"
      /\ table' = table /\ cell' = cell /\ cache' = cache
  BY DEF Receive, Vacant
<1>2. PICK p : p = Plan(class, q)
  OBVIOUS
<1>3. /\ p.how \in {"now", "cached", "direct", "plain", "auto"} /\ p.learns \in BOOLEAN
      /\ p.how = "now" => p.path = "none" /\ p.ans \in Resp /\ p.ans.path = "local"
      /\ p.how # "now" => p.path \in Path /\ p.ans = None
      /\ p.how \in {"auto", "plain"} => p.path = "cn"
  BY <1>2, PlanFits
<1>4. PICK pc \in {"send", "fetch", "lookup"} :
         /\ pc = "send" <=> p.how = "now"
         /\ job' = [job EXCEPT ![s] = [Idle EXCEPT !.pc = pc, !.q = q, !.how = p.how,
                      !.path = p.path, !.learns = p.learns, !.next = 1, !.resp = p.ans]]
  BY <1>2, <1>3 DEF Receive, Set
<1>5. PICK r : r = [Idle EXCEPT !.pc = pc, !.q = q, !.how = p.how,
                      !.path = p.path, !.learns = p.learns, !.next = 1, !.resp = p.ans]
  OBVIOUS
<1>6. None \in Resp
  BY DEF None, Resp
<1>61. /\ r \in JobRec /\ r.pc = pc /\ r.q = q /\ r.how = p.how /\ r.path = p.path
       /\ r.next = 1 /\ r.resp = p.ans /\ r.cell = 0
  BY <1>3, <1>5, <1>6, IdleFits DEF JobRec
<1>7. JobFits(s, r) /\ r.cell = 0
  BY <1>1, <1>3, <1>4, <1>61, DnsAssumption DEF JobFits, UnderWay, Background
<1>8. Pair(r, job[Task(s)])
  BY <1>1, <1>4, <1>61 DEF Pair
<1>9. job' = [job EXCEPT ![s] = r] /\ job[s].cell = 0
  BY <1>1, <1>4, <1>5 DEF DnsInv, JobsFit, JobFits
<1>10. CacheFits'
  BY <1>1, <1>9, QueriesDoNotPrefetch, CacheAlone DEF DnsInv
<1> QED BY <1>1, <1>7, <1>8, <1>9, <1>10, NoFlight

\* The same for a step of both slots of a query.
LEMMA BothSlots ==
  ASSUME DnsInv, NEW n \in Query, NEW r, NEW u,
         scenario' = scenario, table' = table, cell' = cell,
         job' = [job EXCEPT ![<<n, "query">>] = r, ![<<n, "task">>] = u],
         JobFits(<<n, "query">>, r), JobFits(<<n, "task">>, u), Pair(r, u),
         job[<<n, "query">>].cell = 0, r.cell = 0, job[<<n, "task">>].cell = 0, u.cell = 0,
         CacheFits'
  PROVE  DnsInv'
<1> DEFINE Q == <<n, "query">>
           T == <<n, "task">>
<1>1. Q \in Slot /\ T \in Slot /\ Q # T /\ Q[1] = n /\ T[1] = n
  BY DEF Slot
<1>2. job \in [Slot -> JobRec]
  BY DEF DnsInv, JobsFit
<1>3. /\ job'[Q] = r /\ job'[T] = u /\ job' = [m \in Slot |-> job'[m]]
      /\ \A m \in Slot : m # Q /\ m # T => job'[m] = job[m]
  BY <1>1, <1>2
<1>4. \A m \in Slot : m[1] # n => job'[m] = job[m]
  BY <1>1, <1>3
<1>5. JobsFit' /\ OneTask'
  <2>1. JobFits(Q, job'[Q]) /\ JobFits(T, job'[T]) /\ Pair(job'[Q], job'[T])
    BY <1>3
  <2> QED BY <1>3, <1>4, <2>1, PairStep DEF DnsInv
<1>6. \A t \in Slot : Keeps(t)
  BY <1>3 DEF Keeps
<1>7. FlightsFit'
  BY <1>6, Flightless DEF DnsInv
<1> QED BY <1>5, <1>7 DEF DnsInv

\* Where there is only a query: what is known of its slot, its answer and its task.
LEMMA AtQuery ==
  ASSUME JobsFit, OneTask, NEW s \in Slot,
         job[s].pc \in {"lookup", "stale", "wait", "fallback", "send"} \/ s[2] = "query"
  PROVE  /\ s[2] = "query" /\ s = <<s[1], "query">> /\ job[s] \in JobRec /\ JobFits(s, job[s])
         /\ s[1] \in Query /\ Task(s) = <<s[1], "task">> /\ Task(s) \in Slot
         /\ Pair(job[s], job[Task(s)]) /\ JobFits(Task(s), job[Task(s)])
         /\ job[Task(s)] \in JobRec
<1>1. JobFits(s, job[s]) /\ job[s] \in JobRec
  BY DEF JobsFit
<1>2. s[2] = "query"
  BY <1>1, Pairs DEF JobFits
<1> QED BY <1>1, <1>2, Pairs DEF JobsFit, OneTask

\* A query answers and is done.
LEMMA SendsKeeps ==
  ASSUME DnsInv, NEW s \in Slot, s[2] = "query", NEW a \in Resp, job[s].cell = 0,
         a.path \in {"none", "local"} \/ Suits(a, job[s].path, job[s].q),
         scenario' = scenario, table' = table, cell' = cell, Done(s, a), CacheFits'
  PROVE  DnsInv'
<1>1. PICK r : r = Sends(job[s], a)
  OBVIOUS
<1>2. job[s] \in JobRec
  BY DEF DnsInv, JobsFit
<1>3. JobFits(s, r) /\ r.pc = "send" /\ r.cell = 0
  BY <1>1, <1>2, SendsFits
<1>4. job' = [job EXCEPT ![s] = r]
  BY <1>1 DEF Done, Set
<1>5. Pair(r, job[Task(s)])
  BY <1>3 DEF Pair
<1> QED BY <1>3, <1>4, <1>5, NoFlight

\* A job ends, and a task first takes its mark away.
LEMMA EndsKeeps ==
  ASSUME DnsInv, NEW s \in Slot, job[s].cell = 0,
         s[2] = "task" => job[s].how # "refresh",
         scenario' = scenario, table' = table, cell' = cell, Set(s, Idle), CacheFits'
  PROVE  DnsInv'
<1>1. PICK r : r = Idle
  OBVIOUS
<1>2. JobFits(s, r) /\ r.pc = "idle" /\ r.cell = 0
  BY <1>1, IdleFits
<1>3. job' = [job EXCEPT ![s] = r]
  BY <1>1 DEF Set
<1>4. s[2] = "query" => Pair(r, job[Task(s)])
  BY <1>2 DEF Pair
<1>5. s[2] = "task" => Pair(job[<<s[1], "query">>], r)
  <2>1. SUFFICES ASSUME s[2] = "task" PROVE Pair(job[<<s[1], "query">>], r)
    OBVIOUS
  <2>2. Pair(job[<<s[1], "query">>], job[s])
    BY <2>1, Pairs DEF DnsInv, OneTask
  <2> QED BY <1>2, <2>1, <2>2 DEF Pair
<1> QED BY <1>2, <1>3, <1>4, <1>5, NoFlight

\* An answer that is sent, early or late, is the one that was decided for.
LEMMA SendKeeps ==
  ASSUME DnsInv, NEW s \in Slot, Send(s) \/ AnswerEarly(s), scenario' = scenario
  PROVE  DnsInv'
<1>1. table' = table /\ cell' = cell /\ cache' = cache /\ job[s].pc \in {"send", "wait"}
  BY DEF Send, AnswerEarly
<1>2. s[2] = "query" /\ JobFits(s, job[s]) /\ job[s] \in JobRec
  BY <1>1, AtQuery DEF DnsInv
<1>3. job[s].cell = 0
  BY <1>1, <1>2 DEF JobFits
<1>4. CASE Send(s)
  <2>1. Set(s, Idle)
    BY <1>4 DEF Send
  <2>2. CacheFits'
    BY <1>1, <1>2, <2>1, QueriesDoNotPrefetch, CacheAlone DEF DnsInv, Set
  <2> QED BY <1>1, <1>2, <1>3, <2>1, <2>2, EndsKeeps
<1>5. CASE AnswerEarly(s)
  <2>1. Done(s, job[s].resp) /\ job[s].pc = "wait"
    BY <1>5 DEF AnswerEarly
  <2>2. CacheFits'
    BY <1>1, <1>2, <2>1, QueriesDoNotPrefetch, CacheAlone DEF DnsInv, Done, Set
  <2>3. job[s].resp \in Resp
    BY <1>2 DEF JobRec
  <2>4. job[s].resp.path \in {"none", "local"} \/ Suits(job[s].resp, job[s].path, job[s].q)
    BY <1>2, <2>1 DEF JobFits, None
  <2> QED BY <1>1, <1>2, <1>3, <2>1, <2>2, <2>3, <2>4, SendsKeeps
<1> QED BY <1>4, <1>5

\* A query goes on to its next point with the same question.
LEMMA MovesOn ==
  ASSUME NEW s \in Slot, s[2] = "query", NEW j \in JobRec, JobFits(s, j), j.pc \in UnderWay,
         j.cell = 0, NEW pc \in {"stale", "fetch"}
  PROVE  LET r == [j EXCEPT !.pc = pc] IN
         JobFits(s, r) /\ r.pc = pc /\ r.cell = 0
<1>1. PICK r : r = [j EXCEPT !.pc = pc]
  OBVIOUS
<1>2. /\ r \in JobRec /\ r.pc = pc /\ r.how = j.how /\ r.path = j.path /\ r.next = j.next
      /\ r.cell = 0 /\ r.q = j.q
  BY <1>1 DEF JobRec
<1>3. JobFits(s, r)
  BY <1>2 DEF JobFits, UnderWay, Background
<1> QED BY <1>1, <1>2, <1>3

\* A hit has the answer's path; the entry may be marked, and then its task is started.
LEMMA LookupKeeps ==
  ASSUME DnsInv, NEW s \in Slot, Lookup(s), scenario' = scenario
  PROVE  DnsInv'
<1> DEFINE j == job[s]
<1>1. job[s].pc = "lookup" /\ table' = table /\ cell' = cell
  BY DEF Lookup
<1>2. /\ s[2] = "query" /\ s = <<s[1], "query">> /\ job[s] \in JobRec /\ JobFits(s, job[s])
      /\ s[1] \in Query /\ Task(s) = <<s[1], "task">> /\ Task(s) \in Slot
      /\ Pair(job[s], job[Task(s)]) /\ JobFits(Task(s), job[Task(s)])
  BY <1>1, AtQuery DEF DnsInv
<1>3. /\ job[s].cell = 0 /\ job[s].path \in Path /\ job[Task(s)].pc = "idle"
      /\ job[Task(s)].cell = 0 /\ job[s].q \in Question
  BY <1>1, <1>2 DEF JobFits, Pair, UnderWay, JobRec
<1>4. CASE Hits(job[s].path, job[s].q) = {}
  <2>1. PICK pc \in {"stale", "fetch"} : job' = [job EXCEPT ![s] = [job[s] EXCEPT !.pc = pc]]
    BY <1>4 DEF Lookup, Set
  <2>2. cache' = cache
    BY <1>4 DEF Lookup
  <2>3. PICK r : r = [job[s] EXCEPT !.pc = pc]
    OBVIOUS
  <2>4. JobFits(s, r) /\ r.pc = pc /\ r.cell = 0
    BY <1>1, <1>2, <1>3, <2>3, MovesOn DEF UnderWay
  <2>5. Pair(r, job[Task(s)])
    BY <1>3, <2>4 DEF Pair
  <2>6. job' = [job EXCEPT ![s] = r]
    BY <2>1, <2>3
  <2>7. CacheFits'
    BY <1>2, <2>2, <2>6, QueriesDoNotPrefetch, CacheAlone DEF DnsInv
  <2> QED BY <1>1, <1>2, <1>3, <2>4, <2>5, <2>6, <2>7, NoFlight
<1>5. CASE Hits(job[s].path, job[s].q) # {}
  <2>1. PICK e \in Hits(job[s].path, job[s].q), due \in BOOLEAN :
          /\ due => ClaimsPrefetch(e)
          /\ cache' = (cache \ {e}) \cup {[e EXCEPT !.prefetching = due \/ @]}
          /\ job' = [job EXCEPT ![s] = Sends(job[s], e.resp),
                                ![Task(s)] = IF due THEN Spawned(s, "prefetch", job[s].path, 1)
                                                    ELSE @]
    <3>1. PICK e \in Hits(job[s].path, job[s].q) :
            LET due == job[s].how # "auto" /\ ClaimsPrefetch(e) IN
            /\ cache' = (cache \ {e}) \cup {[e EXCEPT !.prefetching = due \/ @]}
            /\ job' = [job EXCEPT ![s] = Sends(job[s], e.resp),
                                  ![Task(s)] = IF due
                                               THEN Spawned(s, "prefetch", job[s].path, 1)
                                               ELSE @]
      <4>1. PICK e \in Hits(job[s].path, job[s].q) :
            LET due == job[s].how # "auto" /\ ClaimsPrefetch(e) IN
            /\ cache' = Update({e}, LAMBDA x : [x EXCEPT !.prefetching = due \/ @])
            /\ job' = [job EXCEPT ![s] = Sends(job[s], e.resp),
                                  ![Task(s)] = IF due
                                               THEN Spawned(s, "prefetch", job[s].path, 1)
                                               ELSE @]
        BY <1>5, Zenon DEF Lookup
      <4>2. cache' = (cache \ {e}) \cup {[e EXCEPT !.prefetching =
                          (job[s].how # "auto" /\ ClaimsPrefetch(e)) \/ @]}
        BY <4>1 DEF Update
      <4> QED BY <4>1, <4>2
    <3>2. PICK due \in BOOLEAN : due = (job[s].how # "auto" /\ ClaimsPrefetch(e))
      OBVIOUS
    <3> QED BY <3>1, <3>2
  <2>2. e \in cache
    BY DEF Hits, Entries
  <2>3. /\ e.resp \in Resp /\ Suits(e.resp, job[s].path, job[s].q)
        /\ ~job[s].q.options /\ e.key = Key(job[s].path, job[s].q)
    BY <1>3, <2>2, FoundSuits DEF DnsInv
  <2>4. PICK r : r = Sends(job[s], e.resp)
    OBVIOUS
  <2>5. JobFits(s, r) /\ r.pc = "send" /\ r.cell = 0 /\ r.how = "none"
    BY <1>2, <2>3, <2>4, SendsFits
  <2>6. PICK u : u = IF due THEN Spawned(s, "prefetch", job[s].path, 1) ELSE job[Task(s)]
    OBVIOUS
  <2>7. /\ JobFits(Task(s), u) /\ u.cell = 0
        /\ due => Prefetches(u) /\ u.path = job[s].path /\ u.q = job[s].q
    <3>1. CASE due
      <4>1. u = Spawned(s, "prefetch", job[s].path, 1)
        BY <2>6, <3>1
      <4>2. "prefetch" \in Background
        BY DEF Background
      <4> QED BY <1>3, <2>3, <4>1, <4>2, SpawnedFits DEF DnsInv, Prefetches
    <3>2. CASE ~due
      BY <1>2, <1>3, <2>6, <3>2
    <3> QED BY <3>1, <3>2
  <2>8. job' = [job EXCEPT ![s] = r, ![Task(s)] = u]
    <3>1. s # Task(s)
      BY <1>2
    <3>2. job' = [job EXCEPT ![s] = r, ![Task(s)] = IF due
           THEN Spawned(s, "prefetch", job[s].path, 1)
                                                    ELSE job[Task(s)]]
      BY <2>1, <2>4, <3>1
    <3> QED BY <3>2, <2>6
  <2>9. CacheFits'
    <3>1. PICK f : f = [e EXCEPT !.prefetching = due \/ @]
      OBVIOUS
    <3>2. EntryFits(e)
      BY <2>2, EntriesFit DEF DnsInv
    <3>3. EntryFits(f) /\ f.key = e.key /\ (f.prefetching => due \/ e.prefetching)
      <4> DEFINE K == {<<p, x.name, x.qtype>> : p \in Path, x \in Question}
      <4>1. EntryRec = [key : K, resp : Resp, age : {"fresh", "due", "stale", "gone"},
                        failed : BOOLEAN, prefetching : BOOLEAN]
        BY DEF EntryRec
      <4> HIDE DEF K
      <4>2. e \in EntryRec /\ e.resp.path = e.key[1] /\ Cacheable(e.resp)
        BY <3>2 DEF EntryFits
      <4>3. /\ f \in EntryRec /\ f.resp = e.resp /\ f.key = e.key
            /\ f.prefetching = (due \/ e.prefetching)
        BY <3>1, <4>1, <4>2
      <4> QED BY <4>2, <4>3 DEF EntryFits
    <3>4. cache' = (cache \ {e}) \cup {f}
      BY <2>1, <3>1
    <3>5. \A x \in cache' : EntryFits(x)
      BY <3>3, <3>4, EntriesFit DEF DnsInv
    <3>6. job'[Task(s)] = u /\ \A t \in Slot : t # s /\ t # Task(s) => job'[t] = job[t]
      BY <1>2, <2>8 DEF DnsInv, JobsFit
    <3>7. \A x \in cache' : x.prefetching =>
            \/ \E y \in cache : y.key = x.key /\ y.prefetching
            \/ \E t \in Slot : Prefetches(job'[t]) /\ Key(job'[t].path, job'[t].q) = x.key
      <4>1. \A x \in cache : x.prefetching => \E y \in cache : y.key = x.key /\ y.prefetching
        OBVIOUS
      <4>2. f.prefetching => \/ \E y \in cache : y.key = f.key /\ y.prefetching
                             \/ \E t \in Slot : /\ Prefetches(job'[t])
                                                /\ Key(job'[t].path, job'[t].q) = f.key
        <5>1. CASE e.prefetching
          BY <2>2, <3>3, <5>1
        <5>2. CASE due
          <6>1. Prefetches(job'[Task(s)]) /\ Key(job'[Task(s)].path, job'[Task(s)].q) = f.key
            BY <2>3, <2>7, <3>3, <3>6, <5>2
          <6> QED BY <6>1, <1>2
        <5> QED BY <3>3, <5>1, <5>2
      <4> QED BY <3>4, <4>1, <4>2
    <3>8. \A t \in Slot : StillPrefetches(t)
      <4>1. ~Prefetches(job[s]) /\ ~Prefetches(job[Task(s)])
        BY <1>2, <1>3 DEF Prefetches, JobFits, Background
      <4> QED BY <3>6, <4>1 DEF StillPrefetches
    <3>9. CacheFits
      BY DEF DnsInv
    <3> QED BY <3>5, <3>7, <3>8, <3>9, CacheStep DEF EntryFits
  <2>10. Pair(r, u)
    BY <2>5 DEF Pair
  <2>11. /\ job' = [job EXCEPT ![<<s[1], "query">>] = r, ![<<s[1], "task">>] = u]
         /\ JobFits(<<s[1], "query">>, r) /\ JobFits(<<s[1], "task">>, u)
         /\ job[<<s[1], "query">>].cell = 0 /\ job[<<s[1], "task">>].cell = 0
    BY <1>2, <1>3, <2>5, <2>7, <2>8
  <2> QED BY <1>1, <1>2, <2>5, <2>7, <2>9, <2>10, <2>11, BothSlots
<1> QED BY <1>4, <1>5

\* Fewer entries, and nobody stops to prefetch.
LEMMA CacheLess ==
  ASSUME CacheFits, cache' \subseteq cache, \A t \in Slot : StillPrefetches(t)
  PROVE  CacheFits'
<1>1. \A e \in cache' : e \in EntryRec /\ e.resp.path = e.key[1] /\ Cacheable(e.resp)
  BY DEF CacheFits
<1>2. \A e \in cache' : e.prefetching => \E f \in cache : f.key = e.key /\ f.prefetching
  OBVIOUS
<1> QED BY <1>1, <1>2, CacheStep

\* A stale answer is of the same path as a fresh one, and its refresh is started.
LEMMA LookupStaleKeeps ==
  ASSUME DnsInv, NEW s \in Slot, LookupStale(s), scenario' = scenario
  PROVE  DnsInv'
<1>1. /\ job[s].pc = "stale" /\ table' = table /\ cell' = cell
      /\ cache' = cache \ Purge(job[s].path, job[s].q)
  BY DEF LookupStale
<1>2. /\ s[2] = "query" /\ s = <<s[1], "query">> /\ job[s] \in JobRec /\ JobFits(s, job[s])
      /\ s[1] \in Query /\ Task(s) = <<s[1], "task">> /\ Task(s) \in Slot
      /\ Pair(job[s], job[Task(s)]) /\ JobFits(Task(s), job[Task(s)])
  BY <1>1, AtQuery DEF DnsInv
<1>3. /\ job[s].cell = 0 /\ job[s].path \in Path /\ job[Task(s)].pc = "idle"
      /\ job[Task(s)].cell = 0 /\ job[s].q \in Question
  BY <1>1, <1>2 DEF JobFits, Pair, UnderWay, JobRec
<1>4. \A t \in Slot : t # s /\ t # Task(s) /\ job'[t] = job[t] => StillPrefetches(t)
  BY DEF StillPrefetches
<1>5. ~Prefetches(job[s]) /\ ~Prefetches(job[Task(s)])
  BY <1>2, <1>3 DEF Prefetches, JobFits, Background
<1>6. CASE Stale(job[s].path, job[s].q) = {}
  <2>1. PICK r : r = [job[s] EXCEPT !.pc = "fetch"]
    OBVIOUS
  <2>2. job' = [job EXCEPT ![s] = r]
    BY <1>6, <2>1 DEF LookupStale, Set
  <2>3. JobFits(s, r) /\ r.pc = "fetch" /\ r.cell = 0
    BY <1>1, <1>2, <1>3, <2>1, MovesOn DEF UnderWay
  <2>4. Pair(r, job[Task(s)])
    BY <1>3, <2>3 DEF Pair
  <2>5. CacheFits'
    BY <1>1, <1>2, <2>2, QueriesDoNotPrefetch, CacheLess DEF DnsInv
  <2> QED BY <1>1, <1>2, <1>3, <2>2, <2>3, <2>4, <2>5, NoFlight
<1>7. CASE Stale(job[s].path, job[s].q) # {}
  <2>1. PICK e \in Stale(job[s].path, job[s].q) :
          IF e.failed THEN Done(s, e.resp)
          ELSE job' = [job EXCEPT ![s] = [job[s] EXCEPT !.pc = "wait", !.resp = e.resp],
                                  ![Task(s)] = Spawned(s, "refresh", job[s].path, 1)]
    BY <1>7 DEF LookupStale
  <2>2. e \in cache
    BY DEF Stale, Entries
  <2>3. e.resp \in Resp /\ Suits(e.resp, job[s].path, job[s].q)
    BY <1>3, <2>2, FoundSuits DEF DnsInv
  <2>4. CASE e.failed
    <3>1. Done(s, e.resp)
      BY <2>1, <2>4
    <3>2. CacheFits'
      BY <1>1, <1>2, <3>1, QueriesDoNotPrefetch, CacheLess DEF DnsInv, Done, Set
    <3> QED BY <1>1, <1>2, <1>3, <2>3, <3>1, <3>2, SendsKeeps
  <2>5. CASE ~e.failed
    <3>1. PICK r : r = [job[s] EXCEPT !.pc = "wait", !.resp = e.resp]
      OBVIOUS
    <3>2. PICK u : u = Spawned(s, "refresh", job[s].path, 1)
      OBVIOUS
    <3>3. /\ r \in JobRec /\ r.pc = "wait" /\ r.resp = e.resp /\ r.cell = 0 /\ r.q = job[s].q
          /\ r.path = job[s].path /\ r.next = job[s].next /\ r.how = job[s].how
      BY <1>2, <1>3, <2>3, <3>1 DEF JobRec
    <3>4. JobFits(s, r)
      BY <1>1, <1>2, <1>3, <2>3, <3>3 DEF JobFits, UnderWay, Background
    <3>5. /\ JobFits(Task(s), u) /\ u.cell = 0 /\ u.pc = "fetch" /\ u.how = "refresh"
          /\ u.path = job[s].path /\ u.q = job[s].q
      <4>1. "refresh" \in Background
        BY DEF Background
      <4> QED BY <1>3, <3>2, <4>1, SpawnedFits DEF DnsInv
    <3>6. Pair(r, u)
      BY <3>3, <3>5 DEF Pair
    <3>7. job' = [job EXCEPT ![s] = r, ![Task(s)] = u]
      BY <2>1, <2>5, <3>1, <3>2
    <3>8. \A t \in Slot : StillPrefetches(t)
      <4>1. \A t \in Slot : t # s /\ t # Task(s) => job'[t] = job[t]
        BY <1>2, <3>7 DEF DnsInv, JobsFit
      <4> QED BY <1>4, <1>5, <4>1 DEF StillPrefetches
    <3>9. CacheFits'
      BY <1>1, <3>8, CacheLess DEF DnsInv
    <3>10. /\ job' = [job EXCEPT ![<<s[1], "query">>] = r, ![<<s[1], "task">>] = u]
           /\ JobFits(<<s[1], "query">>, r) /\ JobFits(<<s[1], "task">>, u)
           /\ job[<<s[1], "query">>].cell = 0 /\ job[<<s[1], "task">>].cell = 0
      BY <1>2, <1>3, <3>4, <3>5, <3>7
    <3> QED BY <1>1, <1>2, <3>3, <3>5, <3>6, <3>9, <3>10, BothSlots
  <2> QED BY <2>4, <2>5
<1> QED BY <1>6, <1>7

-----------------------------------------------------------------------------
(* The steps after the fetch.                                              *)

\* Where there is no answer the client gets a local one.
LEMMA OrNxFits ==
  ASSUME NEW a \in Resp, NEW path, NEW q, a = None \/ Suits(a, path, q)
  PROVE  OrNx(a) \in Resp /\ (OrNx(a).path \in {"none", "local"} \/ Suits(OrNx(a), path, q))
<1>1. Local("nxdomain") \in Resp /\ Local("nxdomain").path = "local"
  BY DEF Local, Resp
<1> QED BY <1>1 DEF OrNx

\* After a failure a stale answer of the same path is taken, or a local one.
LEMMA FallbackKeeps ==
  ASSUME DnsInv, NEW s \in Slot, Fallback(s), scenario' = scenario
  PROVE  DnsInv'
<1>1. job[s].pc = "fallback" /\ table' = table /\ cell' = cell
  BY DEF Fallback
<1>2. s[2] = "query" /\ job[s] \in JobRec /\ JobFits(s, job[s])
  BY <1>1, AtQuery DEF DnsInv
<1>3. /\ job[s].cell = 0 /\ job[s].path \in Path /\ job[s].q \in Question /\ job[s].resp \in Resp
      /\ job[s].resp = None \/ Suits(job[s].resp, job[s].path, job[s].q)
  BY <1>1, <1>2 DEF JobFits, UnderWay, JobRec
<1>4. cache' \subseteq cache
  BY DEF Fallback
<1>5. PICK a \in Resp : Done(s, a) /\ (a.path \in {"none", "local"}
                                       \/ Suits(a, job[s].path, job[s].q))
  <2>1. CASE ~Failure(job[s].resp)
    BY <1>3, <2>1 DEF Fallback, Failure, None
  <2>2. CASE Failure(job[s].resp) /\ Stale(job[s].path, job[s].q) = {}
    <3>1. Done(s, Final(s, job[s].resp))
      BY <2>2 DEF Fallback
    <3>2. Final(s, job[s].resp) = job[s].resp \/ Final(s, job[s].resp) = OrNx(job[s].resp)
      BY DEF Final
    <3>3. None.path = "none"
      BY DEF None
    <3> QED BY <1>3, <3>1, <3>2, <3>3, OrNxFits
  <2>3. CASE Failure(job[s].resp) /\ Stale(job[s].path, job[s].q) # {}
    <3>1. PICK e \in Stale(job[s].path, job[s].q) : Done(s, e.resp)
      BY <2>3 DEF Fallback
    <3>2. e \in cache
      BY DEF Stale, Entries
    <3> QED BY <1>3, <3>1, <3>2, FoundSuits DEF DnsInv
  <2> QED BY <2>1, <2>2, <2>3
<1>6. CacheFits'
  BY <1>2, <1>4, <1>5, QueriesDoNotPrefetch, CacheLess DEF DnsInv, Done, Set
<1> QED BY <1>1, <1>2, <1>3, <1>5, <1>6, SendsKeeps

\* For other types the probe is the answer, of the domestic path, and nothing is cached.
LEMMA PlainKeeps ==
  ASSUME DnsInv, NEW s \in Slot, Plain(s), scenario' = scenario
  PROVE  DnsInv'
<1>1. /\ job[s].pc = "store" /\ job[s].how = "plain" /\ Done(s, OrNx(job[s].resp))
      /\ table' = table /\ cell' = cell /\ cache' = cache
  BY DEF Plain
<1>2. job[s] \in JobRec /\ JobFits(s, job[s])
  BY DEF DnsInv, JobsFit
<1>3. s[2] = "query"
  BY <1>1, <1>2, Pairs DEF JobFits, Background
<1>4. /\ job[s].cell = 0 /\ job[s].resp \in Resp
      /\ job[s].resp = None \/ Suits(job[s].resp, job[s].path, job[s].q)
  BY <1>1, <1>2 DEF JobFits, JobRec
<1>5. PICK a : a = OrNx(job[s].resp)
  OBVIOUS
<1>6. a \in Resp /\ (a.path \in {"none", "local"} \/ Suits(a, job[s].path, job[s].q))
  BY <1>4, <1>5, OrNxFits
<1>7. CacheFits'
  BY <1>1, <1>3, QueriesDoNotPrefetch, CacheAlone DEF DnsInv, Done, Set
<1>8. Done(s, a)
  BY <1>1, <1>5
<1> QED BY <1>1, <1>3, <1>4, <1>6, <1>7, <1>8, SendsKeeps

\* A verification may learn, and answers nobody.
LEMMA VerifyKeeps ==
  ASSUME DnsInv, NEW s \in Slot, Verify(s), scenario' = scenario
  PROVE  DnsInv'
<1>1. /\ job[s].pc = "store" /\ job[s].how = "verify" /\ Set(s, Idle)
      /\ table' = table /\ cell' = cell /\ cache' = cache
  BY DEF Verify
<1>2. job \in [Slot -> JobRec] /\ JobFits(s, job[s])
  BY DEF DnsInv, JobsFit
<1>3. job[s].cell = 0
  BY <1>1, <1>2 DEF JobFits
<1>4. \A t \in Slot : StillPrefetches(t)
  BY <1>1, <1>2 DEF StillPrefetches, Prefetches, Set
<1>5. CacheFits'
  BY <1>1, <1>4, CacheAlone DEF DnsInv
<1> QED BY <1>1, <1>3, <1>5, EndsKeeps

\* A prefetch may end when its mark is taken down.
LEMMA CacheUnmarked ==
  ASSUME CacheFits, NEW s \in Slot, ~job[s].q.options,
         MarkFailed(job[s].path, job[s].q) \/ ClearPrefetching(job[s].path, job[s].q),
         \A t \in Slot : t # s => StillPrefetches(t)
  PROVE  CacheFits'
<1>1. \A e \in cache' : /\ EntryFits(e)
                        /\ e.prefetching => e \in cache /\ e.key # Key(job[s].path, job[s].q)
  BY MarkTakenDown
<1>2. \A e \in cache' : e \in EntryRec /\ e.resp.path = e.key[1] /\ Cacheable(e.resp)
  BY <1>1 DEF EntryFits
<1>3. \A e \in cache' : e.prefetching => \E f \in cache : f.key = e.key /\ f.prefetching
  BY <1>1
<1>4. \A t \in Slot : \/ StillPrefetches(t)
                      \/ \A e \in cache' : e.prefetching => e.key # Key(job[t].path, job[t].q)
  BY <1>1
<1> QED BY <1>2, <1>3, <1>4, CacheStep

\* A prefetching task takes its mark down and ends.
LEMMA ClearKeeps ==
  ASSUME DnsInv, NEW s \in Slot, Clear(s), scenario' = scenario
  PROVE  DnsInv'
<1>1. /\ job[s].pc = "clear" /\ Set(s, Idle) /\ ClearPrefetching(job[s].path, job[s].q)
      /\ table' = table /\ cell' = cell
  BY DEF Clear
<1>2. job \in [Slot -> JobRec] /\ JobFits(s, job[s])
  BY DEF DnsInv, JobsFit
<1>3. job[s].cell = 0 /\ ~job[s].q.options /\ job[s].how = "prefetch"
  BY <1>1, <1>2 DEF JobFits
<1>4. \A t \in Slot : t # s => StillPrefetches(t)
  BY <1>1, <1>2 DEF StillPrefetches, Set
<1>5. CacheFits'
  BY <1>1, <1>3, <1>4, CacheUnmarked DEF DnsInv
<1> QED BY <1>1, <1>3, <1>5, EndsKeeps

\* Entries that fit, no mark that was not there, and nobody stops to prefetch.
LEMMA CacheKept ==
  ASSUME CacheFits, \A e \in cache' : EntryFits(e) /\ (e.prefetching => e \in cache),
         \A t \in Slot : StillPrefetches(t)
  PROVE  CacheFits'
<1>1. \A e \in cache' : e \in EntryRec /\ e.resp.path = e.key[1] /\ Cacheable(e.resp)
  BY DEF EntryFits
<1>2. \A e \in cache' : e.prefetching => \E f \in cache : f.key = e.key /\ f.prefetching
  OBVIOUS
<1> QED BY <1>1, <1>2, CacheStep

\* What Store does to the cache.
LEMMA StoredKept ==
  ASSUME DnsInv, NEW s \in Slot, job[s].pc = "store",
         IF Failure(job[s].resp) THEN MarkFailed(job[s].path, job[s].q)
                                 ELSE Put(job[s].path, job[s].q, job[s].resp)
  PROVE  \A e \in cache' : EntryFits(e) /\ (e.prefetching => e \in cache)
<1>1. job[s] \in JobRec /\ JobFits(s, job[s])
  BY DEF DnsInv, JobsFit
<1>2. /\ job[s].path \in Path /\ job[s].q \in Question /\ job[s].resp \in Resp
      /\ job[s].resp = None \/ Suits(job[s].resp, job[s].path, job[s].q)
  BY <1>1 DEF JobFits, UnderWay, JobRec
<1>3. CASE Failure(job[s].resp)
  BY <1>3, MarkTakenDown DEF DnsInv
<1>4. CASE ~Failure(job[s].resp)
  <2>1. job[s].resp.path = job[s].path
    BY <1>2, <1>4 DEF Failure, None, Suits
  <2> QED BY <1>2, <1>4, <2>1, PutFits DEF DnsInv
<1> QED BY <1>3, <1>4

\* A query whose fetch is over may fall back.
LEMMA FallsBack ==
  ASSUME DnsInv, NEW s \in Slot, s[2] = "query", job[s].pc = "store",
         scenario' = scenario, table' = table, cell' = cell,
         Set(s, [job[s] EXCEPT !.pc = "fallback"]),
         \A e \in cache' : EntryFits(e) /\ (e.prefetching => e \in cache)
  PROVE  DnsInv'
<1>1. /\ job[s] \in JobRec /\ JobFits(s, job[s]) /\ Pair(job[s], job[Task(s)])
  BY AtQuery DEF DnsInv
<1>2. PICK r : r = [job[s] EXCEPT !.pc = "fallback"]
  OBVIOUS
<1>3. /\ r \in JobRec /\ r.pc = "fallback" /\ r.how = job[s].how /\ r.path = job[s].path
      /\ r.next = job[s].next /\ r.cell = job[s].cell /\ r.q = job[s].q /\ r.resp = job[s].resp
  BY <1>1, <1>2 DEF JobRec
<1>4. job[s].cell = 0 /\ r.cell = 0
  BY <1>1, <1>3 DEF JobFits
<1>5. JobFits(s, r)
  BY <1>1, <1>3, <1>4 DEF JobFits, UnderWay, Background
<1>6. Pair(r, job[Task(s)])
  BY <1>1, <1>3 DEF Pair
<1>7. job' = [job EXCEPT ![s] = r]
  BY <1>2 DEF Set
<1>8. CacheFits'
  BY <1>7, QueriesDoNotPrefetch, CacheKept DEF DnsInv
<1> QED BY <1>4, <1>5, <1>6, <1>7, <1>8, NoFlight

\* A response is stored under the path it came by; a refresh hands it to its query.
LEMMA StoreKeeps ==
  ASSUME DnsInv, NEW s \in Slot, Store(s), scenario' = scenario
  PROVE  DnsInv'
<1>1. /\ job[s].pc = "store" /\ table' = table /\ cell' = cell
      /\ job[s].how \in {"cached", "direct", "prefetch", "refresh"}
  BY DEF Store
<1>2. \A e \in cache' : EntryFits(e) /\ (e.prefetching => e \in cache)
  BY <1>1, StoredKept DEF Store
<1>3. job \in [Slot -> JobRec] /\ job[s] \in JobRec /\ JobFits(s, job[s]) /\ job[s].cell = 0
  BY <1>1 DEF DnsInv, JobsFit, JobFits
<1>4. CASE job[s].how \in {"cached", "direct"}
  <2>1. Set(s, [job[s] EXCEPT !.pc = "fallback"])
    BY <1>4 DEF Store
  <2>2. s[2] = "query"
    BY <1>1, <1>3, <1>4, Pairs DEF JobFits, Background
  <2> QED BY <1>1, <1>2, <2>1, <2>2, FallsBack
<1>5. CASE job[s].how = "prefetch" /\ Failure(job[s].resp)
  <2>1. Set(s, Idle) /\ MarkFailed(job[s].path, job[s].q)
    BY <1>5 DEF Store
  <2>2. ~job[s].q.options
    BY <1>3, <1>5 DEF JobFits
  <2>3. \A t \in Slot : t # s => StillPrefetches(t)
    BY <1>3, <2>1 DEF StillPrefetches, Set
  <2>4. CacheFits'
    BY <2>1, <2>2, <2>3, CacheUnmarked DEF DnsInv
  <2>5. job[s].how # "refresh"
    BY <1>5
  <2> QED BY <1>1, <1>3, <2>1, <2>4, <2>5, EndsKeeps
<1>6. CASE job[s].how = "prefetch" /\ ~Failure(job[s].resp)
  <2>1. PICK r : r = [job[s] EXCEPT !.pc = "clear"]
    OBVIOUS
  <2>2. job' = [job EXCEPT ![s] = r]
    BY <1>6, <2>1 DEF Store, Set
  <2>3. /\ r \in JobRec /\ r.pc = "clear" /\ r.how = "prefetch" /\ r.path = job[s].path
        /\ r.next = job[s].next /\ r.cell = 0 /\ r.q = job[s].q /\ r.resp = job[s].resp
    BY <1>3, <1>6, <2>1 DEF JobRec
  <2>4. s[2] = "task"
    BY <1>3, <1>6, Pairs DEF JobFits, Background
  <2>5. JobFits(s, r)
    BY <1>1, <1>3, <1>6, <2>3, <2>4 DEF JobFits, UnderWay, Background
  <2>6. Pair(job[<<s[1], "query">>], job[s])
    BY <2>4, Pairs DEF DnsInv, OneTask
  <2>7. Pair(job[<<s[1], "query">>], r)
    BY <1>1, <1>6, <2>3, <2>6 DEF Pair
  <2>8. \A t \in Slot : StillPrefetches(t)
    BY <1>3, <2>2, <2>3 DEF StillPrefetches, Prefetches
  <2>9. CacheFits'
    BY <1>2, <2>8, CacheKept DEF DnsInv
  <2>10. s[2] # "query"
    BY <2>4
  <2> QED BY <1>1, <1>3, <2>2, <2>3, <2>5, <2>7, <2>9, <2>10, NoFlight
<1>7. CASE job[s].how = "refresh"
  <2> DEFINE o == <<s[1], "query">>
  <2>1. s[2] = "task" /\ s[1] \in Query /\ s = <<s[1], "task">> /\ o \in Slot /\ o # s
    BY <1>3, <1>7, Pairs DEF JobFits, Background
  <2>2. Pair(job[o], job[s]) /\ job[o] \in JobRec /\ JobFits(o, job[o]) /\ o[2] = "query"
    BY <2>1 DEF DnsInv, OneTask, JobsFit
  <2>3. job[o].pc \in {"idle", "wait", "send"} /\ job[o].cell = 0
    BY <1>1, <2>2 DEF Pair, JobFits, JobRec
  <2>4. PICK r : r = IF job[o].pc = "wait"
                     THEN [job[o] EXCEPT !.pc = "fallback", !.resp = job[s].resp] ELSE job[o]
    OBVIOUS
  <2>5. PICK u : u = Idle
    OBVIOUS
  <2>6. job' = [job EXCEPT ![s] = u, ![o] = r]
    BY <1>7, <2>1, <2>4, <2>5 DEF Store
  <2>7. JobFits(s, u) /\ u.cell = 0 /\ u.pc = "idle"
    BY <2>5, IdleFits
  <2>8. JobFits(o, r) /\ r.cell = 0 /\ r.pc \in {"idle", "fallback", "send"} /\ r.how = job[o].how
    <3>1. CASE job[o].pc = "wait"
      <4>1. job[s].q = job[o].q /\ job[s].path = job[o].path
        BY <2>2, <3>1 DEF Pair
      <4>2. job[s].resp \in Resp
        BY <1>3 DEF JobRec
      <4>3. job[s].resp = None \/ Suits(job[s].resp, job[o].path, job[o].q)
        BY <1>1, <1>3, <4>1 DEF JobFits
      <4>4. /\ r \in JobRec /\ r.pc = "fallback" /\ r.how = job[o].how /\ r.path = job[o].path
            /\ r.next = job[o].next /\ r.cell = 0 /\ r.q = job[o].q /\ r.resp = job[s].resp
        BY <2>2, <2>3, <2>4, <3>1, <4>2 DEF JobRec
      <4>5. JobFits(o, r)
        BY <2>2, <3>1, <4>3, <4>4 DEF JobFits, UnderWay, Background
      <4> QED BY <4>4, <4>5
    <3>2. CASE job[o].pc # "wait"
      BY <2>2, <2>3, <2>4, <3>2
    <3> QED BY <3>1, <3>2
  <2>9. Pair(r, u)
    BY <2>7, <2>8 DEF Pair
  <2>10. \A t \in Slot : StillPrefetches(t)
    <3>1. ~Prefetches(job[s]) /\ ~Prefetches(job[o])
      BY <1>7, <2>2 DEF Prefetches, JobFits, Background
    <3>2. \A t \in Slot : t # s /\ t # o => job'[t] = job[t]
      BY <1>3, <2>6
    <3> QED BY <3>1, <3>2 DEF StillPrefetches
  <2>11. CacheFits'
    BY <1>2, <2>10, CacheKept DEF DnsInv
  <2>12. job' = [job EXCEPT ![<<s[1], "query">>] = r, ![<<s[1], "task">>] = u]
    BY <1>3, <2>1, <2>6
  <2>13. /\ JobFits(<<s[1], "query">>, r) /\ JobFits(<<s[1], "task">>, u)
         /\ job[<<s[1], "query">>].cell = 0 /\ job[<<s[1], "task">>].cell = 0
    BY <1>3, <2>1, <2>3, <2>7, <2>8
  <2> HIDE DEF o
  <2> QED BY <1>1, <2>1, <2>7, <2>8, <2>9, <2>11, <2>12, <2>13, BothSlots
<1> QED BY <1>1, <1>4, <1>5, <1>6, <1>7

\* What the probe brings is stored for the domestic path, or the answer is local.
LEMMA ClassifyKeeps ==
  ASSUME DnsInv, NEW s \in Slot, Classify(s), scenario' = scenario
  PROVE  DnsInv'
<1>1. job[s].pc = "store" /\ table' = table /\ cell' = cell /\ job[s].how = "auto"
  BY DEF Classify
<1>2. job \in [Slot -> JobRec] /\ job[s] \in JobRec /\ JobFits(s, job[s])
  BY DEF DnsInv, JobsFit
<1>3. /\ s[2] = "query" /\ s = <<s[1], "query">> /\ s[1] \in Query
      /\ Task(s) = <<s[1], "task">> /\ Task(s) \in Slot
      /\ Pair(job[s], job[Task(s)]) /\ JobFits(Task(s), job[Task(s)])
  <2>1. s[2] = "query"
    BY <1>1, <1>2, Pairs DEF JobFits, Background
  <2> QED BY <2>1, AtQuery DEF DnsInv
<1>4. /\ job[s].cell = 0 /\ job[s].path = "cn" /\ job[Task(s)].pc = "idle"
      /\ job[Task(s)].cell = 0 /\ job[s].q \in Question /\ job[s].resp \in Resp
      /\ job[s].resp = None \/ Suits(job[s].resp, job[s].path, job[s].q)
  BY <1>1, <1>2, <1>3 DEF JobFits, Pair, JobRec
<1>5. Put("cn", job[s].q, job[s].resp) =>
         \A e \in cache' : EntryFits(e) /\ (e.prefetching => e \in cache)
  <2>1. SUFFICES ASSUME Put("cn", job[s].q, job[s].resp)
                 PROVE  \A e \in cache' : EntryFits(e) /\ (e.prefetching => e \in cache)
    OBVIOUS
  <2>2. CASE job[s].resp = None
    BY <2>1, <2>2, EntriesFit DEF Put, Cacheable, None, DnsInv
  <2>3. CASE job[s].resp # None
    <3>1. job[s].resp.path = "cn" /\ "cn" \in Path
      BY <1>4, <2>3 DEF Suits, Path
    <3> QED BY <1>4, <2>1, <3>1, PutFits DEF DnsInv
  <2> QED BY <2>2, <2>3
<1>6. CASE job[s].resp.kind = "cn"
  <2>1. PICK r : r = Sends(job[s], job[s].resp)
    OBVIOUS
  <2>2. PICK u : u = IF job[s].learns THEN Spawned(s, "verify", "remote", 1) ELSE job[Task(s)]
    OBVIOUS
  <2>3. Put("cn", job[s].q, job[s].resp)
    BY <1>6 DEF Classify
  <2>4. job' = [job EXCEPT ![s] = r, ![Task(s)] = u]
    <3>1. s # Task(s)
      BY <1>3
    <3>2. job' = [job EXCEPT ![s] = Sends(job[s], job[s].resp),
                             ![Task(s)] = IF job[s].learns
                                          THEN Spawned(s, "verify", "remote", 1)
                                          ELSE @]
      BY <1>6 DEF Classify
    <3> QED BY <2>1, <2>2, <3>1, <3>2
  <2>5. JobFits(s, r) /\ r.pc = "send" /\ r.cell = 0
    <3>1. job[s].resp.path \in {"none", "local"} \/ Suits(job[s].resp, job[s].path, job[s].q)
      BY <1>4 DEF None
    <3> QED BY <1>2, <1>3, <1>4, <2>1, <3>1, SendsFits
  <2>6. JobFits(Task(s), u) /\ u.cell = 0
    <3>1. "verify" \in Background /\ "remote" \in Path
      BY DEF Background, Path
    <3> QED BY <1>3, <1>4, <2>2, <3>1, SpawnedFits DEF DnsInv
  <2>7. Pair(r, u)
    BY <2>5 DEF Pair
  <2>8. \A t \in Slot : StillPrefetches(t)
    <3>1. ~Prefetches(job[s]) /\ ~Prefetches(job[Task(s)])
      BY <1>1, <1>4 DEF Prefetches
    <3>2. \A t \in Slot : t # s /\ t # Task(s) => job'[t] = job[t]
      BY <1>2, <2>4
    <3> QED BY <3>1, <3>2 DEF StillPrefetches
  <2>9. CacheFits'
    BY <1>5, <2>3, <2>8, CacheKept DEF DnsInv
  <2>10. /\ job' = [job EXCEPT ![<<s[1], "query">>] = r, ![<<s[1], "task">>] = u]
         /\ JobFits(<<s[1], "query">>, r) /\ JobFits(<<s[1], "task">>, u)
         /\ job[<<s[1], "query">>].cell = 0 /\ job[<<s[1], "task">>].cell = 0
    BY <1>3, <1>4, <2>4, <2>5, <2>6
  <2> QED BY <1>1, <1>3, <2>5, <2>6, <2>7, <2>9, <2>10, BothSlots
<1>7. CASE job[s].resp.kind = "foreign"
  <2>1. Done(s, FakeAnswer(job[s].q)) /\ cache' = cache
    BY <1>7 DEF Classify
  <2>2. PICK a : a = FakeAnswer(job[s].q)
    OBVIOUS
  <2>3. a \in Resp /\ a.path = "local"
    BY <2>2 DEF FakeAnswer, Local, Resp
  <2>4. CacheFits'
    BY <1>3, <2>1, QueriesDoNotPrefetch, CacheAlone DEF DnsInv, Done, Set
  <2>5. Done(s, a)
    BY <2>1, <2>2
  <2> QED BY <1>1, <1>3, <1>4, <2>3, <2>4, <2>5, SendsKeeps
<1>8. CASE job[s].resp.kind \notin {"cn", "foreign"}
  <2>1. Put("cn", job[s].q, job[s].resp) /\ Set(s, [job[s] EXCEPT !.pc = "fallback"])
    BY <1>8 DEF Classify
  <2> QED BY <1>1, <1>3, <1>5, <2>1, FallsBack
<1> QED BY <1>6, <1>7, <1>8

-----------------------------------------------------------------------------
(* The flights.                                                            *)

\* There are as many cells as slots, so that one is free for whoever holds none.
LEMMA CellFree ==
  ASSUME JobsFit, FlightsFit, NEW s \in Slot, job[s].cell = 0
  PROVE  Free # {}
<1> DEFINE used == {job[t].cell : t \in Slot \ {s}}
           f == [t \in Slot \ {s} |-> job[t].cell]
           kinds == {"query", "task"}
           g == [n \in Query |-> <<n, "query">>]
           h == [n \in Query |-> <<n, "task">>]
           Qs == Query \X {"query"}
           Ts == Query \X {"task"}
<1>1. IsFiniteSet(Query) /\ Cardinality(Query) \in Nat
  BY DnsAssumption, FS_CardinalityType
<1>2. IsFiniteSet(Qs) /\ Cardinality(Qs) <= Cardinality(Query)
  <2>1. g \in [Query -> Qs]
    OBVIOUS
  <2>2. \A t \in Qs : \E n \in Query : g[n] = t
    <3>1. SUFFICES ASSUME NEW n \in Query PROVE \E m \in Query : g[m] = <<n, "query">>
      OBVIOUS
    <3>2. g[n] = <<n, "query">>
      OBVIOUS
    <3> QED BY <3>2
  <2>3. g \in Surjection(Query, Qs)
    BY <2>1, <2>2, Zenon DEF Surjection
  <2> QED BY <1>1, <2>3, FS_Surjection
<1>3. IsFiniteSet(Ts) /\ Cardinality(Ts) <= Cardinality(Query)
  <2>1. h \in [Query -> Ts]
    OBVIOUS
  <2>2. \A t \in Ts : \E n \in Query : h[n] = t
    <3>1. SUFFICES ASSUME NEW n \in Query PROVE \E m \in Query : h[m] = <<n, "task">>
      OBVIOUS
    <3>2. h[n] = <<n, "task">>
      OBVIOUS
    <3> QED BY <3>2
  <2>3. h \in Surjection(Query, Ts)
    BY <2>1, <2>2, Zenon DEF Surjection
  <2> QED BY <1>1, <2>3, FS_Surjection
<1>4. IsFiniteSet(Slot) /\ Cardinality(Slot) <= 2 * Cardinality(Query)
  <2>1. Slot = Qs \cup Ts
    BY DEF Slot
  <2>2. IsFiniteSet(Qs \cap Ts) /\ Cardinality(Qs \cap Ts) \in Nat
    <3>1. IsFiniteSet(Qs \cap Ts)
      BY <1>2, FS_Intersection
    <3> QED BY <3>1, FS_CardinalityType
  <2>3. IsFiniteSet(Qs \cup Ts)
        /\ Cardinality(Qs \cup Ts) = Cardinality(Qs) + Cardinality(Ts) - Cardinality(Qs \cap Ts)
    BY <1>2, <1>3, FS_Union
  <2>4. Cardinality(Qs) \in Nat /\ Cardinality(Ts) \in Nat
    BY <1>2, <1>3, FS_CardinalityType
  <2>5. \A a, b, d, m \in Nat : a <= m /\ b <= m => a + b - d <= 2 * m
    OBVIOUS
  <2> HIDE DEF Qs, Ts
  <2>6. Cardinality(Slot) <= 2 * Cardinality(Query)
    BY <1>1, <1>2, <1>3, <2>1, <2>2, <2>3, <2>4, <2>5
  <2> QED BY <2>1, <2>3, <2>6
<1>5. IsFiniteSet(Slot \ {s}) /\ Cardinality(Slot \ {s}) = Cardinality(Slot) - 1
      /\ Cardinality(Slot) \in Nat
  <2>1. Cardinality(Slot) \in Nat
    BY <1>4, FS_CardinalityType
  <2> QED BY <1>4, <2>1, FS_RemoveElement
<1>6. IsFiniteSet(used) /\ Cardinality(used) <= Cardinality(Slot) - 1
      /\ Cardinality(used) \in Nat
  <2>1. f \in Surjection(Slot \ {s}, used)
    BY DEF Surjection
  <2>2. IsFiniteSet(used) /\ Cardinality(used) <= Cardinality(Slot \ {s})
    BY <1>5, <2>1, FS_Surjection
  <2>3. Cardinality(used) \in Nat
    BY <2>2, FS_CardinalityType
  <2> QED BY <1>5, <2>2, <2>3
<1>7. IsFiniteSet(Cell) /\ Cardinality(Cell) = 2 * Cardinality(Query)
  <2>1. PICK m \in Nat : m = 2 * Cardinality(Query)
    BY <1>1
  <2>2. IsFiniteSet(1..m) /\ Cardinality(1..m) = IF 1 > m THEN 0 ELSE m - 1 + 1
    BY FS_Interval
  <2>3. Cardinality(1..m) = m
    BY <2>1, <2>2
  <2> QED BY <2>1, <2>2, <2>3 DEF Cell
<1>8. ~(Cell \subseteq used)
  <2>1. SUFFICES ASSUME Cell \subseteq used PROVE FALSE
    OBVIOUS
  <2> HIDE DEF used
  <2>2. Cell \in SUBSET used
    BY <2>1
  <2>3. Cardinality(Cell) <= Cardinality(used)
    BY <1>6, <2>2, FS_Subset
  <2> QED BY <1>1, <1>4, <1>5, <1>6, <1>7, <2>3
<1>9. PICK c \in Cell : c \notin used
  BY <1>8
<1>10. c # 0
  BY <1>1 DEF Cell
<1>11. Holders(c) = {}
  BY <1>9, <1>10 DEF Holders
<1>12. \A k \in DOMAIN table : table[k] # c
  BY <1>10, <1>11 DEF FlightsFit
<1> QED BY <1>11, <1>12 DEF Free

\* An empty cell belongs to nobody.
LEMMA NoCellFits ==
  NoCell \in CellRec /\ NoCell.done = FALSE /\ NoCell.key = <<>> /\ NoCell.runner = <<>>
<1>1. None \in Resp
  BY DEF None, Resp
<1> QED BY <1>1 DEF NoCell, CellRec

\* Who holds a flight fetches, and the flight is for what it asks.
LEMMA AtFlight ==
  ASSUME JobsFit, FlightsFit, NEW s \in Slot, job[s].cell # 0
  PROVE  /\ job[s] \in JobRec /\ JobFits(s, job[s]) /\ job[s].pc = "fetch"
         /\ job[s].cell \in Cell /\ job[s].path \in Path /\ job[s].q \in Question
         /\ cell[job[s].cell] \in CellRec
         /\ cell[job[s].cell].key = FlightKey(job[s])
         /\ FlightKey(job[s])[3] = job[s].q.size
         /\ PathTo(FlightKey(job[s])[4]) = job[s].path
         /\ FlightKey(job[s])[4] = "cn" <=> job[s].path = "cn"
         /\ FlightKey(job[s]) \in FlightKeys
<1>1. job[s] \in JobRec /\ JobFits(s, job[s]) /\ job[s].pc = "fetch"
  BY DEF JobsFit, JobFits
<1>2. /\ job[s].path \in Path /\ job[s].cell \in Cell /\ job[s].q \in Question
      /\ job[s].path = "remote" => job[s].next \in 1..Len(RemoteServers)
  BY <1>1 DEF JobFits, UnderWay, JobRec
<1>3. Server(job[s]) \in Upstream /\ (Server(job[s]) = "cn" <=> job[s].path = "cn")
  BY <1>2, DnsAssumption DEF Server, Upstream, Path
<1>4. FlightKey(job[s])[4] = Server(job[s]) /\ FlightKey(job[s])[3] = job[s].q.size
  BY DEF FlightKey
<1>5. FlightKey(job[s]) \in FlightKeys
  BY <1>2, <1>3 DEF FlightKey, FlightKeys
<1>6. cell[job[s].cell] \in CellRec /\ cell[job[s].cell].key = FlightKey(job[s])
  BY <1>2 DEF FlightsFit
<1>7. PathTo(Server(job[s])) = job[s].path
  BY <1>2, <1>3 DEF PathTo, Path
<1> QED BY <1>1, <1>2, <1>3, <1>4, <1>5, <1>6, <1>7

\* A holder goes, and takes what only he held with him.
LEMMA Departs ==
  ASSUME JobsFit, FlightsFit, NEW s \in Slot, NEW r, job' = [job EXCEPT ![s] = r], r.cell = 0,
         job[s].cell # 0, table' = Removed(s),
         \/ cell' = Freed(s)
         \/ /\ Holders(job[s].cell) # {s}
            /\ cell' = [cell EXCEPT ![job[s].cell].runner = <<>>]
  PROVE  FlightsFit'
<1>1. PICK c \in Cell : c = job[s].cell
  BY AtFlight
<1>2. /\ cell \in [Cell -> CellRec] /\ table \in [FlightKeys -> Cell \cup {0}]
      /\ job \in [Slot -> JobRec]
  BY DEF FlightsFit, JobsFit
<1>3. c # 0
  BY <1>1
<1>4. \A t \in Slot : t # s => job'[t] = job[t]
  BY <1>2
<1>5. job'[s].cell = 0
  BY <1>2
<1>6. \A d \in Cell : d # c => cell'[d] = cell[d]
  BY <1>1, <1>2 DEF Freed
<1>7. Holders(c) # {s} => /\ cell'[c].key = cell[c].key /\ cell'[c].done = cell[c].done
                          /\ cell'[c].resp = cell[c].resp /\ cell'[c] \in CellRec
                          /\ cell'[c].runner \in {cell[c].runner, <<>>}
  BY <1>1, <1>2 DEF Freed, CellRec
<1>8. Holders(c) = {s} => cell'[c] = NoCell
  BY <1>1, <1>2 DEF Freed
<1>9. cell' \in [Cell -> CellRec]
  <2>1. \A d \in Cell : cell'[d] \in CellRec
    BY <1>2, <1>6, <1>7, <1>8, NoCellFits
  <2>2. cell' = [d \in Cell |-> cell'[d]]
    BY <1>2 DEF Freed
  <2> QED BY <2>1, <2>2
<1>10. /\ table' = [k \in FlightKeys |-> table'[k]]
       /\ \A k \in FlightKeys :
            table'[k] = IF table[k] = c /\ (cell[c].done \/ Holders(c) = {s}) THEN 0 ELSE table[k]
  BY <1>1, <1>2 DEF Removed
<1>11. table' \in [FlightKeys -> Cell \cup {0}]
  BY <1>2, <1>10
<1>12. \A d \in Cell : cell'[d].done =>
       /\ cell'[d].runner = <<>>
       /\ cell'[d].resp = None \/
            (/\ cell'[d].resp.path = PathTo(cell'[d].key[4])
             /\ cell'[d].resp.kind \in {"cn", "foreign", "neg", "trunc", "servfail"}
             /\ cell'[d].key[4] = "cn" /\ ~CnOverTcp => cell'[d].resp.len <= cell'[d].key[3])
  <2>1. SUFFICES ASSUME NEW d \in Cell, cell'[d].done
                 PROVE  /\ cell'[d].runner = <<>>
                        /\ cell'[d].resp = None \/
                            (/\ cell'[d].resp.path = PathTo(cell'[d].key[4])
                             /\ cell'[d].resp.kind \in {"cn", "foreign", "neg", "trunc", "servfail"}
                             /\ cell'[d].key[4] = "cn" /\ ~CnOverTcp
                                  => cell'[d].resp.len <= cell'[d].key[3])
    OBVIOUS
  <2>2. cell[d].done /\ cell'[d].resp = cell[d].resp /\ cell'[d].key = cell[d].key
        /\ cell'[d].runner \in {cell[d].runner, <<>>}
    BY <1>6, <1>7, <1>8, <2>1, NoCellFits
  <2> QED BY <2>2 DEF FlightsFit
<1>13. \A t \in Slot : job'[t].cell # 0 => cell'[job'[t].cell].key = FlightKey(job'[t])
  <2>1. SUFFICES ASSUME NEW t \in Slot, job'[t].cell # 0
                 PROVE  cell'[job'[t].cell].key = FlightKey(job'[t])
    OBVIOUS
  <2>2. t # s /\ job'[t] = job[t]
    BY <1>4, <1>5, <2>1
  <2>3. job[t].cell \in Cell /\ cell[job[t].cell].key = FlightKey(job[t])
    BY <2>1, <2>2, AtFlight
  <2>4. job[t].cell = c => Holders(c) # {s}
    BY <2>2 DEF Holders
  <2> QED BY <1>6, <1>7, <2>2, <2>3, <2>4
<1>14. (\A k \in FlightKeys : table[k] # 0 => cell[table[k]].key = k /\ Holders(table[k]) # {})'
  <2>1. SUFFICES ASSUME NEW k \in FlightKeys, (table[k])' # 0
                 PROVE  (cell[table[k]].key = k /\ Holders(table[k]) # {})'
    OBVIOUS
  <2>2. PICK d \in Cell : d = table[k] /\ d = table'[k]
                          /\ ~(d = c /\ (cell[c].done \/ Holders(c) = {s}))
    BY <1>2, <1>10, <2>1
  <2>3. cell[d].key = k /\ Holders(d) # {} /\ d # 0
    BY <1>10, <2>1, <2>2 DEF FlightsFit
  <2>4. cell'[d].key = k
    BY <1>6, <1>7, <2>2, <2>3
  <2>5. PICK t \in Slot : t # s /\ job[t].cell = d
    <3>1. CASE d = c
      <4>1. s \in Holders(c)
        BY <1>1 DEF Holders
      <4>2. PICK t \in Holders(c) : t # s
        BY <2>2, <3>1, <4>1
      <4> QED BY <3>1, <4>2 DEF Holders
    <3>2. CASE d # c
      BY <1>1, <2>3, <3>2 DEF Holders
    <3> QED BY <3>1, <3>2
  <2>6. job'[t].cell = d
    BY <1>4, <2>5
  <2>7. Holders(d)' # {}
    BY <2>6 DEF Holders
  <2> QED BY <2>2, <2>4, <2>7
<1>15. \A t \in Slot : job'[t].cell # 0 /\ ~job'[t].q.options /\ ~cell'[job'[t].cell].done =>
         table'[cell'[job'[t].cell].key] = job'[t].cell
  <2>1. SUFFICES ASSUME NEW t \in Slot, job'[t].cell # 0, ~job'[t].q.options,
                        ~cell'[job'[t].cell].done
                 PROVE  table'[cell'[job'[t].cell].key] = job'[t].cell
    OBVIOUS
  <2>2. t # s /\ job'[t] = job[t]
    BY <1>4, <1>5, <2>1
  <2>3. PICK d \in Cell : d = job[t].cell
    BY <2>1, <2>2, AtFlight
  <2>4. d = c => Holders(c) # {s}
    BY <2>2, <2>3 DEF Holders
  <2>5. cell'[d].key = cell[d].key /\ cell'[d].done = cell[d].done
    BY <1>6, <1>7, <2>4
  <2>6. table[cell[d].key] = d /\ cell[d].key \in FlightKeys
    <3>1. cell[d].key = FlightKey(job[t]) /\ FlightKey(job[t]) \in FlightKeys
      BY <2>1, <2>2, <2>3, AtFlight
    <3> QED BY <2>1, <2>2, <2>3, <2>5, <3>1 DEF FlightsFit
  <2>7. table'[cell[d].key] = d
    BY <1>10, <2>1, <2>2, <2>3, <2>4, <2>5, <2>6
  <2> QED BY <2>2, <2>3, <2>5, <2>7
<1> QED BY <1>9, <1>11, <1>12, <1>13, <1>14, <1>15 DEF FlightsFit

\* A question joins the flight of its key, or leads one in a cell that is free.
LEMMA JoinKeeps ==
  ASSUME DnsInv, NEW s \in Slot, Join(s), scenario' = scenario
  PROVE  DnsInv'
<1>1. job[s].pc = "fetch" /\ job[s].cell = 0 /\ cache' = cache
  BY DEF Join
<1>2. /\ cell \in [Cell -> CellRec] /\ table \in [FlightKeys -> Cell \cup {0}]
      /\ job \in [Slot -> JobRec] /\ job[s] \in JobRec /\ JobFits(s, job[s])
  BY DEF DnsInv, FlightsFit, JobsFit
<1>3. PICK k : k = FlightKey(job[s])
  OBVIOUS
<1>4. k \in FlightKeys
  <2>1. /\ job[s].path \in Path /\ job[s].q \in Question
        /\ job[s].path = "remote" => job[s].next \in 1..Len(RemoteServers)
    BY <1>1, <1>2 DEF JobFits, UnderWay, JobRec
  <2>2. Server(job[s]) \in Upstream
    BY <2>1 DEF Server, Upstream, Path
  <2> QED BY <1>3, <2>1, <2>2 DEF FlightKey, FlightKeys
<1>5. PICK d \in Cell :
        /\ job' = [job EXCEPT ![s] = [job[s] EXCEPT !.cell = d]]
        /\ \/ /\ ~job[s].q.options /\ table[k] # 0 /\ d = table[k]
              /\ table' = table /\ cell' = cell
           \/ /\ job[s].q.options \/ table[k] = 0
              /\ d \in Free
              /\ table' = IF job[s].q.options THEN table ELSE [table EXCEPT ![k] = d]
              /\ cell' = [cell EXCEPT ![d] = [NoCell EXCEPT !.key = k, !.runner = s]]
  <2>1. CASE ~job[s].q.options /\ table[k] # 0
    <3>1. table[k] \in Cell
      BY <1>2, <1>4, <2>1
    <3>2. Set(s, [job[s] EXCEPT !.cell = table[k]]) /\ table' = table /\ cell' = cell
      BY <1>3, <2>1 DEF Join
    <3> QED BY <2>1, <3>1, <3>2 DEF Set
  <2>2. CASE job[s].q.options \/ table[k] = 0
    <3>1. PICK d : d = CHOOSE c \in Free : TRUE
      OBVIOUS
    <3>2. d \in Free
      BY <1>1, <3>1, CellFree DEF DnsInv
    <3>3. d \in Cell
      BY <3>2 DEF Free
    <3>4. /\ Set(s, [job[s] EXCEPT !.cell = d])
          /\ table' = IF job[s].q.options THEN table ELSE [table EXCEPT ![k] = d]
          /\ cell' = [cell EXCEPT ![d] = [NoCell EXCEPT !.key = k, !.runner = s]]
      BY <1>3, <2>2, <3>1 DEF Join
    <3> QED BY <2>2, <3>2, <3>3, <3>4 DEF Set
  <2> QED BY <2>1, <2>2
<1>6. PICK r : r = [job[s] EXCEPT !.cell = d]
  OBVIOUS
<1>7. /\ r \in JobRec /\ r.pc = "fetch" /\ r.how = job[s].how /\ r.path = job[s].path
      /\ r.next = job[s].next /\ r.cell = d /\ r.q = job[s].q /\ r.resp = job[s].resp
  BY <1>1, <1>2, <1>6 DEF JobRec
<1>8. job' = [job EXCEPT ![s] = r]
  BY <1>5, <1>6
<1>9. JobsFit' /\ OneTask'
  <2>1. JobFits(s, r)
    BY <1>1, <1>2, <1>7 DEF JobFits, UnderWay, Background
  <2>2. s[2] = "query" => Pair(r, job[Task(s)])
    <3>1. SUFFICES ASSUME s[2] = "query" PROVE Pair(r, job[Task(s)])
      OBVIOUS
    <3>2. Pair(job[s], job[Task(s)])
      BY <3>1, AtQuery DEF DnsInv
    <3> QED BY <1>1, <1>7, <3>2 DEF Pair
  <2>3. s[2] = "task" => Pair(job[<<s[1], "query">>], r)
    <3>1. SUFFICES ASSUME s[2] = "task" PROVE Pair(job[<<s[1], "query">>], r)
      OBVIOUS
    <3>2. Pair(job[<<s[1], "query">>], job[s])
      BY <3>1, Pairs DEF DnsInv, OneTask
    <3> QED BY <1>1, <1>7, <3>2 DEF Pair
  <2> QED BY <1>8, <2>1, <2>2, <2>3, OneSlot DEF DnsInv
<1>10. CacheFits'
  <2>1. \A t \in Slot : StillPrefetches(t)
    BY <1>1, <1>2, <1>7, <1>8 DEF StillPrefetches, Prefetches
  <2> QED BY <1>1, <2>1, CacheAlone DEF DnsInv
<1>11. job'[s] = r /\ \A t \in Slot : t # s => job'[t] = job[t]
  BY <1>2, <1>8
<1>12. FlightKey(r) = k
  BY <1>3, <1>7 DEF FlightKey, Server
<1>13. d # 0
  BY DnsAssumption, FS_CardinalityType DEF Cell
<1>14. CASE ~job[s].q.options /\ table[k] # 0 /\ d = table[k] /\ table' = table /\ cell' = cell
  <2>1. cell[d].key = k
    BY <1>4, <1>14 DEF DnsInv, FlightsFit
  <2>2. \A t \in Slot : job'[t].cell # 0 => cell'[job'[t].cell].key = FlightKey(job'[t])
    BY <1>7, <1>11, <1>12, <1>14, <2>1 DEF DnsInv, FlightsFit
  <2>3. (\A x \in FlightKeys : table[x] # 0 => cell[table[x]].key = x /\ Holders(table[x]) # {})'
    <3>1. SUFFICES ASSUME NEW x \in FlightKeys, table[x] # 0
                   PROVE  cell[table[x]].key = x /\ Holders(table[x])' # {}
      BY <1>14
    <3>2. cell[table[x]].key = x /\ Holders(table[x]) # {}
      BY <3>1 DEF DnsInv, FlightsFit
    <3>3. PICK t \in Slot : job[t].cell = table[x]
      BY <3>2 DEF Holders
    <3>4. job'[t].cell = table[x] /\ table'[x] = table[x]
      BY <1>1, <1>11, <1>14, <3>1, <3>3
    <3> QED BY <3>2, <3>4 DEF Holders
  <2>4. \A t \in Slot : job'[t].cell # 0 /\ ~job'[t].q.options /\ ~cell'[job'[t].cell].done =>
           table'[cell'[job'[t].cell].key] = job'[t].cell
    BY <1>7, <1>11, <1>14, <2>1 DEF DnsInv, FlightsFit
  <2>5. FlightsFit'
    BY <1>14, <2>2, <2>3, <2>4 DEF DnsInv, FlightsFit
  <2> QED BY <1>9, <1>10, <2>5 DEF DnsInv
<1>15. CASE /\ job[s].q.options \/ table[k] = 0
            /\ d \in Free
            /\ table' = IF job[s].q.options THEN table ELSE [table EXCEPT ![k] = d]
            /\ cell' = [cell EXCEPT ![d] = [NoCell EXCEPT !.key = k, !.runner = s]]
  <2>1. /\ \A t \in Slot : job[t].cell # d
        /\ \A x \in FlightKeys : table[x] # d
    BY <1>2, <1>15 DEF Free, Holders
  <2>2. PICK n : n = [NoCell EXCEPT !.key = k, !.runner = s]
    OBVIOUS
  <2>3. n \in CellRec /\ n.key = k /\ n.done = FALSE /\ n.runner = s
    BY <1>4, <2>2, NoCellFits DEF CellRec
  <2>4. cell'[d] = n /\ \A x \in Cell : x # d => cell'[x] = cell[x]
    BY <1>2, <1>15, <2>2
  <2>5. cell' \in [Cell -> CellRec]
    BY <1>2, <1>15, <2>2, <2>3
  <2>6. table' \in [FlightKeys -> Cell \cup {0}]
    BY <1>2, <1>4, <1>15
  <2>7. \A x \in Cell : cell'[x].done =>
         /\ cell'[x].runner = <<>>
         /\ cell'[x].resp = None \/
            (/\ cell'[x].resp.path = PathTo(cell'[x].key[4])
             /\ cell'[x].resp.kind \in {"cn", "foreign", "neg", "trunc", "servfail"}
             /\ cell'[x].key[4] = "cn" /\ ~CnOverTcp => cell'[x].resp.len <= cell'[x].key[3])
    BY <2>3, <2>4 DEF DnsInv, FlightsFit
  <2>8. \A t \in Slot : t # s /\ job[t].cell # 0 => job[t].cell \in Cell /\ job[t].cell # d
    BY <2>1, AtFlight DEF DnsInv
  <2>9. \A t \in Slot : job'[t].cell # 0 => cell'[job'[t].cell].key = FlightKey(job'[t])
    BY <1>7, <1>11, <1>12, <2>3, <2>4, <2>8 DEF DnsInv, FlightsFit
  <2>10. (\A x \in FlightKeys : table[x] # 0 => cell[table[x]].key = x /\ Holders(table[x]) # {})'
    <3>1. SUFFICES ASSUME NEW x \in FlightKeys, (table[x])' # 0
                   PROVE  (cell[table[x]].key = x /\ Holders(table[x]) # {})'
      OBVIOUS
    <3>2. CASE table'[x] = d
      <4>1. x = k
        BY <1>2, <1>15, <2>1, <3>2
      <4>2. job'[s].cell = d
        BY <1>7, <1>11
      <4>3. Holders(d)' # {}
        BY <4>2 DEF Holders
      <4> QED BY <2>3, <2>4, <3>2, <4>1, <4>3
    <3>3. CASE table'[x] # d
      <4>1. PICK e \in Cell : e = table[x] /\ e = table'[x] /\ e # d /\ e # 0
        BY <1>2, <1>15, <3>1, <3>3
      <4>2. cell[e].key = x /\ Holders(e) # {}
        BY <4>1 DEF DnsInv, FlightsFit
      <4>3. PICK t \in Slot : job[t].cell = e
        BY <4>2 DEF Holders
      <4>4. job'[t].cell = e
        BY <1>1, <1>11, <4>1, <4>3
      <4>5. Holders(e)' # {}
        BY <4>4 DEF Holders
      <4> QED BY <2>4, <4>1, <4>2, <4>5
    <3> QED BY <3>2, <3>3
  <2>11. \A t \in Slot : job'[t].cell # 0 /\ ~job'[t].q.options /\ ~cell'[job'[t].cell].done =>
           table'[cell'[job'[t].cell].key] = job'[t].cell
    <3>1. SUFFICES ASSUME NEW t \in Slot, job'[t].cell # 0, ~job'[t].q.options,
                          ~cell'[job'[t].cell].done
                   PROVE  table'[cell'[job'[t].cell].key] = job'[t].cell
      OBVIOUS
    <3>2. CASE t = s
      <4>1. ~job[s].q.options /\ job'[t].cell = d
        BY <1>7, <1>11, <3>1, <3>2
      <4>2. table'[k] = d
        BY <1>2, <1>4, <1>15, <4>1
      <4> QED BY <2>3, <2>4, <4>1, <4>2
    <3>3. CASE t # s
      <4>1. PICK e \in Cell : e = job[t].cell /\ e # d /\ e # 0 /\ job'[t] = job[t]
        BY <1>11, <2>8, <3>1, <3>3
      <4>2. ~cell[e].done /\ cell'[e] = cell[e]
        BY <2>4, <3>1, <4>1
      <4>3. table[cell[e].key] = e
        BY <3>1, <4>1, <4>2 DEF DnsInv, FlightsFit
      <4>4. cell[e].key \in FlightKeys
        BY <4>1, AtFlight DEF DnsInv
      <4>5. cell[e].key = k => job[s].q.options
        BY <1>15, <4>1, <4>3
      <4>6. table'[cell[e].key] = e
        BY <1>2, <1>15, <4>3, <4>4, <4>5
      <4> QED BY <4>1, <4>2, <4>6
    <3> QED BY <3>2, <3>3
  <2>12. FlightsFit'
    BY <2>5, <2>6, <2>7, <2>9, <2>10, <2>11 DEF FlightsFit
  <2> QED BY <1>9, <1>10, <2>12 DEF DnsInv
<1> QED BY <1>5, <1>14, <1>15

\* The jobs stay, and so does what is known of the cells but the one that changes.
LEMMA CellChanges ==
  ASSUME DnsInv, NEW s \in Slot, job[s].cell # 0, NEW n \in CellRec,
         scenario' = scenario, job' = job, table' = table, cache' = cache,
         ~cell[job[s].cell].done, cell' = [cell EXCEPT ![job[s].cell] = n],
         n.key = cell[job[s].cell].key,
         n.done =>
           /\ n.runner = <<>>
           /\ n.resp = None \/
                (/\ n.resp.path = PathTo(n.key[4])
                 /\ n.resp.kind \in {"cn", "foreign", "neg", "trunc", "servfail"}
                 /\ n.key[4] = "cn" /\ ~CnOverTcp => n.resp.len <= n.key[3])
  PROVE  DnsInv'
<1>1. PICK c \in Cell : c = job[s].cell
  BY AtFlight DEF DnsInv
<1>2. /\ cell \in [Cell -> CellRec] /\ table \in [FlightKeys -> Cell \cup {0}]
  BY DEF DnsInv, FlightsFit
<1>3. cell'[c] = n /\ (\A x \in Cell : x # c => cell'[x] = cell[x]) /\ cell' \in [Cell -> CellRec]
  BY <1>1, <1>2
<1>4. \A x \in Cell : cell'[x].key = cell[x].key /\ (~cell'[x].done => ~cell[x].done)
  BY <1>1, <1>3
<1>5. \A t \in Slot : job[t].cell # 0 => job[t].cell \in Cell
  BY AtFlight DEF DnsInv
<1>6. \A x \in Cell : cell'[x].done =>
         /\ cell'[x].runner = <<>>
         /\ cell'[x].resp = None \/
            (/\ cell'[x].resp.path = PathTo(cell'[x].key[4])
             /\ cell'[x].resp.kind \in {"cn", "foreign", "neg", "trunc", "servfail"}
             /\ cell'[x].key[4] = "cn" /\ ~CnOverTcp => cell'[x].resp.len <= cell'[x].key[3])
  BY <1>3 DEF DnsInv, FlightsFit
<1>7. \A t \in Slot : job'[t].cell # 0 => cell'[job'[t].cell].key = FlightKey(job'[t])
  BY <1>4, <1>5 DEF DnsInv, FlightsFit
<1>8. (\A x \in FlightKeys : table[x] # 0 => cell[table[x]].key = x /\ Holders(table[x]) # {})'
  <2>1. SUFFICES ASSUME NEW x \in FlightKeys, table[x] # 0
                 PROVE  cell'[table[x]].key = x /\ Holders(table[x])' # {}
    OBVIOUS
  <2>2. table[x] \in Cell /\ cell[table[x]].key = x /\ Holders(table[x]) # {}
    BY <1>2, <2>1 DEF DnsInv, FlightsFit
  <2>3. \A y \in Cell : Holders(y)' = Holders(y)
    BY DEF Holders
  <2> QED BY <1>4, <2>2, <2>3 DEF Holders
<1>9. \A t \in Slot : job'[t].cell # 0 /\ ~job'[t].q.options /\ ~cell'[job'[t].cell].done =>
         table'[cell'[job'[t].cell].key] = job'[t].cell
  BY <1>4, <1>5 DEF DnsInv, FlightsFit
<1>10. FlightsFit'
  BY <1>2, <1>3, <1>6, <1>7, <1>8, <1>9 DEF FlightsFit
<1>11. JobsFit' /\ OneTask'
  BY DEF DnsInv, JobsFit, OneTask
<1>12. CacheFits'
  <2>1. \A t \in Slot : StillPrefetches(t)
    BY DEF StillPrefetches
  <2> QED BY <2>1, CacheAlone DEF DnsInv
<1> QED BY <1>10, <1>11, <1>12 DEF DnsInv

\* One who waits takes over a flight whose leader was cancelled, with its key.
LEMMA TakeOverKeeps ==
  ASSUME DnsInv, NEW s \in Slot, TakeOver(s), scenario' = scenario
  PROVE  DnsInv'
<1>1. /\ job[s].cell # 0 /\ ~cell[job[s].cell].done /\ job' = job /\ table' = table
      /\ cache' = cache /\ cell' = [cell EXCEPT ![job[s].cell].runner = s]
  BY DEF TakeOver
<1>2. job[s].cell \in Cell /\ cell[job[s].cell] \in CellRec /\ cell \in [Cell -> CellRec]
  BY <1>1, AtFlight DEF DnsInv, FlightsFit
<1>3. PICK n : n = [cell[job[s].cell] EXCEPT !.runner = s]
  OBVIOUS
<1>4. n \in CellRec /\ n.key = cell[job[s].cell].key /\ ~n.done
  BY <1>1, <1>2, <1>3 DEF CellRec
<1>5. cell' = [cell EXCEPT ![job[s].cell] = n]
  BY <1>1, <1>2, <1>3
<1> QED BY <1>1, <1>4, <1>5, CellChanges

\* A flight brings a response along the path of its key.
LEMMA ReplyKeeps ==
  ASSUME DnsInv, NEW s \in Slot, Reply(s), scenario' = scenario
  PROVE  DnsInv'
<1>1. /\ job[s].cell # 0 /\ cell[job[s].cell].runner = s /\ job' = job /\ table' = table
      /\ cache' = cache
  BY DEF Reply
<1>2. /\ job[s].cell \in Cell /\ cell[job[s].cell] \in CellRec /\ cell \in [Cell -> CellRec]
      /\ cell[job[s].cell].key = FlightKey(job[s]) /\ FlightKey(job[s])[3] = job[s].q.size
      /\ PathTo(FlightKey(job[s])[4]) = job[s].path /\ job[s].q \in Question
      /\ FlightKey(job[s])[4] = "cn" <=> job[s].path = "cn"
  BY <1>1, AtFlight DEF DnsInv, FlightsFit
<1>3. ~cell[job[s].cell].done
  BY <1>1, <1>2, Pairs DEF DnsInv, FlightsFit
<1>4. PICK r : /\ r \in IF cell[job[s].cell].key[4] = "cn" THEN DirectQueryOnce(job[s].q)
                        ELSE DnsOverTunnelOnce(job[s].q)
               /\ cell' = [cell EXCEPT ![job[s].cell] =
                             [@ EXCEPT !.runner = <<>>, !.done = TRUE, !.resp = r]]
  BY DEF Reply
<1>5. /\ r \in Resp
      /\ r = None \/
           (/\ r.path = PathTo(cell[job[s].cell].key[4])
            /\ r.kind \in {"cn", "foreign", "neg", "trunc", "servfail"}
            /\ cell[job[s].cell].key[4] = "cn" /\ ~CnOverTcp =>
                  r.len <= cell[job[s].cell].key[3])
  <2>1. None \in Resp
    BY DEF None, Resp
  <2>2. {p.size : p \in Question} \subseteq Nat /\ 1..job[s].q.size \subseteq Nat
        /\ job[s].q.size \in Nat \ {0}
    BY <1>2, DnsAssumption
  <2>3. ASSUME NEW path \in {"cn", "remote"}, NEW lens \in SUBSET Nat, r \in Responses(path, lens)
        PROVE  r \in Resp /\ (r = None \/ (/\ r.path = path /\ (r.len \in lens \/ r.len = 1)
                               /\ r.kind \in {"cn", "foreign", "neg", "trunc", "servfail"}))
    <3>1. CASE r = None
      BY <2>1, <3>1
    <3>2. CASE r \in [kind : {"cn", "foreign"}, path : {path}, len : lens]
      BY <3>2 DEF Resp
    <3>3. CASE r \in [kind : {"neg", "trunc", "servfail"}, path : {path}, len : {1}]
      BY <3>3 DEF Resp
    <3> QED BY <2>3, <3>1, <3>2, <3>3 DEF Responses
  <2>4. CASE cell[job[s].cell].key[4] = "cn"
    <3>1. r \in DirectQueryOnce(job[s].q)
      BY <1>4, <2>4
    <3>2. CASE r \in UdpQuery(job[s].q)
      <4>1. r \in Responses("cn", 1..job[s].q.size)
        BY <3>2 DEF UdpQuery
      <4> QED BY <1>2, <2>2, <2>3, <2>4, <4>1 DEF PathTo
    <3>3. CASE r \in TcpQuery(job[s].q) /\ CnOverTcp
      <4>1. r \in Responses("cn", {p.size : p \in Question})
        BY <3>3 DEF TcpQuery
      <4> QED BY <2>2, <2>3, <2>4, <3>3, <4>1 DEF PathTo
    <3> QED BY <3>1, <3>2, <3>3 DEF DirectQueryOnce
  <2>5. CASE cell[job[s].cell].key[4] # "cn"
    <3>1. r \in DnsOverTunnelOnce(job[s].q)
      BY <1>4, <2>5
    <3>2. r \in Responses("remote", {p.size : p \in Question})
      BY <3>1 DEF DnsOverTunnelOnce
    <3> QED BY <2>2, <2>3, <2>5, <3>2 DEF PathTo
  <2> QED BY <2>4, <2>5
<1>6. PICK n : n = [cell[job[s].cell] EXCEPT !.runner = <<>>, !.done = TRUE, !.resp = r]
  OBVIOUS
<1>7. n \in CellRec /\ n.key = cell[job[s].cell].key /\ n.done /\ n.runner = <<>> /\ n.resp = r
  BY <1>2, <1>5, <1>6 DEF CellRec
<1>8. cell' = [cell EXCEPT ![job[s].cell] = n]
  BY <1>2, <1>4, <1>6
<1> QED BY <1>1, <1>3, <1>5, <1>7, <1>8, CellChanges

\* A holder that goes takes its task or its query no further than these may go.
LEMMA DepartsKeeps ==
  ASSUME DnsInv, NEW s \in Slot, NEW r, job' = [job EXCEPT ![s] = r], r.cell = 0,
         job[s].cell # 0, scenario' = scenario, cache' = cache, table' = Removed(s),
         \/ cell' = Freed(s)
         \/ /\ Holders(job[s].cell) # {s}
            /\ cell' = [cell EXCEPT ![job[s].cell].runner = <<>>],
         JobFits(s, r), StillPrefetches(s),
         \/ r.pc = "idle" /\ s[2] = "query"
         \/ /\ r.pc \in {"fetch", "store"} /\ r.q = job[s].q
            /\ r.path = job[s].path /\ r.how = job[s].how
  PROVE  DnsInv'
<1>1. job \in [Slot -> JobRec] /\ job[s].pc = "fetch"
  BY AtFlight DEF DnsInv, JobsFit
<1>2. s[2] = "query" => Pair(r, job[Task(s)])
  <2>1. SUFFICES ASSUME s[2] = "query" PROVE Pair(r, job[Task(s)])
    OBVIOUS
  <2>2. Pair(job[s], job[Task(s)])
    BY <2>1, AtQuery DEF DnsInv
  <2> QED BY <1>1, <2>2 DEF Pair
<1>3. s[2] = "task" => Pair(job[<<s[1], "query">>], r)
  <2>1. SUFFICES ASSUME s[2] = "task" PROVE Pair(job[<<s[1], "query">>], r)
    OBVIOUS
  <2>2. Pair(job[<<s[1], "query">>], job[s])
    BY <2>1, Pairs DEF DnsInv, OneTask
  <2> QED BY <1>1, <2>1, <2>2 DEF Pair
<1>4. JobsFit' /\ OneTask'
  BY <1>2, <1>3, OneSlot DEF DnsInv
<1>5. FlightsFit'
  BY Departs DEF DnsInv
<1>6. \A t \in Slot : StillPrefetches(t)
  BY <1>1 DEF StillPrefetches
<1>7. CacheFits'
  BY <1>6, CacheAlone DEF DnsInv
<1> QED BY <1>4, <1>5, <1>7 DEF DnsInv

\* A holder takes the result with it, and the table has no entry that nobody needs.
LEMMA LeaveKeeps ==
  ASSUME DnsInv, NEW s \in Slot, Leave(s), scenario' = scenario
  PROVE  DnsInv'
<1>1. /\ job[s].cell # 0 /\ cell[job[s].cell].done
      /\ table' = Removed(s) /\ cell' = Freed(s) /\ cache' = cache
  BY DEF Leave
<1>2. /\ job[s] \in JobRec /\ JobFits(s, job[s]) /\ job[s].pc = "fetch"
      /\ job[s].cell \in Cell /\ job[s].path \in Path /\ cell[job[s].cell] \in CellRec
      /\ cell[job[s].cell].key = FlightKey(job[s])
      /\ FlightKey(job[s])[3] = job[s].q.size
      /\ PathTo(FlightKey(job[s])[4]) = job[s].path
      /\ FlightKey(job[s])[4] = "cn" <=> job[s].path = "cn"
  BY <1>1, AtFlight DEF DnsInv
<1>3. PICK a : a = cell[job[s].cell].resp
  OBVIOUS
<1>4. a \in Resp /\ (a = None \/ Suits(a, job[s].path, job[s].q))
  BY <1>1, <1>2, <1>3 DEF DnsInv, FlightsFit, Suits, CellRec
<1>5. PICK r : /\ job' = [job EXCEPT ![s] = r]
               /\ \/ /\ r = [job[s] EXCEPT !.cell = 0, !.next = job[s].next + 1]
                     /\ job[s].path = "remote" /\ job[s].next < Len(RemoteServers)
                  \/ r = [job[s] EXCEPT !.cell = 0, !.pc = "store", !.resp = a]
  <2> DEFINE again == /\ a = None /\ job[s].path = "remote" /\ job[s].how # "verify"
                      /\ job[s].next < Len(RemoteServers)
  <2>1. Set(s, IF again THEN [job[s] EXCEPT !.cell = 0, !.next = @ + 1]
                        ELSE [job[s] EXCEPT !.cell = 0, !.pc = "store", !.resp = a])
    BY <1>3 DEF Leave
  <2>2. CASE again
    <3>1. job' = [job EXCEPT ![s] = [job[s] EXCEPT !.cell = 0, !.next = job[s].next + 1]]
      BY <1>2, <2>1, <2>2 DEF Set, JobRec
    <3> QED BY <2>2, <3>1
  <2>3. CASE ~again
    <3>1. job' = [job EXCEPT ![s] = [job[s] EXCEPT !.cell = 0, !.pc = "store", !.resp = a]]
      BY <2>1, <2>3 DEF Set
    <3> QED BY <3>1
  <2> QED BY <2>2, <2>3
<1>6. /\ r \in JobRec /\ r.cell = 0 /\ r.pc \in {"fetch", "store"} /\ r.q = job[s].q
      /\ r.path = job[s].path /\ r.how = job[s].how
      /\ r.path = "remote" => r.next \in 1..Len(RemoteServers)
      /\ r.pc = "store" => r.resp = a
  <2>1. job[s].path = "remote" => job[s].next \in 1..Len(RemoteServers)
    BY <1>2 DEF JobFits, UnderWay
  <2>2. CASE /\ r = [job[s] EXCEPT !.cell = 0, !.next = job[s].next + 1]
             /\ job[s].path = "remote" /\ job[s].next < Len(RemoteServers)
    <3>1. PICK m \in Nat : m = job[s].next + 1 /\ m \in 1..Len(RemoteServers)
      BY <2>1, <2>2, DnsAssumption
    <3>2. r = [job[s] EXCEPT !.cell = 0, !.next = m]
      BY <2>2, <3>1
    <3> QED BY <1>2, <3>1, <3>2 DEF JobRec
  <2>3. CASE r = [job[s] EXCEPT !.cell = 0, !.pc = "store", !.resp = a]
    BY <1>2, <1>4, <2>1, <2>3 DEF JobRec
  <2> QED BY <1>5, <2>2, <2>3
<1>7. JobFits(s, r)
  BY <1>2, <1>4, <1>6 DEF JobFits, UnderWay, Background
<1>8. StillPrefetches(s)
  <2>1. job'[s] = r
    BY <1>5 DEF DnsInv, JobsFit
  <2> QED BY <1>6, <2>1 DEF StillPrefetches, Prefetches
<1> QED BY <1>1, <1>5, <1>6, <1>7, <1>8, DepartsKeeps

\* Who is cancelled leaves the flight to others who hold it, or removes it.
LEMMA CancelKeeps ==
  ASSUME DnsInv, NEW s \in Slot, Cancel(s), scenario' = scenario
  PROVE  DnsInv'
<1>1. s[2] = "query" /\ Set(s, Idle) /\ cache' = cache
  BY DEF Cancel
<1>2. CASE job[s].cell = 0
  <2>1. table' = table /\ cell' = cell
    BY <1>2 DEF Cancel
  <2>2. CacheFits'
    BY <1>1, QueriesDoNotPrefetch, CacheAlone DEF DnsInv, Set
  <2> QED BY <1>1, <1>2, <2>1, <2>2, EndsKeeps
<1>3. CASE job[s].cell # 0
  <2>1. /\ table' = Removed(s)
        /\ \/ cell' = Freed(s)
           \/ /\ Holders(job[s].cell) # {s}
              /\ cell' = [cell EXCEPT ![job[s].cell].runner = <<>>]
    BY <1>3 DEF Cancel
  <2>2. PICK r : r = Idle
    OBVIOUS
  <2>3. JobFits(s, r) /\ r.pc = "idle" /\ r.cell = 0
    BY <2>2, IdleFits
  <2>4. job' = [job EXCEPT ![s] = r]
    BY <1>1, <2>2 DEF Set
  <2>5. StillPrefetches(s)
    <3>1. JobsFit
      BY DEF DnsInv
    <3>2. \A t \in Slot : StillPrefetches(t)
      BY <1>1, <2>4, <3>1, QueriesDoNotPrefetch
    <3> QED BY <3>2
  <2>6. CASE cell' = Freed(s)
    <3>1. table' = Removed(s)
      BY <2>1
    <3> QED BY <1>1, <1>3, <2>3, <2>4, <2>5, <2>6, <3>1, DepartsKeeps
  <2>7. CASE /\ Holders(job[s].cell) # {s}
             /\ cell' = [cell EXCEPT ![job[s].cell].runner = <<>>]
    <3>1. table' = Removed(s)
      BY <2>1
    <3> QED BY <1>1, <1>3, <2>3, <2>4, <2>5, <2>7, <3>1, DepartsKeeps
  <2> QED BY <2>1, <2>6, <2>7
<1> QED BY <1>2, <1>3

-----------------------------------------------------------------------------
(* The environment, and the whole.                                         *)

\* Time makes entries stale and moves no job.
LEMMA TickKeeps ==
  ASSUME DnsInv, Tick, scenario' = scenario
  PROVE  DnsInv'
<1>1. table' = table /\ cell' = cell /\ job' = job
  BY DEF Tick
<1>2. PICK e \in cache : \/ \E to \in {"due", "stale", "gone"} :
                              cache' = Update({e}, LAMBDA x : [x EXCEPT !.age = to])
                         \/ cache' = Update({e}, LAMBDA x : [x EXCEPT !.failed = FALSE])
  BY DEF Tick
<1>3. PICK f : /\ cache' = (cache \ {e}) \cup {f}
               /\ \/ \E to \in {"due", "stale", "gone"} : f = [e EXCEPT !.age = to]
                  \/ f = [e EXCEPT !.failed = FALSE]
  <2>1. ASSUME NEW to \in {"due", "stale", "gone"},
               cache' = Update({e}, LAMBDA x : [x EXCEPT !.age = to])
        PROVE  cache' = (cache \ {e}) \cup {[e EXCEPT !.age = to]}
    BY <2>1 DEF Update
  <2>2. ASSUME cache' = Update({e}, LAMBDA x : [x EXCEPT !.failed = FALSE])
        PROVE  cache' = (cache \ {e}) \cup {[e EXCEPT !.failed = FALSE]}
    BY <2>2 DEF Update
  <2> QED BY <1>2, <2>1, <2>2
<1>4. EntryFits(f) /\ f.key = e.key /\ f.prefetching = e.prefetching
  <2> DEFINE K == {<<p, x.name, x.qtype>> : p \in Path, x \in Question}
  <2>1. EntryRec = [key : K, resp : Resp, age : {"fresh", "due", "stale", "gone"},
                    failed : BOOLEAN, prefetching : BOOLEAN]
    BY DEF EntryRec
  <2> HIDE DEF K
  <2>2. e \in EntryRec /\ e.resp.path = e.key[1] /\ Cacheable(e.resp)
    BY EntriesFit DEF DnsInv, EntryFits
  <2>3. /\ f \in EntryRec /\ f.resp = e.resp /\ f.key = e.key
        /\ f.prefetching = e.prefetching
    BY <1>3, <2>1, <2>2
  <2> QED BY <2>2, <2>3 DEF EntryFits
<1>5. CacheFits'
  <2>1. \A x \in cache' : EntryFits(x)
    BY <1>3, <1>4, EntriesFit DEF DnsInv
  <2>2. \A x \in cache' : x \in EntryRec /\ x.resp.path = x.key[1] /\ Cacheable(x.resp)
    BY <2>1 DEF EntryFits
  <2>3. \A x \in cache' : x.prefetching => \E y \in cache : y.key = x.key /\ y.prefetching
    BY <1>3, <1>4
  <2>4. \A t \in Slot : StillPrefetches(t)
    BY <1>1 DEF StillPrefetches
  <2> QED BY <2>2, <2>3, <2>4, CacheStep DEF DnsInv
<1>6. FlightsFit'
  BY <1>1, Flightless DEF DnsInv, Keeps
<1> QED BY <1>1, <1>5, <1>6 DEF DnsInv, JobsFit, OneTask

\* A reload empties the learned classes and lets entries and jobs be.
LEMMA ReloadKeeps ==
  ASSUME DnsInv, Unlearn \/ Reload, scenario' = scenario
  PROVE  DnsInv'
<1>1. table' = table /\ cell' = cell /\ cache' = cache
  BY DEF Unlearn, Reload
<1>2. job \in [Slot -> JobRec] /\ \A t \in Slot : job[t] \in JobRec /\ JobFits(t, job[t])
  BY DEF DnsInv, JobsFit
<1>3. job' = [t \in Slot |-> job'[t]]
  BY <1>2 DEF Unlearn, Reload
<1>4. \A t \in Slot : job'[t] = job[t] \/ job'[t] = [job[t] EXCEPT !.old = TRUE]
  BY DEF Unlearn, Reload
<1>5. \A t \in Slot :
        /\ job'[t] \in JobRec /\ job'[t].pc = job[t].pc /\ job'[t].q = job[t].q
        /\ job'[t].how = job[t].how /\ job'[t].path = job[t].path
        /\ job'[t].next = job[t].next /\ job'[t].cell = job[t].cell
        /\ job'[t].resp = job[t].resp
  <2>1. SUFFICES ASSUME NEW t \in Slot
                 PROVE  /\ job'[t] \in JobRec /\ job'[t].pc = job[t].pc /\ job'[t].q = job[t].q
                        /\ job'[t].how = job[t].how /\ job'[t].path = job[t].path
                        /\ job'[t].next = job[t].next /\ job'[t].cell = job[t].cell
                        /\ job'[t].resp = job[t].resp
    OBVIOUS
  <2>2. PICK j, r : j = job[t] /\ r = job'[t] /\ j \in JobRec
         /\ (r = j \/ r = [j EXCEPT !.old = TRUE])
    BY <1>2, <1>4
  <2>3. /\ r \in JobRec /\ r.pc = j.pc /\ r.q = j.q /\ r.how = j.how /\ r.path = j.path
        /\ r.next = j.next /\ r.cell = j.cell /\ r.resp = j.resp
    BY <2>2 DEF JobRec
  <2> QED BY <2>2, <2>3
<1>6. \A t \in Slot : JobFits(t, job'[t])
  BY <1>2, <1>5 DEF JobFits
<1>7. JobsFit'
  BY <1>3, <1>5, <1>6 DEF DnsInv, JobsFit
<1>8. OneTask'
  <2>1. SUFFICES ASSUME NEW n \in Query PROVE Pair(job'[<<n, "query">>], job'[<<n, "task">>])
    BY DEF OneTask
  <2>2. <<n, "query">> \in Slot /\ <<n, "task">> \in Slot
    BY DEF Slot
  <2>3. Pair(job[<<n, "query">>], job[<<n, "task">>])
    BY DEF DnsInv, OneTask
  <2> QED BY <1>5, <2>2, <2>3 DEF Pair
<1>9. \A t \in Slot : Keeps(t) /\ StillPrefetches(t)
  BY <1>5 DEF Keeps, StillPrefetches, Prefetches, FlightKey, Server
<1>10. FlightsFit' /\ CacheFits'
  BY <1>1, <1>9, Flightless, CacheAlone DEF DnsInv
<1> QED BY <1>7, <1>8, <1>10 DEF DnsInv

\* No job, no flight and an empty cache to begin with.
LEMMA DnsStarts ==
  Init => DnsInv
<1>1. SUFFICES ASSUME Init PROVE DnsInv
  OBVIOUS
<1>2. JobsFit
  <2>1. \A s \in Slot : job[s] = Idle
    BY <1>1 DEF Init
  <2>2. \A s \in Slot : Idle \in JobRec /\ JobFits(s, Idle)
    BY IdleFits
  <2>3. job \in [Slot -> JobRec]
    BY <1>1, <2>2 DEF Init
  <2> QED BY <1>1, <2>1, <2>2, <2>3 DEF JobsFit, Init
<1>3. \A s \in Slot : job[s].pc = "idle" /\ job[s].cell = 0
  BY <1>1, IdleFits DEF Init
<1>4. OneTask
  <2>1. \A n \in Query : <<n, "query">> \in Slot
    BY DEF Slot
  <2> QED BY <1>3, <2>1 DEF OneTask, Pair
<1>5. FlightsFit
  <2>1. cell \in [Cell -> CellRec] /\ \A c \in Cell : ~cell[c].done
    BY <1>1, NoCellFits DEF Init
  <2>2. table \in [FlightKeys -> Cell \cup {0}] /\ \A k \in FlightKeys : table[k] = 0
    BY <1>1 DEF Init, FlightKeys
  <2> QED BY <1>3, <2>1, <2>2 DEF FlightsFit
<1>6. CacheFits
  BY <1>1 DEF Init, CacheFits, PrefetchDue
<1> QED BY <1>2, <1>4, <1>5, <1>6 DEF DnsInv

\* The invariant is inductive: one lemma for each action.
LEMMA DnsSteps ==
  DnsInv /\ [Next]_vars => DnsInv'
<1>1. SUFFICES ASSUME DnsInv, [Next]_vars PROVE DnsInv'
  OBVIOUS
<1>2. CASE UNCHANGED vars
  <2>1. /\ scenario' = scenario /\ job' = job /\ table' = table /\ cell' = cell /\ cache' = cache
    BY <1>2 DEF vars
  <2>2. \A t \in Slot : Keeps(t) /\ StillPrefetches(t)
    BY <2>1 DEF Keeps, StillPrefetches
  <2>3. FlightsFit' /\ CacheFits'
    BY <1>1, <2>1, <2>2, Flightless, CacheAlone DEF DnsInv
  <2> QED BY <1>1, <2>1, <2>3 DEF DnsInv, JobsFit, OneTask
<1>3. ASSUME NEW s \in Slot, Step(s), scenario' = scenario PROVE DnsInv'
  BY <1>1, <1>3, LookupKeeps, LookupStaleKeeps, SendKeeps, JoinKeeps, TakeOverKeeps, ReplyKeeps,
     LeaveKeeps, StoreKeeps, ClearKeeps, FallbackKeeps, ClassifyKeeps, PlainKeeps, VerifyKeeps
     DEF Step
<1>4. ASSUME NEW s \in Slot, Cancel(s), scenario' = scenario PROVE DnsInv'
  BY <1>1, <1>4, CancelKeeps
<1>5. ASSUME NEW s \in Slot, NEW a \in scenario.asks, Receive(s, a[1], a[2]), scenario' = scenario
      PROVE  DnsInv'
  <2>1. a[1] \in Question
    BY <1>1 DEF DnsInv, JobsFit, Question
  <2> QED BY <1>1, <1>5, <2>1, ReceiveKeeps
<1>6. ASSUME Tick \/ Unlearn \/ Reload, scenario' = scenario PROVE DnsInv'
  BY <1>1, <1>6, TickKeeps, ReloadKeeps
<1> QED BY <1>1, <1>2, <1>3, <1>4, <1>5, <1>6 DEF Next

\* Hence it always holds.
LEMMA DnsAlways ==
  Spec => []DnsInv
BY DnsStarts, DnsSteps, PTL DEF Spec

\* RightAnswer of DnsSound: an answer that came from an upstream reaches its client along the
\* path decided for it (ResolvePath of process_query), whichever entry of the cache, flight or
\* stale answer it came by, and is not longer than what this client accepts; for any number of
\* queries, servers, names and sizes.
THEOREM AnswersAreRight ==
  Spec => []RightAnswer
<1>1. DnsInv => RightAnswer
  <2>1. SUFFICES ASSUME DnsInv, NEW s \in Slot, s[2] = "query", job[s].pc = "send",
                        job[s].resp.path \in Path
                 PROVE  /\ job[s].resp.path = job[s].path
                        /\ job[s].path = "cn" /\ ~CnOverTcp => job[s].resp.len <= job[s].q.size
    BY DEF RightAnswer
  <2>2. JobFits(s, job[s])
    BY <2>1 DEF DnsInv, JobsFit
  <2>3. Suits(job[s].resp, job[s].path, job[s].q)
    BY <2>1, <2>2 DEF JobFits, Path
  <2> QED BY <2>3 DEF Suits
<1> QED BY <1>1, DnsAlways, PTL

\* MarksRemoved of DnsSound: at most one upstream query runs for a key, an entry of the table of
\* flights has a holder that will remove it, and a prefetching mark is only up while a task is
\* under way that takes it down; whoever is cancelled when.
THEOREM MarksAlwaysRemoved ==
  Spec => []MarksRemoved
<1>1. DnsInv => FlightsExact
  <2>1. SUFFICES ASSUME DnsInv PROVE FlightsExact
    OBVIOUS
  <2>2. \A k \in DOMAIN table : table[k] # 0 => Holders(table[k]) # {}
    BY <2>1 DEF DnsInv, FlightsFit
  <2>3. ASSUME NEW s \in Slot, NEW t \in Slot,
               job[s].cell # 0, job[t].cell # 0, s # t,
               cell[job[s].cell].runner = s, cell[job[t].cell].runner = t,
               ~job[s].q.options, ~job[t].q.options
        PROVE  cell[job[s].cell].key # cell[job[t].cell].key
    <3>1. \A u \in {s, t} : job[u].cell \in Cell /\ ~cell[job[u].cell].done
      BY <2>1, <2>3, AtFlight, Pairs DEF DnsInv, FlightsFit
    <3>2. \A u \in {s, t} : table[cell[job[u].cell].key] = job[u].cell
      BY <2>1, <2>3, <3>1 DEF DnsInv, FlightsFit
    <3> QED BY <2>3, <3>2
  <2> QED BY <2>2, <2>3 DEF FlightsExact
<1>2. DnsInv => MarksRemoved
  BY <1>1 DEF DnsInv, CacheFits, MarksRemoved
<1> QED BY <1>2, DnsAlways, PTL

\* DnsSound of the runs, which is both: for any number of queries, servers, names and sizes, and
\* whoever is cancelled when, an answer fits the query it goes to, and nothing that queries mark
\* for each other is left behind (process_query, singleflight of server.rs).
THEOREM DnsAlwaysSound ==
  Spec => []DnsSound
BY AnswersAreRight, MarksAlwaysRemoved, PTL DEF DnsSound

-----------------------------------------------------------------------------
(* The connections.                                                        *)

Legs == {"greet", "name", "route", "first", "second", "dial", "relay", "gone"}
Dests == {"name", "real", "fake", "lost"}
ConnTypes ==
  /\ leg \in Legs /\ outlet \in Outlets \cup {"none"}
  /\ sent \in [Way -> Nat] /\ queue \in [Way -> Nat] /\ passed \in [Way -> Nat]
  /\ fin \in [Way -> {"open", "clean", "broken", "refused"}] /\ fin["up"] # "refused"
  /\ seen \in [Way -> {"open", "clean", "broken"}]
  /\ at \in [Way -> {"off", "wait", "write", "flush", "done"}] /\ done \in [Way -> BOOLEAN]
  /\ localEof \in BOOLEAN /\ aborted \in BOOLEAN /\ overread \in BOOLEAN
  /\ endReason \in {"none", "notify", "refused", "peer", "idle", "local"}
  /\ praised \in BOOLEAN /\ blamed \in Nat

\* What the inbound wants is what it dials.
Named ==
  /\ leg \in {"greet", "name", "route"} =>
       /\ ask.inbound \in {"socks", "http", "connect", "tproxy"} /\ ask.dest \in Dests
       /\ ask.inbound = "tproxy" => ask.dest # "name"
  /\ DialsWhatWasAsked

\* The outlet is chosen before anything goes, and each outlet has its way to the relay.
Early == leg \notin {"relay", "gone"}
LegsFit ==
  /\ leg \in {"greet", "name", "route"} => outlet = "none"
  /\ leg \in {"first", "second"} => outlet \in TcpTunnels
  /\ leg = "dial" => outlet \in {"quic", "direct", "copy"}
  /\ leg = "relay" => outlet \in Outlets /\ \A d \in Way : at[d] # "off"
  /\ Early => /\ \A d \in Way : at[d] = "off" /\ passed[d] = 0 /\ fin[d] = "open"
              /\ ~localEof
  /\ \A d \in Way : at[d] = "flush" => outlet \in TcpTunnels

\* What was read and not written is in hand, and nothing is missing while a loop runs.
Held(d) == IF at[d] = "write" THEN 1 ELSE 0
Complete ==
  \A d \in Way : /\ passed[d] + Held(d) + queue[d] <= sent[d]
                 /\ at[d] \in {"off", "wait", "write"} => passed[d] + Held(d) + queue[d] = sent[d]

\* An end is shown when a loop ends or the connection is over.
ShownInTime == leg # "gone" => \A d \in Way : at[d] \in {"off", "wait", "write"} => seen[d] = "open"

\* What the loops know of the ends they met.
KnowsTheEnd ==
  /\ localEof \/ overread => fin["up"] # "open"
  /\ overread => outlet \in TcpTunnels /\ fin["up"] = "broken"
  /\ at["dn"] \in {"off", "wait", "write"} => endReason = "none"
  /\ outlet \in Mirage /\ at["dn"] \in {"flush", "done"} => endReason # "none"
  /\ endReason = "notify" => fin["dn"] = "clean" /\ passed["dn"] = sent["dn"]
  /\ endReason = "refused" => fin["dn"] = "refused"
  /\ endReason = "peer" => fin["dn"] = "broken"
  /\ endReason = "local" => fin["up"] # "open"

\* What the record was told, and when.
Told ==
  /\ leg # "gone" => blamed = 0
  /\ praised => passed["dn"] > 0 \/ at["dn"] = "write" \/ endReason = "local"
  /\ RecordToldRight

ConnInv == /\ ConnTypes /\ Named /\ LegsFit /\ Complete /\ ShownInTime /\ KnowsTheEnd /\ Told

\* A connection begins in the invariant.
LEMMA ConnStarts == ConnInit => ConnInv
<1> SUFFICES ASSUME ConnInit PROVE ConnInv
  OBVIOUS
<1> USE DEF ConnInit, EarlyBytes, Way
<1>1. ConnTypes
  <2>1. sent \in [Way -> Nat]
    OBVIOUS
  <2>2. fin = [d \in Way |-> "open"] /\ seen = fin /\ queue = sent
    OBVIOUS
  <2> QED BY <2>1, <2>2 DEF ConnTypes, Legs
<1>2. Named /\ LegsFit /\ Complete
  BY DEF Named, Dests, DialsWhatWasAsked, LegsFit, Early, Complete, Held
<1>3. ShownInTime /\ KnowsTheEnd /\ Told
  BY DEF ShownInTime, KnowsTheEnd, Told, RecordToldRight, Mirage, TcpTunnels
<1> QED BY <1>1, <1>2, <1>3 DEF ConnInv

\* What is dialled and where: until the connection moves, nothing of the rest does.
LEMMA EarlyKeeps ==
  ASSUME ConnInv, Greet \/ NameTarget \/ Choose \/ Attempt \/ Connect PROVE ConnInv'
<1> USE DEF named, took, sends, shows, clocks, flags, record, Outlets, Mirage, TcpTunnels, Way
<1>1. CASE Greet \/ NameTarget \/ Choose
  <2>1. /\ leg \in {"greet", "name", "route"} /\ leg' \in Legs \ {"greet", "relay"}
        /\ UNCHANGED <<sends, shows, at, done, clocks, flags, record>>
        /\ \/ leg' \in {"name", "route", "gone"} /\ outlet' = outlet
           \/ leg' = "gone" /\ outlet' = "none"
           \/ leg' = "first" /\ outlet' \in TcpTunnels
           \/ leg' = "dial" /\ outlet' \in {"quic", "direct", "copy"}
    BY <1>1 DEF Greet, NameTarget, Choose, Legs
  <2>2. outlet = "none" /\ Early
    BY <2>1 DEF ConnInv, LegsFit, Early
  <2>3. Named'
    BY <1>1 DEF ConnInv, Named, Greet, NameTarget, Choose, DialsWhatWasAsked, DialledHost,
       Intercepted, Heard, Dests
  <2>4. ConnTypes' /\ LegsFit'
    BY <2>1, <2>2 DEF ConnInv, ConnTypes, LegsFit, Early, Legs
  <2>5. Complete' /\ ShownInTime'
    BY <2>1, <2>2 DEF ConnInv, Complete, Held, ShownInTime, Early
  <2>6. KnowsTheEnd' /\ Told'
    BY <2>1, <2>2 DEF ConnInv, KnowsTheEnd, Told, RecordToldRight, LegsFit, Early
  <2> QED BY <2>3, <2>4, <2>5, <2>6 DEF ConnInv
<1>2. CASE Attempt \/ Connect
  <2>1. /\ leg \in {"first", "second", "dial"} /\ leg' \in {"second", "relay", "gone"}
        /\ leg' = "second" => leg = "first"
        /\ UNCHANGED <<named, outlet, sent, fin, seen, done, clocks, flags, praised>>
        /\ \/ Begins
           \/ leg' # "relay" /\ UNCHANGED <<queue, passed, at>>
              /\ (UNCHANGED blamed \/ (leg' = "gone" /\ blamed' = blamed + 1))
    BY <1>2 DEF Attempt, Connect, Begins, Blame
  <2>2. /\ outlet \in Outlets /\ Early /\ blamed = 0 /\ passed["dn"] = 0 /\ passed["up"] = 0
        /\ \A d \in Way : at[d] = "off"
    BY <2>1 DEF ConnInv, LegsFit, Early, Told
  <2>3. CASE Begins
    <3>1. /\ leg' = "relay" /\ at' = [d \in Way |-> "wait"] /\ UNCHANGED blamed
          /\ queue' = [queue EXCEPT !["up"] = 0] /\ passed' = [passed EXCEPT !["up"] = queue["up"]]
      BY <2>3 DEF Begins
    <3>2. ConnTypes' /\ LegsFit'
      BY <2>1, <2>2, <3>1 DEF ConnInv, ConnTypes, LegsFit, Early, Legs
    <3>3. Complete' /\ ShownInTime'
      BY <2>1, <2>2, <3>1 DEF ConnInv, ConnTypes, Complete, Held, ShownInTime, Early
    <3>4. KnowsTheEnd' /\ Told' /\ Named'
      BY <2>1, <2>2, <3>1 DEF ConnInv, ConnTypes, KnowsTheEnd, Told, RecordToldRight, Named,
         DialsWhatWasAsked
    <3> QED BY <3>2, <3>3, <3>4 DEF ConnInv
  <2>4. CASE leg' # "relay" /\ UNCHANGED <<queue, passed, at>>
             /\ (UNCHANGED blamed \/ (leg' = "gone" /\ blamed' = blamed + 1))
    <3>1. ConnTypes' /\ LegsFit'
      BY <2>1, <2>2, <2>4 DEF ConnInv, ConnTypes, LegsFit, Early, Legs
    <3>2. Complete' /\ ShownInTime'
      BY <2>1, <2>2, <2>4 DEF ConnInv, Complete, Held, ShownInTime, Early
    <3>3. KnowsTheEnd' /\ Named'
      BY <2>1, <2>2, <2>4 DEF ConnInv, KnowsTheEnd, Named, DialsWhatWasAsked
    <3>4. Told'
      <4>1. ~praised
        BY <2>2 DEF ConnInv, Told, KnowsTheEnd
      <4> QED BY <2>1, <2>2, <2>4, <4>1 DEF Told, RecordToldRight
    <3> QED BY <3>1, <3>2, <3>3, <3>4 DEF ConnInv
  <2> QED BY <2>1, <2>3, <2>4
<1> QED BY <1>1, <1>2

\* The application, the peer and time.
LEMMA OutsideKeepsConn ==
  ASSUME ConnInv, ConnTick \/ \E d \in Way : SendChunk(d) \/ Finish(d) PROVE ConnInv'
<1> USE DEF named, took, sends, shows, clocks, flags, record
<1>1. CASE ConnTick
  BY <1>1 DEF ConnTick, ConnInv, ConnTypes, Named, DialsWhatWasAsked, LegsFit, Early, Complete,
     Held,
     ShownInTime, KnowsTheEnd, Told, RecordToldRight
<1>2. ASSUME NEW d \in Way, SendChunk(d) PROVE ConnInv'
  <2>1. /\ sent' = [sent EXCEPT ![d] = @ + 1] /\ queue' = [queue EXCEPT ![d] = @ + 1]
        /\ fin[d] = "open" /\ leg = "relay"
        /\ UNCHANGED <<named, took, leg, fin, shows, at, done, flags, record>>
    BY <1>2 DEF SendChunk
  <2>2. ConnTypes'
    BY <2>1 DEF ConnInv, ConnTypes
  <2>3. Named' /\ LegsFit' /\ ShownInTime'
    BY <2>1 DEF ConnInv, Named, DialsWhatWasAsked, LegsFit, Early, ShownInTime
  <2>4. Complete'
    <3>1. \A w \in Way : sent'[w] - queue'[w] = sent[w] - queue[w] /\ Held(w)' = Held(w)
      BY <2>1 DEF ConnInv, ConnTypes, Held
    <3>2. \A w \in Way : /\ sent'[w] \in Nat /\ queue'[w] \in Nat /\ Held(w) \in Nat
                         /\ passed[w] \in Nat /\ sent[w] \in Nat /\ queue[w] \in Nat
      BY <2>2 DEF ConnInv, ConnTypes, Held
    <3> QED BY <2>1, <3>1, <3>2 DEF ConnInv, Complete
  <2>5. KnowsTheEnd' /\ Told'
    BY <2>1 DEF ConnInv, ConnTypes, KnowsTheEnd, Told, RecordToldRight
  <2> QED BY <2>2, <2>3, <2>4, <2>5 DEF ConnInv
<1>3. ASSUME NEW d \in Way, Finish(d) PROVE ConnInv'
  <2>1. /\ leg = "relay" /\ fin[d] = "open"
        /\ \E end \in {"clean", "broken", "refused"} :
             (end = "refused" => d = "dn") /\ fin' = [fin EXCEPT ![d] = end]
        /\ UNCHANGED <<named, took, leg, sent, queue, shows, at, done, clocks, flags, record>>
    BY <1>3 DEF Finish
  <2>2. ConnTypes'
    BY <2>1 DEF ConnInv, ConnTypes
  <2>3. Named' /\ LegsFit' /\ ShownInTime' /\ Complete'
    BY <2>1 DEF ConnInv, Named, DialsWhatWasAsked, LegsFit, Early, ShownInTime, Complete, Held
  <2>4. KnowsTheEnd' /\ Told'
    BY <2>1 DEF ConnInv, ConnTypes, KnowsTheEnd, Told, RecordToldRight
  <2> QED BY <2>2, <2>3, <2>4 DEF ConnInv
<1> QED BY <1>1, <1>2, <1>3

\* A loop ends: where it stood and what it knows.
LoopEnds(d) ==
  /\ at[d] \in {"wait", "write"} /\ leg = "relay" /\ leg' = leg
  /\ Ends(d)
  /\ seen' \in [Way -> {"open", "clean", "broken"}]
  /\ \A w \in Way \ {d} : seen'[w] = seen[w]
  /\ aborted' \in BOOLEAN /\ localEof' \in BOOLEAN /\ UNCHANGED overread
  /\ localEof' => fin["up"] # "open"
  /\ d = "up" => UNCHANGED endReason
  /\ d = "dn" => /\ endReason' \in {"none", "notify", "refused", "peer", "idle", "local"}
                 /\ endReason' = "none" <=> outlet \notin Mirage
                 /\ endReason' = "notify" => fin["dn"] = "clean" /\ passed["dn"] = sent["dn"]
                 /\ endReason' = "refused" => fin["dn"] = "refused"
                 /\ endReason' = "peer" => fin["dn"] = "broken" /\ at["dn"] = "wait"
                 /\ endReason' # "local" => at["dn"] = "wait"
                 /\ endReason' = "local" => fin["up"] # "open"

\* What a read that returns an end means.
LEMMA ReadsTheEnd ==
  ASSUME ConnInv, NEW d \in Way, Loops(d, "wait"), Result(d) \in {"clean", "refused", "broken"}
  PROVE  /\ Result(d) = "refused" => d = "dn" /\ fin[d] = "refused"
         /\ d = "up" => (Result(d) = "broken" /\ aborted) \/ (fin[d] # "open" /\ queue[d] = 0)
         /\ d = "dn" => fin[d] = Result(d) /\ queue[d] = 0
         /\ queue[d] = 0 => passed[d] = sent[d]
<1>1. queue[d] = 0 => passed[d] = sent[d]
  BY DEF ConnInv, ConnTypes, Complete, Held, Loops
<1>2. queue[d] \in Nat /\ fin["up"] # "refused" /\ (overread => fin["up"] # "open")
  BY DEF ConnInv, ConnTypes, KnowsTheEnd, Way
<1>3. CASE d = "up" /\ aborted
  <2>1. Result(d) = "broken"
    BY <1>3 DEF Result
  <2> QED BY <1>1, <1>3, <2>1
<1>4. CASE ~(d = "up" /\ aborted) /\ queue[d] > 0
  BY <1>4 DEF Result
<1>5. CASE ~(d = "up" /\ aborted) /\ queue[d] = 0 /\ fin[d] # "open"
  BY <1>1, <1>2, <1>5 DEF Result, Way
<1>6. CASE ~(d = "up" /\ aborted) /\ queue[d] = 0 /\ fin[d] = "open"
  BY <1>6 DEF Result
<1> QED BY <1>2, <1>3, <1>4, <1>5, <1>6

\* Whatever ends a half in a tunnel is the end of one of the two loops.
LEMMA TunnelLoopsEnd ==
  ASSUME ConnInv, UpEnds \/ DnEnds \/ \E d \in Way : HalfDone(d) PROVE \E d \in Way : LoopEnds(d)
<1> USE DEF flags, Way
<1>1. CASE UpEnds
  <2>1. /\ leg = "relay" /\ at["up"] \in {"wait", "write"} /\ Ends("up") /\ outlet \in Mirage
        /\ UNCHANGED <<aborted, overread, endReason>>
        /\ seen' = seen \/ \E end \in {"clean", "broken"} : Show("up", end)
        /\ \/ localEof' = localEof
           \/ /\ at["up"] = "wait" /\ localEof' = TRUE
              /\ Result("up") = "clean" \/ (Result("up") = "broken" /\ ~aborted)
    <3>1. localEof \in BOOLEAN /\ aborted \in BOOLEAN
      BY DEF ConnInv, ConnTypes
    <3> QED BY <1>1, <3>1 DEF UpEnds, Loops, ReceiverGone
  <2>2. localEof' => fin["up"] # "open"
    BY <2>1, ReadsTheEnd DEF Loops, ConnInv, KnowsTheEnd
  <2>3. seen' \in [Way -> {"open", "clean", "broken"}] /\ seen'["dn"] = seen["dn"]
    BY <2>1 DEF Show, ConnInv, ConnTypes
  <2>4. localEof' \in BOOLEAN /\ aborted' \in BOOLEAN /\ leg' = leg
    BY <2>1 DEF ConnInv, ConnTypes, Ends
  <2> QED BY <2>1, <2>2, <2>3, <2>4 DEF LoopEnds
<1>2. CASE DnEnds
  <2>1. /\ leg = "relay" /\ at["dn"] \in {"wait", "write"} /\ Ends("dn") /\ outlet \in Mirage
        /\ UNCHANGED <<overread, localEof>>
        /\ \/ /\ Loops("dn", "wait")
              /\ \/ Result("dn") = "clean" /\ endReason' = "notify"
                 \/ Result("dn") = "refused" /\ endReason' = "refused"
                 \/ Result("dn") = "broken" /\ endReason' = "peer"
                 \/ endReason' = "idle"
           \/ ReceiverGone("dn") /\ endReason' = "local"
    BY <1>2 DEF DnEnds, Loops, ReceiverGone
  <2>2. /\ seen' = seen \/ \E end \in {"clean", "broken"} : Show("dn", end)
        /\ aborted' = aborted \/ aborted' = TRUE
    BY <1>2 DEF DnEnds, Conclude
  <2>3. seen' \in [Way -> {"open", "clean", "broken"}] /\ seen'["up"] = seen["up"]
    BY <2>2 DEF Show, ConnInv, ConnTypes
  <2>4. localEof' \in BOOLEAN /\ leg' = leg /\ (localEof' => fin["up"] # "open")
    BY <2>1 DEF ConnInv, ConnTypes, Ends, KnowsTheEnd
  <2>5. aborted' \in BOOLEAN
    BY <2>2 DEF ConnInv, ConnTypes
  <2>6. /\ endReason' \in {"notify", "refused", "peer", "idle", "local"}
        /\ endReason' = "notify" => fin["dn"] = "clean" /\ passed["dn"] = sent["dn"]
        /\ endReason' = "refused" => fin["dn"] = "refused"
        /\ endReason' = "peer" => fin["dn"] = "broken" /\ at["dn"] = "wait"
        /\ endReason' # "local" => at["dn"] = "wait"
        /\ endReason' = "local" => fin["up"] # "open"
    BY <2>1, ReadsTheEnd DEF Loops, ReceiverGone, Other
  <2> QED BY <2>1, <2>3, <2>4, <2>5, <2>6 DEF LoopEnds
<1>3. ASSUME NEW d \in Way, HalfDone(d) PROVE LoopEnds(d)
  <2>1. /\ leg = "relay" /\ at[d] = "wait" /\ Ends(d) /\ outlet \notin Mirage
        /\ UNCHANGED flags /\ Show(d, "clean")
    BY <1>3 DEF HalfDone, Loops
  <2>2. seen' \in [Way -> {"open", "clean", "broken"}] /\ \A w \in Way \ {d} : seen'[w] = seen[w]
    BY <2>1 DEF Show, ConnInv, ConnTypes
  <2>3. /\ localEof' \in BOOLEAN /\ aborted' \in BOOLEAN /\ leg' = leg
        /\ (localEof' => fin["up"] # "open")
    BY <2>1 DEF ConnInv, ConnTypes, Ends, KnowsTheEnd
  <2>4. d = "dn" => endReason = "none"
    BY <2>1 DEF ConnInv, KnowsTheEnd
  <2> QED BY <2>1, <2>2, <2>3, <2>4 DEF LoopEnds
<1> QED BY <1>1, <1>2, <1>3

\* A loop that ends keeps the invariant.
LEMMA LoopEndKeeps == ASSUME ConnInv, NEW d \in Way, LoopEnds(d) PROVE ConnInv'
<1> USE DEF named, took, sends, shows, clocks, flags, record
<1>1. /\ at[d] \in {"wait", "write"} /\ leg = "relay"
      /\ at' = [at EXCEPT ![d] = IF outlet \in TcpTunnels THEN "flush" ELSE "done"]
      /\ done' = [done EXCEPT ![d] = TRUE]
      /\ UNCHANGED <<named, took, leg, sends, passed, record, overread>>
  BY DEF LoopEnds, Ends
<1>2. ConnTypes'
  <2>1. endReason' \in {"none", "notify", "refused", "peer", "idle", "local"}
    BY DEF LoopEnds, Way, ConnInv, ConnTypes
  <2> QED BY <1>1, <2>1 DEF LoopEnds, ConnInv, ConnTypes
<1>3. Named' /\ LegsFit'
  BY <1>1 DEF ConnInv, ConnTypes, Named, DialsWhatWasAsked, LegsFit, Early
<1>4. Complete' /\ ShownInTime'
  <2>1. \A w \in Way \ {d} : at'[w] = at[w] /\ seen'[w] = seen[w]
    BY <1>1 DEF LoopEnds, ConnInv, ConnTypes
  <2>2. at'[d] \in {"flush", "done"}
    BY <1>1 DEF ConnInv, ConnTypes
  <2>3. Held(d)' = 0 /\ Held(d) \in {0, 1} /\ \A w \in Way \ {d} : Held(w)' = Held(w)
    BY <2>1, <2>2 DEF Held
  <2>4. passed[d] + queue[d] <= sent[d]
    BY <2>3 DEF ConnInv, Complete, ConnTypes
  <2>5. Complete'
    BY <1>1, <2>1, <2>2, <2>3, <2>4 DEF ConnInv, Complete, ConnTypes
  <2>6. ShownInTime'
    BY <1>1, <2>1, <2>2 DEF ConnInv, ShownInTime
  <2> QED BY <2>5, <2>6
<1>5. KnowsTheEnd'
  <2>1. CASE d = "up"
    BY <1>1, <2>1 DEF LoopEnds, ConnInv, ConnTypes, KnowsTheEnd, Way
  <2>2. CASE d = "dn"
    BY <1>1, <2>2 DEF LoopEnds, ConnInv, ConnTypes, KnowsTheEnd, Way, Mirage
  <2> QED BY <2>1, <2>2 DEF Way
<1>6. Told'
  <2>1. CASE d = "up"
    BY <1>1, <2>1 DEF LoopEnds, ConnInv, ConnTypes, Told, RecordToldRight, Way
  <2>2. CASE d = "dn"
    BY <1>1, <2>2 DEF LoopEnds, ConnInv, ConnTypes, Told, RecordToldRight, Way, KnowsTheEnd
  <2> QED BY <2>1, <2>2 DEF Way
<1> QED BY <1>2, <1>3, <1>4, <1>5, <1>6 DEF ConnInv

\* The steps of a loop that runs, and what a tunnel drains when it is over.
LEMMA LoopKeepsConn ==
  ASSUME ConnInv, NEW d \in Way, ReadChunk(d) \/ WriteChunk(d) \/ FlushLoop(d) PROVE ConnInv'
<1> USE DEF named, took, sends, shows, clocks, flags, record, Loops
<1>1. CASE ReadChunk(d)
  <2>1. /\ leg = "relay" /\ at[d] = "wait" /\ at' = [at EXCEPT ![d] = "write"]
        /\ queue' = [queue EXCEPT ![d] = @ - 1] /\ praised' \in BOOLEAN
        /\ praised' => praised \/ d = "dn"
        /\ overread' \in {overread, Overreads(d)}
        /\ UNCHANGED <<named, took, leg, sent, fin, shows, done, stall, localEof, aborted,
                       endReason, blamed>>
    <3>1. praised \in BOOLEAN
      BY DEF ConnInv, ConnTypes
    <3> QED BY <1>1, <3>1 DEF ReadChunk
  <2>2. queue[d] > 0
    <3>1. Result(d) = "data" /\ queue[d] \in Nat /\ fin[d] # "data"
      BY <1>1 DEF ReadChunk, ConnInv, ConnTypes
    <3> QED BY <3>1 DEF Result
  <2>3. Overreads(d) => d = "up" /\ outlet \in TcpTunnels /\ fin["up"] = "broken"
    BY DEF Overreads
  <2>4. overread' \in BOOLEAN
    BY <2>1 DEF Overreads, ConnInv, ConnTypes
  <2>5. ConnTypes'
    BY <2>1, <2>2, <2>4 DEF ConnInv, ConnTypes
  <2>6. Named' /\ LegsFit' /\ ShownInTime'
    BY <2>1 DEF ConnInv, ConnTypes, Named, DialsWhatWasAsked, LegsFit, Early, ShownInTime
  <2>7. Complete'
    <3>1. \A w \in Way : /\ Held(w) \in Nat /\ Held(w)' \in Nat /\ queue'[w] \in Nat
                         /\ passed[w] \in Nat /\ sent[w] \in Nat /\ queue[w] \in Nat
      BY <2>5 DEF ConnInv, ConnTypes, Held
    <3>2. \A w \in Way : Held(w)' + queue'[w] = Held(w) + queue[w]
      BY <2>1, <2>2 DEF ConnInv, ConnTypes, Held
    <3>3. \A w \in Way : at'[w] \in {"off", "wait", "write"} => at[w] \in {"off", "wait", "write"}
      BY <2>1 DEF ConnInv, ConnTypes
    <3> QED BY <2>1, <3>1, <3>2, <3>3 DEF ConnInv, Complete
  <2>8. KnowsTheEnd' /\ Told'
    BY <2>1, <2>3 DEF ConnInv, ConnTypes, KnowsTheEnd, Told, RecordToldRight
  <2> QED BY <2>5, <2>6, <2>7, <2>8 DEF ConnInv
<1>2. CASE WriteChunk(d)
  <2>1. /\ leg = "relay" /\ at[d] = "write" /\ at' = [at EXCEPT ![d] = "wait"]
        /\ passed' = [passed EXCEPT ![d] = @ + 1]
        /\ UNCHANGED <<named, took, leg, sends, seen, done, flags, record>>
    BY <1>2 DEF WriteChunk
  <2>2. ConnTypes'
    BY <2>1 DEF ConnInv, ConnTypes
  <2>3. Named' /\ LegsFit' /\ ShownInTime'
    BY <2>1 DEF ConnInv, ConnTypes, Named, DialsWhatWasAsked, LegsFit, Early, ShownInTime
  <2>4. Complete'
    <3>1. \A w \in Way : /\ Held(w) \in Nat /\ Held(w)' \in Nat /\ passed'[w] \in Nat
                         /\ passed[w] \in Nat /\ sent[w] \in Nat /\ queue[w] \in Nat
      BY <2>2 DEF ConnInv, ConnTypes, Held
    <3>2. \A w \in Way : Held(w)' + passed'[w] = Held(w) + passed[w]
      BY <2>1 DEF ConnInv, ConnTypes, Held
    <3>3. \A w \in Way : at'[w] \in {"off", "wait", "write"} => at[w] \in {"off", "wait", "write"}
      BY <2>1 DEF ConnInv, ConnTypes
    <3> QED BY <2>1, <3>1, <3>2, <3>3 DEF ConnInv, Complete
  <2>5. KnowsTheEnd' /\ Told'
    BY <2>1 DEF ConnInv, ConnTypes, KnowsTheEnd, Told, RecordToldRight
  <2> QED BY <2>2, <2>3, <2>4, <2>5 DEF ConnInv
<1>3. CASE FlushLoop(d)
  <2>1. /\ leg = "relay" /\ at[d] = "flush" /\ at' = [at EXCEPT ![d] = "done"]
        /\ aborted' = aborted \/ aborted' = TRUE
        /\ seen' = seen \/ \E end \in {"clean", "broken"} : d = "dn" /\ Show("dn", end)
        /\ UNCHANGED <<named, took, leg, sends, passed, done, clocks, localEof, overread, endReason,
                       record>>
    BY <1>3 DEF FlushLoop, Conclude
  <2>2. seen' \in [Way -> {"open", "clean", "broken"}] /\ \A w \in Way \ {d} : seen'[w] = seen[w]
    BY <2>1 DEF Show, ConnInv, ConnTypes
  <2>3. ConnTypes'
    BY <2>1, <2>2 DEF ConnInv, ConnTypes
  <2>4. Named' /\ LegsFit' /\ ShownInTime'
    BY <2>1, <2>2 DEF ConnInv, ConnTypes, Named, DialsWhatWasAsked, LegsFit, Early, ShownInTime
  <2>5. Complete'
    BY <2>1 DEF ConnInv, ConnTypes, Complete, Held
  <2>6. KnowsTheEnd' /\ Told'
    BY <2>1 DEF ConnInv, ConnTypes, KnowsTheEnd, Told, RecordToldRight
  <2> QED BY <2>3, <2>4, <2>5, <2>6 DEF ConnInv
<1> QED BY <1>1, <1>2, <1>3

\* Both loops are through.
LEMMA OverKeeps == ASSUME ConnInv, Joined \/ BothDone PROVE ConnInv'
<1> USE DEF named, took, sends, shows, clocks, flags, record
<1>1. /\ leg = "relay" /\ leg' = "gone" /\ UNCHANGED <<named, took, sends, passed, at, done, flags>>
  BY DEF Joined, BothDone
<1>2. seen' \in [Way -> {"open", "clean", "broken"}]
  <2>1. CASE Joined
    BY <2>1 DEF Joined, Show, ConnInv, ConnTypes
  <2>2. CASE BothDone
    <3>1. Dropped("dn") \in {{"broken"}, {"clean"}}
      BY DEF Dropped
    <3>2. (CHOOSE x \in Dropped("dn") : TRUE) \in {"broken", "clean"}
      BY <3>1
    <3>3. PICK e : e = CHOOSE x \in Dropped("dn") : TRUE
      OBVIOUS
    <3>4. \E end \in {"broken", "clean"} :
            seen' = [up |-> IF seen["up"] = "open" THEN end ELSE seen["up"],
                     dn |-> IF seen["dn"] # "open" THEN seen["dn"] ELSE e]
      BY <2>2, <3>3 DEF BothDone
    <3>5. e \in {"broken", "clean"}
      BY <3>2, <3>3
    <3> QED BY <3>4, <3>5 DEF ConnInv, ConnTypes, Way
  <2> QED BY <2>1, <2>2
<1>3. /\ praised' = praised
      /\ \/ blamed' = blamed
         \/ blamed' = blamed + 1 /\ NodeFailed /\ outlet \in Mirage /\ \A d \in Way : at[d] = "done"
  BY DEF Joined, BothDone, Blame
<1>4. ConnTypes'
  BY <1>1, <1>2, <1>3 DEF ConnInv, ConnTypes, Legs
<1>5. Named' /\ LegsFit' /\ ShownInTime' /\ Complete' /\ KnowsTheEnd'
  BY <1>1 DEF ConnInv, Named, DialsWhatWasAsked, LegsFit, Early, ShownInTime, Complete, Held,
     KnowsTheEnd
<1>6. Told'
  <2>1. blamed = 0
    BY <1>1 DEF ConnInv, Told
  <2>2. CASE blamed' = blamed
    BY <1>1, <1>3, <2>1, <2>2 DEF ConnInv, Told, RecordToldRight
  <2>3. CASE blamed' = blamed + 1 /\ NodeFailed /\ \A d \in Way : at[d] = "done"
    <3>1. passed["dn"] = 0 /\ endReason = "peer" /\ at["dn"] = "done"
      BY <2>3 DEF NodeFailed, Way
    <3>2. ~praised /\ fin["dn"] = "broken"
      BY <3>1 DEF ConnInv, Told, KnowsTheEnd
    <3> QED BY <1>1, <1>3, <2>1, <2>3, <3>1, <3>2 DEF Told, RecordToldRight
  <2> QED BY <1>3, <2>2, <2>3
<1> QED BY <1>4, <1>5, <1>6 DEF ConnInv

\* The invariant of a connection is inductive.
LEMMA ConnKeeps == ConnInv /\ [ConnNext]_connVars => ConnInv'
<1> SUFFICES ASSUME ConnInv, [ConnNext]_connVars PROVE ConnInv'
  OBVIOUS
<1>1. CASE UNCHANGED connVars
  BY <1>1 DEF connVars, named, took, sends, shows, clocks, flags, record, ConnInv, ConnTypes, Named,
     DialsWhatWasAsked, LegsFit, Early, ShownInTime, Complete, Held, KnowsTheEnd, Told,
     RecordToldRight
<1>2. CASE ConnNext
  BY <1>1, <1>2, EarlyKeeps, OutsideKeepsConn, TunnelLoopsEnd, LoopEndKeeps, LoopKeepsConn,
     OverKeeps
     DEF ConnNext, Gone
<1> QED BY <1>1, <1>2

\* Hence it always holds.
LEMMA ConnInvariant == ConnSpec => []ConnInv
  BY ConnStarts, ConnKeeps, PTL DEF ConnSpec

\* proxy_tcp_target dials what the application asked for, and classify_real_conn tells the record
\* of the node once, and only of the node's own failures.
THEOREM ConnAlwaysTrue == ConnSpec => []ConnTrue
<1>1. ConnInv => ConnTrue
  BY DEF ConnInv, Named, Told, ConnTrue
<1> QED BY <1>1, ConnInvariant, PTL

-----------------------------------------------------------------------------

\* What a step does to the two ways as a pipe sees them.
BothPipes == UpPipe!PipeNext /\ DownPipe!PipeNext

\* The outlet is chosen once, before anybody ended, and a download ends once.
Settled ==
  /\ outlet' = outlet \/ (outlet = "none" /\ fin["up"] = "open" /\ fin["dn"] = "open")
  /\ endReason' = endReason \/ endReason = "none"

\* A step that hands nothing over and shows nothing.
LEMMA QuietConn ==
  ASSUME ConnInv, Settled, UNCHANGED <<passed, seen>>,
         UNCHANGED <<sent, fin>> \/ \E d \in Way : SendChunk(d) \/ Finish(d)
  PROVE  BothPipes
<1> USE DEF Settled
<1>1. /\ fin["up"] # "open" => fin'["up"] # "open"
      /\ fin["dn"] # "open" => fin'["dn"] # "open"
  BY DEF SendChunk, Finish, ConnInv, ConnTypes, Way
<1>2. UpPipe!Deafens
  BY <1>1 DEF UpPipe!Deafens, NotMirage
<1>3. DownPipe!Deafens
  BY <1>1 DEF DownPipe!Deafens, NotMirage, TcpTunnels
<1>4. UpPipe!Passes /\ DownPipe!Passes /\ UpPipe!Shows /\ DownPipe!Shows
  BY DEF UpPipe!Passes, DownPipe!Passes, UpPipe!Shows, DownPipe!Shows
<1>5. UpPipe!Sends /\ DownPipe!Sends
  <2>1. CASE UNCHANGED <<sent, fin>>
    BY <2>1 DEF UpPipe!Sends, DownPipe!Sends
  <2>2. ASSUME NEW d \in Way, SendChunk(d) PROVE UpPipe!Sends /\ DownPipe!Sends
    BY <2>2 DEF SendChunk, UpPipe!Sends, DownPipe!Sends, ConnInv, ConnTypes, Way
  <2>3. ASSUME NEW d \in Way, Finish(d) PROVE UpPipe!Sends /\ DownPipe!Sends
    BY <2>3 DEF Finish, UpPipe!Sends, DownPipe!Sends
  <2> QED BY <2>1, <2>2, <2>3
<1>6. UpPipe!Finishes /\ DownPipe!Finishes
  <2>1. CASE UNCHANGED <<sent, fin>>
    BY <2>1 DEF UpPipe!Finishes, DownPipe!Finishes
  <2>2. ASSUME NEW d \in Way, SendChunk(d) PROVE UpPipe!Finishes /\ DownPipe!Finishes
    BY <2>2 DEF SendChunk, UpPipe!Finishes, DownPipe!Finishes, took
  <2>3. ASSUME NEW d \in Way, Finish(d) PROVE UpPipe!Finishes /\ DownPipe!Finishes
    BY <2>3 DEF Finish, UpPipe!Finishes, DownPipe!Finishes, UpPipe!Ends, DownPipe!Ends, ConnInv,
       ConnTypes, Way, took
  <2> QED BY <2>1, <2>2, <2>3
<1> QED BY <1>2, <1>3, <1>4, <1>5, <1>6 DEF BothPipes, UpPipe!PipeNext, DownPipe!PipeNext

\* A step that shows an end, and what makes that right.
LEMMA ShowingConn ==
  ASSUME ConnInv, UNCHANGED <<outlet, passed, sent, fin>>, Settled,
         seen["up"] # seen'["up"] =>
           /\ seen["up"] = "open" /\ seen'["up"] \in {"clean", "broken"}
           /\ seen'["up"] = "clean" =>
                \/ NotMirage
                \/ /\ passed["up"] = sent["up"]
                   /\ fin["up"] = "clean" \/ (outlet \in TcpTunnels /\ fin["up"] = "broken"),
         seen["dn"] # seen'["dn"] =>
           /\ seen["dn"] = "open" /\ seen'["dn"] \in {"clean", "broken"}
           /\ seen'["dn"] = "clean" =>
                \/ fin["dn"] = "clean" /\ passed["dn"] = sent["dn"]
                \/ NotMirage
                \/ outlet \in TcpTunnels /\ fin["up"] # "open"
                \/ outlet = "quic" /\ endReason' = "local"
  PROVE  BothPipes
<1> USE DEF Settled
<1>1. UpPipe!Deafens /\ DownPipe!Deafens
  BY DEF UpPipe!Deafens, DownPipe!Deafens, NotMirage
<1>2. UpPipe!Passes /\ DownPipe!Passes /\ UpPipe!Sends /\ DownPipe!Sends
  BY DEF UpPipe!Passes, DownPipe!Passes, UpPipe!Sends, DownPipe!Sends
<1>3. UpPipe!Shows
  BY DEF UpPipe!Shows, UpPipe!Ends, UpPipe!Whole, NotMirage
<1>4. DownPipe!Shows
  BY DEF DownPipe!Shows, DownPipe!Ends, DownPipe!Whole, NotMirage
<1>5. UpPipe!Finishes /\ DownPipe!Finishes
  BY DEF UpPipe!Finishes, DownPipe!Finishes
<1> QED BY <1>1, <1>2, <1>3, <1>4, <1>5 DEF BothPipes, UpPipe!PipeNext, DownPipe!PipeNext

\* A step that hands over what was sent, to one that has not been shown an end.
LEMMA PassingConn ==
  ASSUME ConnInv, UNCHANGED <<outlet, sent, fin, seen, endReason>>, NEW d \in Way,
         seen[d] = "open", NEW n \in Nat, n > 0, passed' = [passed EXCEPT ![d] = @ + n],
         passed[d] + n <= sent[d]
  PROVE  BothPipes
<1>1. UpPipe!Deafens /\ DownPipe!Deafens
  BY DEF UpPipe!Deafens, DownPipe!Deafens, NotMirage
<1>2. UpPipe!Passes /\ DownPipe!Passes
  BY DEF UpPipe!Passes, DownPipe!Passes, ConnInv, ConnTypes, Way
<1>3. UpPipe!Shows /\ DownPipe!Shows /\ UpPipe!Sends /\ DownPipe!Sends
  BY DEF UpPipe!Shows, DownPipe!Shows, UpPipe!Sends, DownPipe!Sends
<1>4. UpPipe!Finishes /\ DownPipe!Finishes
  BY DEF UpPipe!Finishes, DownPipe!Finishes
<1> QED BY <1>1, <1>2, <1>3, <1>4 DEF BothPipes, UpPipe!PipeNext, DownPipe!PipeNext

\* What concludes a download shows it for whole when it is, or to an application that has ended.
LEMMA ConcludesRight ==
  ASSUME ConnInv, NEW reason, Conclude(reason), outlet \in Mirage,
         reason \in {"notify", "refused", "peer", "idle", "local"},
         reason = "notify" => fin["dn"] = "clean" /\ passed["dn"] = sent["dn"],
         reason = "local" => fin["up"] # "open",
         outlet = "quic" => endReason' = reason
  PROVE  /\ seen'["up"] = seen["up"]
         /\ seen["dn"] # seen'["dn"] =>
           /\ seen["dn"] = "open" /\ seen'["dn"] \in {"clean", "broken"}
           /\ seen'["dn"] = "clean" =>
                \/ fin["dn"] = "clean" /\ passed["dn"] = sent["dn"]
                \/ outlet \in TcpTunnels /\ fin["up"] # "open"
                \/ outlet = "quic" /\ endReason' = "local"
<1>1. CASE Truncates(reason) /\ (outlet = "quic" \/ ~localEof)
  BY <1>1 DEF Conclude, Show, ConnInv, ConnTypes, Way
<1>2. CASE ~(Truncates(reason) /\ (outlet = "quic" \/ ~localEof))
  <2>1. Show("dn", "clean")
    BY <1>2 DEF Conclude
  <2>2. reason \in {"notify", "local"} \/ (outlet # "quic" /\ localEof)
    BY <1>2 DEF Truncates
  <2>3. localEof => fin["up"] # "open"
    BY DEF ConnInv, KnowsTheEnd
  <2> QED BY <2>1, <2>2, <2>3 DEF Show, ConnInv, ConnTypes, Way, Mirage
<1> QED BY <1>1, <1>2

\* Under it every step of a connection is a step of both pipes, or none.
LEMMA ConnPipeSteps == ConnInv /\ ConnInv' /\ [ConnNext]_connVars => BothPipes
<1> SUFFICES ASSUME ConnInv, ConnInv', [ConnNext]_connVars PROVE BothPipes
  OBVIOUS
<1> USE DEF named, took, sends, shows, clocks, flags, record
<1>1. CASE UNCHANGED connVars \/ Greet \/ NameTarget \/ Choose \/ ConnTick \/ Gone
  <2>1. UNCHANGED <<sent, fin, passed, seen>> /\ Settled
    BY <1>1 DEF connVars, Greet, NameTarget, Choose, ConnTick, Gone, Settled, ConnInv, LegsFit,
       Early,
       Way
  <2> QED BY <2>1, QuietConn
<1>2. CASE Attempt \/ Connect
  <2>1. /\ UNCHANGED <<outlet, sent, fin, seen, endReason>>
        /\ \/ UNCHANGED passed
           \/ leg' = "relay" /\ passed' = [passed EXCEPT !["up"] = queue["up"]]
    BY <1>2 DEF Attempt, Connect, Begins
  <2>2. /\ passed["up"] = 0 /\ seen["up"] = "open" /\ queue["up"] \in Nat
        /\ queue["up"] <= sent["up"]
    BY <1>2 DEF Attempt, Connect, ConnInv, ConnTypes, LegsFit, Early, ShownInTime, Complete, Held,
       Way
  <2>3. CASE UNCHANGED passed
    BY <2>1, <2>3, QuietConn DEF Settled
  <2>4. CASE passed' = [passed EXCEPT !["up"] = queue["up"]] /\ queue["up"] = 0
    <3>1. UNCHANGED passed
      BY <2>2, <2>4 DEF ConnInv, ConnTypes
    <3> QED BY <2>3, <3>1
  <2>5. CASE passed' = [passed EXCEPT !["up"] = queue["up"]] /\ queue["up"] > 0
    <3>1. passed["up"] + queue["up"] = queue["up"]
      BY <2>2
    <3>2. /\ passed' = [passed EXCEPT !["up"] = passed["up"] + queue["up"]] /\ "up" \in Way
          /\ passed["up"] + queue["up"] <= sent["up"]
      BY <2>2, <2>5, <3>1 DEF Way
    <3> QED BY ONLY ConnInv, <2>1, <2>2, <2>5, <3>2, PassingConn, Zenon
  <2> QED BY <2>1, <2>2, <2>3, <2>4, <2>5
<1>3. ASSUME NEW d \in Way, SendChunk(d) \/ Finish(d) PROVE BothPipes
  BY <1>3, QuietConn DEF SendChunk, Finish, Settled
<1>4. ASSUME NEW d \in Way, ReadChunk(d) PROVE BothPipes
  BY <1>4, QuietConn DEF ReadChunk, Settled
<1>5. ASSUME NEW d \in Way, WriteChunk(d) PROVE BothPipes
  <2>1. /\ UNCHANGED <<outlet, sent, fin, seen, endReason>> /\ leg = "relay" /\ at[d] = "write"
        /\ passed' = [passed EXCEPT ![d] = @ + 1]
    BY <1>5 DEF WriteChunk, Loops
  <2>2. seen[d] = "open" /\ 1 \in Nat /\ 1 > 0
    BY <2>1 DEF ConnInv, ShownInTime
  <2>3. passed[d] + 1 <= sent[d]
    BY <2>1 DEF ConnInv, ConnTypes, Complete, Held
  <2>4. passed' = [passed EXCEPT ![d] = passed[d] + 1]
    BY <2>1
  <2> QED BY ONLY ConnInv, d \in Way, <2>1, <2>2, <2>3, <2>4, PassingConn, Zenon
<1>6. CASE UpEnds
  <2>1. /\ UNCHANGED <<outlet, passed, sent, fin, endReason>>
        /\ \/ UNCHANGED seen \/ Show("up", "broken")
           \/ /\ Show("up", "clean") /\ Loops("up", "wait")
              /\ \/ Result("up") = "clean"
                 \/ Result("up") = "broken" /\ ~aborted /\ outlet = "nested"
    BY <1>6, Zenon DEF UpEnds, Ends
  <2>2. CASE UNCHANGED seen \/ Show("up", "broken")
    BY <2>1, <2>2, ShowingConn DEF Show, ConnInv, ConnTypes, Way, Settled
  <2>3. ASSUME Show("up", "clean"), Loops("up", "wait"),
               Result("up") = "clean" \/ (Result("up") = "broken" /\ ~aborted /\ outlet = "nested")
        PROVE  BothPipes
    <3>1. queue["up"] = 0 /\ fin["up"] # "open" /\ passed["up"] = sent["up"]
      BY <2>3, ReadsTheEnd DEF Way
    <3>2. fin["up"] = "clean" \/ (outlet \in TcpTunnels /\ fin["up"] = "broken")
      <4>1. fin["up"] \in {"clean", "broken"} /\ (overread => outlet \in TcpTunnels)
        BY <3>1 DEF ConnInv, ConnTypes, KnowsTheEnd, Way
      <4>2. CASE overread \/ outlet = "nested"
        BY <4>1, <4>2 DEF TcpTunnels
      <4>3. CASE ~overread /\ outlet # "nested"
        <5>1. Result("up") = "clean"
          BY <2>3, <4>3
        <5>2. Result("up") \in {"broken", fin["up"]}
          BY <3>1, <4>3 DEF Result
        <5> QED BY <5>1, <5>2
      <4> QED BY <4>2, <4>3
    <3> QED BY <2>1, <2>3, <3>1, <3>2, ShowingConn DEF Show, ConnInv, ConnTypes, Way, Settled
  <2> QED BY <2>1, <2>2, <2>3
<1>7. CASE DnEnds
  <2>1. /\ UNCHANGED <<outlet, passed, sent, fin>> /\ at["dn"] \in {"wait", "write"}
        /\ outlet \in Mirage
        /\ UNCHANGED seen \/ (outlet = "quic" /\ Conclude(endReason'))
    BY <1>7 DEF DnEnds, Ends, Loops, ReceiverGone
  <2>2. endReason = "none" /\ Settled
    BY <2>1 DEF ConnInv, KnowsTheEnd, Settled
  <2>3. CASE UNCHANGED seen
    BY <2>1, <2>2, <2>3, ShowingConn
  <2>4. CASE outlet = "quic" /\ Conclude(endReason')
    <3>1. /\ endReason' \in {"notify", "refused", "peer", "idle", "local"}
          /\ endReason' = "notify" => fin["dn"] = "clean" /\ passed["dn"] = sent["dn"]
          /\ endReason' = "local" => fin["up"] # "open"
      BY <1>7, <2>1 DEF DnEnds, ConnInv, KnowsTheEnd
    <3> QED BY <2>1, <2>2, <2>4, <3>1, ConcludesRight, ShowingConn
  <2> QED BY <2>1, <2>3, <2>4
<1>8. ASSUME NEW d \in Way, FlushLoop(d) PROVE BothPipes
  <2>1. /\ UNCHANGED <<outlet, passed, sent, fin, endReason>> /\ at[d] = "flush"
        /\ UNCHANGED seen \/ (d = "dn" /\ Conclude(endReason))
    BY <1>8 DEF FlushLoop, Loops
  <2>2. CASE UNCHANGED seen
    BY <2>1, <2>2, ShowingConn DEF Settled
  <2>3. CASE d = "dn" /\ Conclude(endReason)
    <3>1. /\ endReason \in {"notify", "refused", "peer", "idle", "local"}
          /\ endReason = "notify" => fin["dn"] = "clean" /\ passed["dn"] = sent["dn"]
          /\ endReason = "local" => fin["up"] # "open"
          /\ outlet \in Mirage
      BY <2>1, <2>3 DEF ConnInv, ConnTypes, LegsFit, KnowsTheEnd, Mirage, Way
    <3> QED BY <2>1, <2>3, <3>1, ConcludesRight, ShowingConn DEF Settled
  <2> QED BY <2>1, <2>2, <2>3
<1>9. CASE Joined
  BY <1>9, ShowingConn DEF Joined, Show, ConnInv, ConnTypes, Way, Settled
<1>10. ASSUME NEW d \in Way, HalfDone(d) PROVE BothPipes
  <2>1. /\ UNCHANGED <<outlet, passed, sent, fin, endReason>> /\ Show(d, "clean")
            /\ Loops(d, "wait")
        /\ outlet \notin Mirage
    BY <1>10 DEF HalfDone, Ends
  <2>2. NotMirage
    BY <2>1 DEF ConnInv, LegsFit, Loops, Outlets, NotMirage
  <2> QED BY <2>1, <2>2, ShowingConn DEF Show, ConnInv, ConnTypes, Way, Settled
<1>11. CASE BothDone
  <2>1. /\ UNCHANGED <<outlet, passed, sent, fin, endReason>> /\ leg = "relay"
            /\ outlet \notin Mirage
        /\ \A d \in Way : seen[d] # "open" => seen'[d] = seen[d]
    BY <1>11 DEF BothDone, Way
  <2>2. NotMirage
    BY <2>1 DEF ConnInv, LegsFit, Outlets, NotMirage
  <2>3. \A d \in Way : seen'[d] \in {"open", "clean", "broken"}
    BY DEF ConnInv, ConnTypes
  <2> QED BY <2>1, <2>2, <2>3, ShowingConn DEF Settled, Way
<1> QED BY <1>1, <1>2, <1>3, <1>4, <1>5, <1>6, <1>7, <1>8, <1>9, <1>10, <1>11 DEF ConnNext

\* A connection over Mirage implements HalfPipe in both directions: chunks arrive once and in
\* order, and an end is shown as clean only after all of them (relay_tunnel, abort_socket).
THEOREM ConnIsPipe == ConnSpec => ConnIsAPipe
<1>1. ConnInit => UpPipe!PipeInit /\ DownPipe!PipeInit
  BY DEF ConnInit, UpPipe!PipeInit, DownPipe!PipeInit, NotMirage, Way, EarlyBytes
<1>2. BothPipes => UpPipe!PipeNext /\ DownPipe!PipeNext
  BY DEF BothPipes
<1> QED BY <1>1, <1>2, ConnInvariant, ConnPipeSteps, PTL
     DEF ConnSpec, ConnIsAPipe, UpPipe!PipeSpec, DownPipe!PipeSpec
=============================================================================
