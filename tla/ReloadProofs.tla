---------------------------- MODULE ReloadProofs ----------------------------
(***************************************************************************)
(* Proofs about what a process refreshes while it runs: the rules (Routing),*)
(* the rules' data (GeoUpdate), the outlets of a server (ServerRouter),    *)
(* what it keeps of the site it looks like (CamouflageSite), and what of   *)
(* its configuration, which it starts with (Startup, ApplyPlan).           *)
(***************************************************************************)
EXTENDS WellFoundedInduction, SequenceTheorems, FiniteSetTheorems, TLAPS, Routing, GeoUpdate,
        CamouflageSite, ServerRouter, ApplyPlan

-----------------------------------------------------------------------------
(* The rules.                                                              *)

\* A nonempty set of numbers has a least one.
LEMMA LeastNumber ==
  ASSUME NEW S \in SUBSET Nat, S # {} PROVE \E m \in S : \A n \in S : m <= n
  <1>1. PICK m \in S : \A n \in S : ~ (<<n, m>> \in OpToRel(<, Nat))
    BY NatLessThanWellFounded, WFMin
  <1>2. \A n \in S : ~(n < m)
    BY <1>1 DEF OpToRel
  <1> QED BY <1>2

\* What Smallest says of a set of rules: none, or the one that comes first.
LEMMA SmallestFacts ==
  ASSUME NEW S \in SUBSET (Nat \ {0})
  PROVE  /\ S = {} => Smallest(S) = 0
         /\ S # {} => Smallest(S) \in S /\ \A i \in S : Smallest(S) <= i
  <1>1. CASE S = {}
    BY <1>1 DEF Smallest
  <1>2. CASE S # {}
    <2>1. \E m \in S : \A n \in S : m <= n
      BY <1>2, LeastNumber
    <2>2. Smallest(S) = CHOOSE i \in S : \A j \in S : i <= j
      BY <1>2 DEF Smallest
    <2> QED BY <1>2, <2>1, <2>2
  <1> QED BY <1>1, <1>2

\* Two tests of the rules pick the same one, when those before it fail both, and it passes both.
LEMMA SameSmallest ==
  ASSUME NEW S \in SUBSET (Nat \ {0}), NEW T \in SUBSET (Nat \ {0}),
         T \subseteq S, S # {} => Smallest(S) \in T
  PROVE  Smallest(S) = Smallest(T)
  <1>1. CASE S = {}
    BY <1>1
  <1>2. CASE S # {}
    <2>1. Smallest(S) \in S /\ \A i \in S : Smallest(S) <= i
      BY <1>2, SmallestFacts
    <2>2. Smallest(T) \in T /\ \A i \in T : Smallest(T) <= i
      BY <1>2, SmallestFacts
    <2>3. Smallest(S) <= Smallest(T) /\ Smallest(T) <= Smallest(S)
      BY <1>2, <2>1, <2>2
    <2>4. Smallest(S) \in Nat /\ Smallest(T) \in Nat
      BY <2>1, <2>2
    <2> QED BY <2>3, <2>4
  <1> QED BY <1>1, <1>2

-----------------------------------------------------------------------------
\* What route_matched asks of rule id for a domain with its address.
Counts(t, q, id) ==
  /\ Count(id \in DomainIds(t, q.domain)) + Count(id \in IpIds(t, q.ip))
       + Count(~HasNetworkFilters(t[id])) >= Required(t[id])
  /\ MatchesPort(t[id], q) /\ MatchesExtra(t[id], q)

\* With both known, the rule that matches is the first that counts.
LEMMA RouteMatchedCounts ==
  ASSUME NEW t, NEW q, q.domain # <<>>, q.ip # NoAddr
  PROVE  RouteMatched(t, q) = Smallest({id \in DOMAIN t : Counts(t, q, id)})
  BY DEF RouteMatched, Counts

\* A rule that names no address has the address of a request only through its lists of sites.
LEMMA IpNeedsFilter ==
  ASSUME NEW t, NEW id \in DOMAIN t, NEW q, ~HasIpFilters(t[id])
  PROVE  id \in IpIds(t, q.ip) <=> \E n \in SiteNets(t[id]) : InNet(n, q.ip)
  <1>1. t[id].nets = {} /\ t[id].geoips = {}
    BY DEF HasIpFilters
  <1>2. NetsOf(t[id]) = SiteNets(t[id])
    BY <1>1 DEF NetsOf, SiteNets
  <1> QED BY <1>2 DEF IpIds

\* A list of sites is a filter on domains.
LEMMA SitesAreFilters ==
  ASSUME NEW r, SiteNets(r) # {} PROVE HasDomainFilters(r)
  <1>1. r.sites # {}
    BY DEF SiteNets, Sites
  <1> QED BY <1>1 DEF HasDomainFilters

\* A rule of such a list counts with the address, whatever its domain.
LEMMA BySitesCount ==
  ASSUME NEW t, NEW q, NEW id \in BySites(t, q) PROVE Counts(t, q, id)
  <1>1. /\ id \in DOMAIN t /\ ~HasIpFilters(t[id])
        /\ MatchesPort(t[id], q) /\ MatchesExtra(t[id], q)
        /\ \E n \in SiteNets(t[id]) : InNet(n, q.ip)
    BY DEF BySites
  <1>2. id \in IpIds(t, q.ip)
    BY <1>1, IpNeedsFilter
  <1>3. HasDomainFilters(t[id])
    BY <1>1, SitesAreFilters
  <1> QED BY <1>1, <1>2, <1>3 DEF Counts, Required, Count, HasNetworkFilters

\* A rule that the search for the domain skips counts with an address only if it is of such a
\* list; one for which the domain is enough counts with every address.
LEMMA VerdictStands ==
  ASSUME NEW t, NEW id \in DOMAIN t, NEW q \in Request,
         NEW ip \in Addr, NEW full, full = [q EXCEPT !.ip = ip]
  PROVE  /\ Verdict(t, q, id) = "skip" /\ Counts(t, full, id) => id \in BySites(t, full)
         /\ Verdict(t, q, id) = "matched" => Counts(t, full, id)
  <1>1. /\ full.domain = q.domain /\ full.port = q.port /\ full.inbound = q.inbound
        /\ full.ip = ip
    BY DEF Request
  <1>2. /\ MatchesPort(t[id], full) = MatchesPort(t[id], q)
        /\ MatchesExtra(t[id], full) = MatchesExtra(t[id], q)
    BY <1>1 DEF MatchesPort, MatchesExtra
  <1>3. ~HasIpFilters(t[id]) /\ id \in IpIds(t, full.ip)
          /\ MatchesPort(t[id], full) /\ MatchesExtra(t[id], full) => id \in BySites(t, full)
    BY IpNeedsFilter DEF BySites
  <1> QED
    BY <1>1, <1>2, <1>3 DEF Verdict, Counts, Required, Count, HasNetworkFilters

\* The rules are always a table that was configured.
LEMMA RulesConfigured == RoutingSpec => [](rules \in Tables)
  <1>1. RoutingInit => rules \in Tables
    BY DEF RoutingInit
  <1>2. rules \in Tables /\ [RoutingNext]_routingVars => (rules \in Tables)'
    BY DEF RoutingNext, Connect, NewTable, routingVars
  <1> QED BY <1>1, <1>2, PTL DEF RoutingSpec

\* A decision without the address is the one with it, whatever the address is, but for the
\* rules whose lists of sites name networks.
LEMMA DecisionStands ==
  ASSUME NEW t \in Tables, NEW q \in Request, NEW ip \in Addr,
         q.domain # <<>>, q.ip = NoAddr, ~Decision(t, q).needIp,
         NEW full, full = [q EXCEPT !.ip = ip]
  PROVE  /\ RouteMatched(t, full) = Smallest(({Decision(t, q).id} \ {0}) \cup BySites(t, full))
         /\ Decision(t, q).id # 0 =>
              Decision(t, q).id \in DOMAIN t /\ Verdict(t, q, Decision(t, q).id) = "matched"
         /\ \A id \in DOMAIN t : Decision(t, q).id = 0 \/ id < Decision(t, q).id =>
              Verdict(t, q, id) = "skip"
  <1>1. full.domain = q.domain /\ full.ip = ip
    BY DEF Request
  <1>2. ip # NoAddr
    BY RoutingAssumption DEF Addr, NoAddr
  <1>3. PICK S : S = {i \in DOMAIN t : Verdict(t, q, i) # "skip"}
    OBVIOUS
  <1>4. PICK T : T = {i \in DOMAIN t : Counts(t, full, i)}
    OBVIOUS
  <1>5. PICK B : B = BySites(t, full)
    OBVIOUS
  <1>6. S \in SUBSET (Nat \ {0}) /\ T \in SUBSET (Nat \ {0}) /\ B \subseteq T
    <2>1. \A i \in B : i \in DOMAIN t /\ Counts(t, full, i)
      BY <1>5, BySitesCount DEF BySites
    <2>2. DOMAIN t \in SUBSET (Nat \ {0})
      BY RoutingAssumption
    <2>3. S \subseteq DOMAIN t /\ T \subseteq DOMAIN t /\ B \subseteq T
      BY <1>3, <1>4, <2>1
    <2> QED BY <2>2, <2>3
  <1>7. Decision(t, q) = IF Smallest(S) = 0 THEN [id |-> 0, needIp |-> FALSE]
                         ELSE [id |-> Smallest(S), needIp |-> Verdict(t, q, Smallest(S)) = "needIp"]
    BY <1>3 DEF Decision
  <1>8. PICK d : d = Decision(t, q).id
    OBVIOUS
  <1>9. d = Smallest(S)
    BY <1>7, <1>8
  <1>10. S # {} => d \in S /\ d # 0 /\ \A i \in S : d <= i
    BY <1>6, <1>9, SmallestFacts
  <1>11. S = {} => d = 0
    BY <1>6, <1>9, SmallestFacts
  <1>12. ASSUME d # 0 PROVE d \in DOMAIN t /\ Verdict(t, q, d) = "matched"
    <2>1. d \in S
      BY <1>10, <1>11, <1>12
    <2>2. PICK need \in BOOLEAN : need = (Verdict(t, q, d) = "needIp")
      OBVIOUS
    <2>3. Decision(t, q) = [id |-> d, needIp |-> need]
      BY <1>7, <1>9, <1>12, <2>2
    <2>4. ~need
      BY <2>3
    <2> QED BY <1>3, <2>1, <2>2, <2>4 DEF Verdict
  <1>13. \A id \in DOMAIN t : d = 0 \/ id < d => Verdict(t, q, id) = "skip"
    <2>1. ASSUME NEW id \in DOMAIN t, id \in S, d = 0 \/ id < d PROVE FALSE
      <3>1. d \in Nat \ {0} /\ id \in Nat /\ d <= id
        BY <1>6, <1>10, <2>1
      <3> QED BY <2>1, <3>1
    <2> QED BY <1>3, <2>1
  <1>14. PICK D : D = ({d} \ {0}) \cup B
    OBVIOUS
  <1>15. D \subseteq T
    BY <1>1, <1>4, <1>6, <1>12, <1>14, VerdictStands
  <1>16. ASSUME T # {} PROVE Smallest(T) \in D
    <2>1. PICK m : m = Smallest(T)
      OBVIOUS
    <2>2. m \in T /\ \A i \in T : m <= i
      BY <1>6, <1>16, <2>1, SmallestFacts
    <2>3. CASE m \in S
      <3>1. d \in T /\ d \in D
        BY <1>10, <1>14, <1>15, <2>3
      <3>2. m <= d /\ d <= m /\ m \in Nat /\ d \in Nat
        BY <1>6, <1>10, <2>2, <2>3, <3>1
      <3> QED BY <2>1, <3>1, <3>2
    <2>4. CASE m \notin S
      <3>1. m \in DOMAIN t /\ Verdict(t, q, m) = "skip" /\ Counts(t, full, m)
        BY <1>3, <1>4, <2>2, <2>4
      <3>2. m \in B
        BY <1>5, <3>1, VerdictStands
      <3> QED BY <1>14, <2>1, <3>2
    <2> QED BY <2>3, <2>4
  <1>17. Smallest(T) = Smallest(D)
    <2>1. D \in SUBSET (Nat \ {0})
      BY <1>6, <1>15
    <2> QED BY <1>6, <1>15, <1>16, <2>1, SameSmallest
  <1>18. RouteMatched(t, full) = Smallest(T)
    BY <1>1, <1>2, <1>4, RouteMatchedCounts
  <1> QED BY <1>5, <1>8, <1>12, <1>13, <1>14, <1>17, <1>18

\* The automaton reports no keyword that the domain does not have.
LEMMA KeywordsOccur ==
  ASSUME NEW t, NEW d, NEW id \in DOMAIN t
  PROVE  LET occurs == \E i, j \in 1..Len(d) : i <= j /\ SubSeq(d, i, j) \in KeywordOf(t[id])
         IN  /\ id \in KeywordIds(t, d) => occurs
             /\ occurs => id \in KeywordIds(t, d) \cup Missed(t, d)
  <1>1. KeywordIds(t, d) \subseteq {o.id : o \in Occurrences(t, d)}
    BY DEF KeywordIds
  <1>2. ASSUME NEW o \in Occurrences(t, d), o.id = id
        PROVE  \E i, j \in 1..Len(d) : i <= j /\ SubSeq(d, i, j) \in KeywordOf(t[id])
    BY <1>2 DEF Occurrences
  <1>3. ASSUME NEW i \in 1..Len(d), NEW j \in 1..Len(d), i <= j,
               SubSeq(d, i, j) \in KeywordOf(t[id])
        PROVE  id \in {o.id : o \in Occurrences(t, d)}
    <2>1. [id |-> id, first |-> i, last |-> j] \in Occurrences(t, d)
      BY <1>3 DEF Occurrences
    <2> QED BY <2>1
  <1> QED BY <1>1, <1>2, <1>3 DEF Missed

\* What the verdict without the address has to do with what the documentation says of the rule.
LEMMA VerdictMatches ==
  ASSUME NEW t \in Tables, NEW id \in DOMAIN t, NEW q \in Request, q.domain # <<>>,
         NEW ip \in Addr, NEW full, full = [q EXCEPT !.ip = ip]
  PROVE  /\ Verdict(t, q, id) = "matched" => RuleMatches(t[id], full)
         /\ Verdict(t, q, id) = "skip" /\ RuleMatches(t[id], full) =>
              id \in BySites(t, full) \cup Missed(t, q.domain)
  <1>1. /\ full.domain = q.domain /\ full.port = q.port /\ full.inbound = q.inbound
        /\ full.ip = ip /\ ip # NoAddr
    BY RoutingAssumption DEF Request, Addr, NoAddr
  <1>2. /\ MatchesPort(t[id], full) = MatchesPort(t[id], q)
        /\ MatchesExtra(t[id], full) = MatchesExtra(t[id], q)
    BY <1>1 DEF MatchesPort, MatchesExtra
  <1>3. PICK dom \in BOOLEAN :
          dom = (\/ q.domain \in FullOf(t[id])
                 \/ \E s \in SuffixOf(t[id]) : LabelSuffix(s, q.domain)
                 \/ \E i, j \in 1..Len(q.domain) :
                      i <= j /\ SubSeq(q.domain, i, j) \in KeywordOf(t[id]))
    OBVIOUS
  <1>4. PICK net \in BOOLEAN : net = \E n \in NetsOf(t[id]) : InNet(n, ip)
    OBVIOUS
  <1>5. PICK hit \in BOOLEAN : hit <=> id \in DomainIds(t, q.domain)
    OBVIOUS
  <1>6. (hit => dom) /\ (dom /\ ~hit => id \in Missed(t, q.domain))
    <2>1. PICK occurs \in BOOLEAN :
            occurs = \E i, j \in 1..Len(q.domain) :
                       i <= j /\ SubSeq(q.domain, i, j) \in KeywordOf(t[id])
      OBVIOUS
    <2>2. /\ id \in KeywordIds(t, q.domain) => occurs
          /\ occurs => id \in KeywordIds(t, q.domain) \cup Missed(t, q.domain)
      BY <2>1, KeywordsOccur
    <2> QED BY <1>3, <1>5, <2>1, <2>2 DEF DomainIds
  <1>7. MatchesPort(t[id], q) /\ MatchesExtra(t[id], q) /\ ~HasIpFilters(t[id]) /\ net
          => id \in BySites(t, full)
    <2>1. ASSUME ~HasIpFilters(t[id]), net PROVE \E n \in SiteNets(t[id]) : InNet(n, full.ip)
      <3>1. id \in IpIds(t, full.ip)
        BY <1>1, <1>4, <2>1 DEF IpIds
      <3> QED BY <2>1, <3>1, IpNeedsFilter
    <2> QED BY <1>2, <2>1 DEF BySites
  <1>8. RuleMatches(t[id], full) <=>
          /\ MatchesPort(t[id], q) /\ MatchesExtra(t[id], q)
          /\ \/ ~HasNetworkFilters(t[id])
             \/ t[id].mode # "and" /\ (dom \/ net)
             \/ /\ t[id].mode = "and"
                /\ HasDomainFilters(t[id]) => dom
                /\ HasIpFilters(t[id]) => net
    BY <1>1, <1>2, <1>3, <1>4 DEF RuleMatches
  <1> QED
    BY <1>5, <1>6, <1>7, <1>8 DEF Verdict, HasNetworkFilters

\* route_decision, which decides for a domain without its address, and route_matched, which
\* decides with it, part only where a rule's list of sites names networks as well, as one in the
\* format of sing-box may; and the first decides by the first rule that matches as documented,
\* but for those rules and for keywords that the automaton misses as they overlap.  For every
\* table of rules, every domain and every address.
THEOREM LateResolutionAlwaysAgrees == RoutingSpec => []LateResolutionAgrees
  <1>1. rules \in Tables => LateResolutionAgrees
    <2>1. SUFFICES ASSUME rules \in Tables, NEW q \in Request, NEW ip \in Addr,
                          q.domain # <<>>, q.ip = NoAddr, ~Decision(rules, q).needIp
                   PROVE  LET d == Decision(rules, q)
                              full == [q EXCEPT !.ip = ip]
                              passed == {id \in DOMAIN rules : d.id = 0 \/ id < d.id}
                          IN  /\ RouteMatched(rules, full)
                                   = Smallest(({d.id} \ {0}) \cup BySites(rules, full))
                              /\ d.id # 0 => RuleMatches(rules[d.id], full)
                              /\ \A id \in passed : RuleMatches(rules[id], full) =>
                                   id \in BySites(rules, full) \cup Missed(rules, q.domain)
      BY DEF LateResolutionAgrees
    <2>2. PICK full : full = [q EXCEPT !.ip = ip]
      OBVIOUS
    <2>3. PICK d : d = Decision(rules, q).id
      OBVIOUS
    <2>4. /\ RouteMatched(rules, full) = Smallest(({d} \ {0}) \cup BySites(rules, full))
          /\ d # 0 => d \in DOMAIN rules /\ Verdict(rules, q, d) = "matched"
          /\ \A id \in DOMAIN rules : d = 0 \/ id < d => Verdict(rules, q, id) = "skip"
      BY <2>1, <2>2, <2>3, DecisionStands
    <2>5. d # 0 => RuleMatches(rules[d], full)
      BY <2>1, <2>2, <2>4, VerdictMatches
    <2>6. ASSUME NEW id \in DOMAIN rules, d = 0 \/ id < d, RuleMatches(rules[id], full)
          PROVE  id \in BySites(rules, full) \cup Missed(rules, q.domain)
      <3>1. Verdict(rules, q, id) = "skip"
        BY <2>4, <2>6
      <3> QED BY <2>1, <2>2, <2>6, <3>1, VerdictMatches
    <2> QED BY <2>2, <2>3, <2>4, <2>5, <2>6
  <1> QED BY <1>1, RulesConfigured, PTL

-----------------------------------------------------------------------------
(* The data of the rules.                                                  *)

InRound == task \in {"source", "rename", "save"}

\* What is known of where the file comes from: meta.json names its source, unless the file was
\* replaced last; a round's copy of meta.json names it as long as the file is this old one; and
\* what was downloaded is of the source that the round goes by.
GeoKnown ==
  /\ torn \in BOOLEAN /\ (task \in {"source", "rename"} => ok = FALSE)
  /\ DOMAIN mem = {"url", "tag", "day"} /\ DOMAIN meta = {"url", "tag", "day"}
  /\ dat # NoDat /\ ~torn => meta # NoMeta /\ meta.url = dat.url
  /\ dat # NoDat /\ ~torn /\ InRound => mem # NoMeta /\ mem.url = dat.url
  /\ task = "source" => mem.url = meta.url
  /\ task = "rename" => body.url = snap
GeoSound == GeoKnown /\ GeoFromSource

\* Nothing is fetched and recorded at the start.
LEMMA GeoSoundInit == GeoInit => GeoSound
  BY DEF GeoInit, GeoSound, GeoKnown, GeoFromSource, InRound, NoMeta

\* What a round holds stays of the source it has read, step by step.
LEMMA GeoSoundStep == GeoSound /\ [GeoNext]_geoVars => GeoSound'
  <1> SUFFICES ASSUME GeoSound, [GeoNext]_geoVars PROVE GeoSound'
    OBVIOUS
  <1> USE DEF GeoSound, GeoKnown, GeoFromSource, InRound
  \* What is from outside: the file goes, and nothing else that counts changes.
  <1>1. ASSUME UNCHANGED <<task, snap, meta, mem, body, ok, torn>>, dat' \in {dat, NoDat}
        PROVE  GeoSound'
    BY <1>1
  <1>2. CASE \/ \E s \in Url \cup {NoSource, Duplicate} : Configure(s)
             \/ \E u \in Url : Release(u)
             \/ DeleteDat \/ Day
    BY <1>1, <1>2 DEF Configure, Release, DeleteDat, Day
  <1>3. CASE Restart
    BY <1>3 DEF Restart, NoMeta
  <1>4. CASE Load \/ Woken \/ TimesUp
    BY <1>4 DEF Load, Woken, TimesUp, Goto
  <1>5. CASE Check
    BY <1>5 DEF Check, Goto
  <1>6. CASE Skip
    <2>1. /\ UNCHANGED <<snap, dat, meta, mem, torn>> /\ task' = "save" /\ task = "source"
          /\ dat # NoDat /\ (mem = NoMeta \/ mem.url = snap)
      BY <1>6 DEF Skip, Fresh, UrlChanged, Goto
    <2>2. meta.url \in {snap, NoSource}
      BY <2>1 DEF NoMeta
    <2>3. ~torn => dat.url = snap
      BY <2>1
    <2>4. torn \in BOOLEAN
      OBVIOUS
    <2>5. GeoFromSource'
      BY <2>1, <2>2, <2>3, <2>4
    <2> QED BY <2>1, <2>5
  <1>7. CASE Fetch
    <2>1. CASE task' = "save" /\ UNCHANGED <<mem, body, ok>>
      <3>1. UNCHANGED <<snap, dat, meta, torn>> /\ task = "source"
        BY <1>7 DEF Fetch
      <3>2. GeoFromSource'
        BY <2>1, <3>1  \* the round has not taken the file for anybody's yet
      <3> QED BY <2>1, <3>1, <3>2
    <2>2. CASE /\ Condition # 0 /\ mem' = [mem EXCEPT !.url = snap, !.day = today]
               /\ task' = "save"
      <3>1. UNCHANGED <<snap, dat, meta, torn>>
        BY <1>7 DEF Fetch
      <3>2. dat # NoDat /\ mem # NoMeta /\ mem.url = snap /\ mem.tag # 0
        BY <2>2 DEF Condition, UrlChanged
      <3>3. mem'.url = snap /\ mem'.tag = mem.tag /\ DOMAIN mem' = {"url", "tag", "day"}
        BY <2>2
      <3>4. mem' # NoMeta
        <4>1. NoMeta.tag = 0 BY DEF NoMeta
        <4> QED BY <3>2, <3>3, <4>1
      <3>5. (~torn => dat.url = snap) /\ meta.url = snap
        BY <1>7, <3>2 DEF Fetch
      <3>6. GeoFromSource'
        BY <2>2, <3>1, <3>5
      <3> QED BY <2>2, <3>1, <3>3, <3>4, <3>5, <3>6
    <2>3. CASE /\ body' = [url |-> snap, ver |-> up[snap]] /\ task' = "rename"
               /\ UNCHANGED <<mem, ok>>
      <3>1. /\ UNCHANGED <<snap, dat, meta, torn>> /\ task = "source" /\ ok' = FALSE
            /\ body'.url = snap' /\ mem' = mem
        BY <1>7, <2>3 DEF Fetch
      <3> QED BY <2>3, <3>1
    <2> QED BY <1>7, <2>1, <2>2, <2>3 DEF Fetch, Goto
  <1>8. CASE Rename
    <2>1. CASE /\ dat' = [url |-> body.url, ver |-> body.ver, day |-> today]
               /\ mem' = [url |-> snap, tag |-> body.ver, day |-> today]
               /\ ok' = TRUE /\ torn' = TRUE
      <3>1. task' = "save" /\ meta' = meta /\ snap' = snap
        BY <1>8 DEF Rename, Goto
      <3>2. DOMAIN mem' = {"url", "tag", "day"}
        BY <2>1
      <3>3. GeoFromSource'
        BY <1>8, <2>1, <3>1 DEF Rename
      <3> QED BY <2>1, <3>1, <3>2, <3>3
    <2>2. CASE UNCHANGED <<dat, mem, ok, torn>>
      <3>1. task' = "save" /\ task = "rename" /\ meta' = meta /\ snap' = snap
        BY <1>8 DEF Rename, Goto
      <3>2. GeoFromSource'
        BY <2>2, <3>1
      <3> QED BY <2>2, <3>1, <3>2
    <2> QED BY <1>8, <2>1, <2>2 DEF Rename
  <1>9. CASE Save
    <2>1. task' = "sleep" /\ UNCHANGED <<snap, dat, mem, ok>>
      BY <1>9 DEF Save, Goto
    <2>2. CASE meta' = mem /\ torn' = (torn /\ (mem = NoMeta \/ mem.url # dat.url))
      <3>1. dat # NoDat /\ ~torn' => mem # NoMeta /\ mem.url = dat.url
        BY <1>9, <2>2 DEF Save
      <3>2. torn' \in BOOLEAN
        BY <2>2
      <3> QED BY <2>1, <2>2, <3>1, <3>2
    <2>3. CASE UNCHANGED <<meta, torn>>
      BY <2>1, <2>3
    <2> QED BY <1>9, <2>2, <2>3 DEF Save
  <1>10. CASE UNCHANGED geoVars
    BY <1>1, <1>10 DEF geoVars
  <1> QED
    BY <1>2, <1>3, <1>4, <1>5, <1>6, <1>7, <1>8, <1>9, <1>10 DEF GeoNext, GeoTask

\* GeoFromSource for every number of mirrors, days and events, with the updater killed at any
\* point and any write failing; the exception of GeoFromSource, a meta.json that an interrupted
\* round has left behind, is its own.
THEOREM GeoAlwaysFromSource == GeoSpec => []GeoFromSource
  <1>1. GeoSound => GeoFromSource
    BY DEF GeoSound
  <1> QED BY <1>1, GeoSoundInit, GeoSoundStep, PTL DEF GeoSpec

-----------------------------------------------------------------------------
(* The outlets of the server.                                              *)

\* What the entry i of c makes of the tables S.
Step(c, i, S) == IF ~BuildsUpstream(c.entries[i]) THEN S
                 ELSE UNION {OutletFor(s, c.entries[i]) : s \in S}

\* The recursion of Building has a solution, by the least number of entries without one.
LEMMA BuildingStep ==
  ASSUME NEW c, Len(c.entries) \in Nat
  PROVE  Building(c) = [i \in 0..Len(c.entries) |->
            IF i = 0 THEN Tables0 ELSE Step(c, i, Building(c)[i - 1])]
  <1> DEFINE n == Len(c.entries)
             Eq(f, k) == f = [i \in 0..k |-> IF i = 0 THEN Tables0 ELSE Step(c, i, f[i - 1])]
             Bad == {k \in 0..n : ~ \E f : Eq(f, k)}
  <1>1. Bad = {}
    <2> SUFFICES ASSUME Bad # {} PROVE FALSE
      OBVIOUS
    <2>1. PICK k \in Bad : \A j \in Bad : k <= j
      <3>1. Bad \in SUBSET Nat
        OBVIOUS
      <3> HIDE DEF Bad
      <3> QED BY <3>1, LeastNumber
    <2>2. CASE k = 0
      <3>1. Eq([i \in 0..0 |-> Tables0], 0)
        OBVIOUS
      <3> QED BY <2>2, <3>1
    <2>3. CASE k # 0
      <3>1. k - 1 \in 0..n /\ k - 1 \notin Bad /\ k \in Nat \ {0}
        <4>1. k \in 0..n
          OBVIOUS
        <4> HIDE DEF Bad
        <4> QED BY <2>1, <2>3, <4>1
      <3>2. PICK f : Eq(f, k - 1)
        BY <3>1
      <3>3. PICK g : g = [i \in 0..k |-> IF i = k THEN Step(c, k, f[k - 1]) ELSE f[i]]
        OBVIOUS
      <3>4. ASSUME NEW i \in 0..k
            PROVE  g[i] = IF i = 0 THEN Tables0 ELSE Step(c, i, g[i - 1])
        <4>1. CASE i = 0
          BY <3>1, <3>2, <3>3, <4>1
        <4>2. CASE i # 0
          <5>1. i - 1 \in 0..(k - 1) /\ i - 1 \in 0..k /\ i - 1 # k
            BY <3>1, <4>2
          <5>2. g[i - 1] = f[i - 1]
            BY <3>3, <5>1
          <5>3. CASE i = k
            BY <3>3, <4>2, <5>2, <5>3
          <5>4. CASE i # k
            <6>1. i \in 0..(k - 1)
              BY <3>1, <5>4
            <6>2. f[i] = Step(c, i, f[i - 1])
              BY <3>2, <4>2, <6>1
            <6> QED BY <3>3, <4>2, <5>2, <5>4, <6>2
          <5> QED BY <5>3, <5>4
        <4> QED BY <4>1, <4>2
      <3>5. Eq(g, k)
        <4> HIDE DEF Step
        <4> QED BY <3>3, <3>4
      <3> QED BY <2>1, <3>5
    <2> QED BY <2>2, <2>3
  <1>2. \E f : Eq(f, n)
    BY <1>1
  <1>3. Building(c) = CHOOSE f : Eq(f, n)
    BY DEF Building, Step
  <1>4. Eq(Building(c), n)
    <2> HIDE DEF Eq
    <2> QED BY <1>2, <1>3
  <1> QED BY <1>4

\* Of equal parameters there is one tunnel, in both tables and across them.
OneTunnel(S, T) ==
  \A o \in S \cup T, n \in T : o.params = n.params /\ IsWg(n.params) => o.tunnel = n.tunnel

IsOutlet(o) == o = [params |-> o.params, udp |-> o.udp, tunnel |-> o.tunnel]
TableSound(tbl) == \A o \in Outlets(tbl) : IsOutlet(o)
Sound(s) == TableSound(s.built) /\ OneTunnel(Outlets(outlets), Outlets(s.built))

\* What an entry is given is of its parameters, and of the tunnel that they have.
LEMMA OutletForSound ==
  ASSUME NEW c \in ServerConfs, NEW i \in 1..Len(c.entries), BuildsUpstream(c.entries[i]),
         TableSound(outlets), OneTunnel(Outlets(outlets), Outlets(outlets)),
         NEW s, Sound(s), NEW t \in OutletFor(s, c.entries[i])
  PROVE  Sound(t)
  <1> DEFINE e == c.entries[i]
             All == Outlets(outlets) \cup Outlets(s.built)
  <1>1. \A o \in All : IsOutlet(o)
    BY DEF Sound, TableSound
  <1>2. e.kind # "wg" => ~IsWg(e.params)
    BY ServerRouterAssumption DEF IsWg, BuildsUpstream, Upstream
  <1>3. \A o, p \in All : o.params = p.params /\ IsWg(p.params) => o.tunnel = p.tunnel
    BY DEF Sound, OneTunnel
  <1>4. PICK o : /\ IsOutlet(o) /\ o.params = e.params
                 /\ IsWg(e.params) => \A p \in All : p.params = e.params => p.tunnel = o.tunnel
                 /\ t.built = [k \in DOMAIN s.built \cup {e.key} |->
                                 IF k = e.key THEN o ELSE s.built[k]]
    <2> DEFINE old == IF Same(s.built, e) # {} THEN Same(s.built, e)
                      ELSE IF Same(outlets, e) # {} THEN Same(outlets, e)
                      ELSE Shared(s.built, e)
               fresh == [params |-> e.params, udp |-> e.udp, tunnel |-> s.made + 1]
               put(o) == [k \in DOMAIN s.built \cup {e.key} |->
                            IF k = e.key THEN o ELSE s.built[k]]
    <2>1. \/ old = {} /\ t.built = put(fresh)
          \/ \E o \in old : t.built = put(o)
      <3>1. OutletFor(s, e) = IF old # {} THEN {[made |-> s.made, built |-> put(o)] : o \in old}
                              ELSE {[made |-> s.made + 1, built |-> put(fresh)]}
        BY DEF OutletFor
      <3> HIDE DEF old, put, fresh, e
      <3>2. t \in OutletFor(s, e)
        BY DEF e
      <3> QED BY <3>1, <3>2
    <2>2. CASE old = {} /\ t.built = put(fresh)
      <3>1. Same(s.built, e) = {} /\ Same(outlets, e) = {} /\ Shared(s.built, e) = {}
        BY <2>2
      <3>2. ASSUME IsWg(e.params), NEW p \in All PROVE p.params # e.params
        <4>1. SameTunnel(s.built, e) = {} /\ SameTunnel(outlets, e) = {}
          BY <1>2, <3>1, <3>2 DEF Shared
        <4> QED BY <4>1 DEF SameTunnel
      <3>3. IsOutlet(fresh) /\ fresh.params = e.params
        BY DEF IsOutlet
      <3> QED BY <2>2, <3>2, <3>3
    <2>3. ASSUME NEW o \in old, t.built = put(o)
          PROVE  /\ IsOutlet(o) /\ o.params = e.params
                 /\ IsWg(e.params) => \A p \in All : p.params = e.params => p.tunnel = o.tunnel
      <3>1. PICK q \in All : /\ q.params = e.params
                             /\ o = q \/ o = [q EXCEPT !.udp = e.udp]
        <4>1. CASE o \in Same(s.built, e) \/ o \in Same(outlets, e)
          BY <4>1 DEF Same
        <4>2. CASE o \in SameTunnel(s.built, e)
          BY <4>2 DEF SameTunnel
        <4>3. CASE o \in SameTunnel(outlets, e)
          BY <4>3 DEF SameTunnel
        <4> QED BY <2>3, <4>1, <4>2, <4>3 DEF Shared
      <3>2. q = [params |-> q.params, udp |-> q.udp, tunnel |-> q.tunnel]
        BY <1>1 DEF IsOutlet
      <3>3. IsOutlet(o) /\ o.params = e.params /\ o.tunnel = q.tunnel
        BY <3>1, <3>2 DEF IsOutlet
      <3> QED BY <1>3, <3>1, <3>3
    <2> QED BY <2>1, <2>2, <2>3
  <1>5. \A n \in Outlets(t.built) : n = o \/ n \in Outlets(s.built)
    <2>1. ASSUME NEW k \in DOMAIN t.built
          PROVE  t.built[k] = o \/ (k \in DOMAIN s.built /\ t.built[k] = s.built[k])
      <3>1. t.built = [j \in DOMAIN s.built \cup {e.key} |-> IF j = e.key THEN o ELSE s.built[j]]
        BY <1>4
      <3>2. k \in DOMAIN s.built \cup {e.key}
        BY <3>1
      <3> HIDE DEF e, All
      <3> QED BY <3>1, <3>2
    <2> QED BY <2>1 DEF Outlets
  <1>6. TableSound(t.built)
    BY <1>1, <1>4, <1>5 DEF TableSound
  <1>7. ASSUME NEW p \in Outlets(outlets) \cup Outlets(t.built), NEW n \in Outlets(t.built),
               p.params = n.params, IsWg(n.params)
        PROVE  p.tunnel = n.tunnel
    <2>1. p = o \/ p \in All
      BY <1>5
    <2>2. n = o \/ n \in All
      BY <1>5
    <2> HIDE DEF All, e
    <2>3. CASE p \in All /\ n \in All
      BY <1>3, <1>7, <2>3
    <2>4. CASE p = o \/ n = o
      BY <1>4, <1>7, <2>1, <2>2, <2>4
    <2> QED BY <2>1, <2>2, <2>3, <2>4
  <1> QED BY <1>6, <1>7 DEF Sound, OneTunnel

\* Every table that may come out of a configuration is sound, by the first entry after which
\* one is not.
LEMMA BuiltSound ==
  ASSUME NEW c \in ServerConfs, TableSound(outlets),
         OneTunnel(Outlets(outlets), Outlets(outlets)), NEW t \in Built(c)
  PROVE  Sound(t)
  <1> DEFINE after == Building(c)
             Bad == {i \in 0..Len(c.entries) : \E s \in after[i] : ~Sound(s)}
  <1>1. Len(c.entries) \in Nat
    BY ServerRouterAssumption
  <1>2. \A i \in 0..Len(c.entries) :
          after[i] = IF i = 0 THEN Tables0 ELSE Step(c, i, after[i - 1])
    BY <1>1, BuildingStep
  <1>3. Bad = {}
    <2> SUFFICES ASSUME Bad # {} PROVE FALSE
      OBVIOUS
    <2>1. PICK i \in Bad : \A j \in Bad : i <= j
      <3>1. Bad \in SUBSET Nat
        BY <1>1
      <3> HIDE DEF Bad
      <3> QED BY <3>1, LeastNumber
    <2>2. PICK s \in after[i] : ~Sound(s)
      OBVIOUS
    <2>3. CASE i = 0
      <3>1. s \in Tables0
        BY <1>2, <2>2, <2>3
      <3>2. Outlets(s.built) = {}
        BY <3>1 DEF Tables0, Outlets
      <3> QED BY <2>2, <3>2 DEF Sound, TableSound, OneTunnel
    <2>4. CASE i # 0
      <3>1. i \in 1..Len(c.entries) /\ i - 1 \in 0..Len(c.entries) /\ i - 1 \notin Bad
        <4>1. i \in 0..Len(c.entries)
          OBVIOUS
        <4> HIDE DEF Bad
        <4> QED BY <1>1, <2>1, <2>4, <4>1
      <3>2. \A r \in after[i - 1] : Sound(r)
        BY <3>1
      <3>3. s \in Step(c, i, after[i - 1])
        <4> HIDE DEF after
        <4> QED BY <1>2, <2>2, <2>4, <3>1
      <3>4. CASE ~BuildsUpstream(c.entries[i])
        BY <2>2, <3>2, <3>3, <3>4 DEF Step
      <3>5. CASE BuildsUpstream(c.entries[i])
        <4>1. PICK r \in after[i - 1] : s \in OutletFor(r, c.entries[i])
          BY <3>3, <3>5 DEF Step
        <4> QED BY <2>2, <3>1, <3>2, <3>5, <4>1, OutletForSound
      <3> QED BY <3>4, <3>5
    <2> QED BY <2>3, <2>4
  <1> QED BY <1>1, <1>3 DEF Built

\* The table in force is sound.
TablesSound == TableSound(outlets) /\ OneTunnel(Outlets(outlets), Outlets(outlets))

\* A configuration that is taken, or refused, keeps one tunnel for each key.
LEMMA RouterStep ==
  ASSUME TablesSound, [ServerRouterNext]_serverRouterVars
  PROVE  TablesSound' /\ OneTunnel(Outlets(outlets), Outlets(outlets'))
  <1>1. CASE UNCHANGED outlets
    BY <1>1 DEF TablesSound, TableSound, OneTunnel
  <1>2. ASSUME NEW c \in ServerConfs, Reload(c)
        PROVE  TablesSound' /\ OneTunnel(Outlets(outlets), Outlets(outlets'))
    <2>1. PICK s \in Built(c) : outlets' = s.built
      BY <1>2 DEF Reload
    <2>2. Sound(s)
      BY <2>1, BuiltSound DEF TablesSound
    <2> QED BY <2>1, <2>2 DEF Sound, TablesSound, TableSound, OneTunnel
  <1> QED BY <1>1, <1>2 DEF ServerRouterNext, Route, Close, serverRouterVars

\* Wherever parameters of WireGuard are equal there is one tunnel, in a table and from each
\* table to the next.
THEOREM SessionAlwaysOne == ServerRouterSpec => OneSession
  <1>1. ServerRouterInit => TablesSound
    BY DEF ServerRouterInit, TablesSound, TableSound, OneTunnel, Outlets
  <1>2. TablesSound /\ [ServerRouterNext]_serverRouterVars => TablesSound'
    BY RouterStep
  <1>3. TablesSound /\ [ServerRouterNext]_serverRouterVars
        => [\A o \in Outlets(outlets) \cup Outlets(outlets'), n \in Outlets(outlets') :
              o.params = n.params /\ IsWg(n.params) => o.tunnel = n.tunnel]_serverRouterVars
    BY RouterStep DEF OneTunnel
  <1> QED BY <1>1, <1>2, <1>3, PTL DEF ServerRouterSpec, OneSession

-----------------------------------------------------------------------------
(* The site.                                                               *)

\* A template that may be in the cache: what a fetch found fit, or the synthetic one.
Usable == ({Fetched(s) : s \in Stream} \ {NoTemplate}) \cup {Fallback}

\* What a client waits for, with a share that can be made again.
MeetsClients(t) == Kinds \subseteq t.kinds /\ Renewable(t.share)

\* All that is in the cache is usable, and an answer is its own connection's.
TemplatesSound ==
  /\ cache \in Seq(Usable)
  /\ DOMAIN answer = Hello
  /\ \A h \in Hello : answer[h] # NoAnswer => Kinds \subseteq answer[h].kinds /\ answer[h].share = h

\* A template that is kept has what a client waits for.
LEMMA UsableServes == \A t \in Usable : MeetsClients(t)
  <1>1. MeetsClients(Fallback)
    BY DEF MeetsClients, Fallback, Renewable
  <1>2. ASSUME NEW s \in Stream, Fetched(s) # NoTemplate PROVE MeetsClients(Fetched(s))
    <2>1. PICK kinds, cut : Fetched(s) = IF /\ s.records # <<>> /\ s.records[1] = "hello"
                                            /\ Gate(kinds) /\ Renewable(s.share)
                                         THEN [kinds |-> kinds, cut |-> cut, share |-> s.share]
                                         ELSE NoTemplate
      BY DEF Fetched
    <2> QED BY <1>2, <2>1 DEF MeetsClients, Gate
  <1> QED BY <1>1, <1>2 DEF Usable

\* A round of fetches gives a sequence of usable templates.
LEMMA BatchUsable == ASSUME NEW b \in Batches PROVE b \in Seq(Usable)
  <1>1. PICK n \in 0..Batch : b \in [1..n -> {Fetched(s) : s \in Stream} \ {NoTemplate}]
    BY DEF Batches
  <1>2. b \in [1..n -> Usable]
    BY <1>1 DEF Usable
  <1> QED BY <1>2, SeqDef

\* Answering from a usable template.
LEMMA AnswerSound ==
  ASSUME TemplatesSound, NEW h \in Hello, NEW t \in Usable, Answers(h, t), cache' = cache
  PROVE  TemplatesSound'
  <1>1. MeetsClients(t)
    BY UsableServes
  <1>2. PICK a : a = Patched(h, t)
    OBVIOUS
  <1>3. Kinds \subseteq a.kinds /\ a.share = h
    BY <1>1, <1>2 DEF Patched, MeetsClients
  <1>4. answer' = [answer EXCEPT ![h] = a]
    BY <1>2 DEF Answers
  <1> QED BY <1>3, <1>4 DEF TemplatesSound

\* A merge keeps something, and a batch when there was one.
LEMMA MergeKeeps ==
  ASSUME NEW old \in Seq(Usable), NEW new \in Seq(Usable), new # <<>>
  PROVE  /\ Merged(old, new) \in Seq(Usable) /\ Merged(old, new) # <<>>
         /\ Len(old) >= Batch => Len(Merged(old, new)) >= Batch
  <1>0. /\ Batch \in Nat /\ Batch >= 1 /\ MaxTemplates \in Nat /\ Batch <= MaxTemplates
    BY CamouflageAssumption
  <1>1. CASE Len(new) >= Batch
    BY <1>1 DEF Merged
  <1>2. CASE ~(Len(new) >= Batch)
    <2>1. PICK all : all = new \o old
      OBVIOUS
    <2>2. all \in Seq(Usable) /\ Len(all) = Len(new) + Len(old)
      BY <2>1, ConcatProperties
    <2>3. Len(new) \in Nat /\ Len(old) \in Nat /\ Len(new) >= 1
      BY EmptySeq, LenProperties
    <2>4. PICK n \in Nat : n = IF Len(all) < MaxTemplates THEN Len(all) ELSE MaxTemplates
      BY <1>0, <2>2, <2>3
    <2>5. Merged(old, new) = SubSeq(all, 1, n)
      BY <1>2, <2>1, <2>4 DEF Merged
    <2>6. n >= 1 /\ n <= Len(all) /\ (Len(old) >= Batch => n >= Batch)
      BY <1>0, <2>2, <2>3, <2>4
    <2>7. SubSeq(all, 1, n) \in Seq(Usable) /\ Len(SubSeq(all, 1, n)) = n
      BY <2>2, <2>4, <2>6, SubSeqProperties
    <2> QED BY <2>5, <2>6, <2>7
  <1> QED BY <1>1, <1>2

\* The cache is empty at the start.
LEMMA TemplatesInitSound == TemplatesInit => TemplatesSound
  BY DEF TemplatesInit, TemplatesSound

\* The cache stays usable, the answers stay their connections', and the choice is kept.
LEMMA TemplatesStep ==
  ASSUME TemplatesSound, [TemplatesNext]_templateVars
  PROVE  /\ TemplatesSound'
         /\ cache' # cache /\ cache # <<>> =>
              /\ cache' # <<>>
              /\ Len(cache) >= Batch => Len(cache') >= Batch
  <1>1. ASSUME UNCHANGED <<cache, answer>> PROVE TemplatesSound'
    BY <1>1 DEF TemplatesSound
  <1>2. ASSUME NEW w \in Hello \cup Starter,
               Looks(w) \/ Claims(w) \/ Releases(w) \/ Waited(w)
        PROVE  UNCHANGED <<cache, answer>>
    BY <1>2 DEF Looks, Claims, Releases, Waited
  <1>3. ASSUME NEW w \in Hello \cup Starter, Fills(w)
        PROVE  /\ TemplatesSound'
               /\ cache # <<>> => /\ cache' # <<>>
                                  /\ Len(cache) >= Batch => Len(cache') >= Batch
    <2>1. PICK b \in Batches :
            cache' = cache \o (IF b = <<>> /\ w \in Hello THEN <<Fallback>> ELSE b)
      BY <1>3 DEF Fills
    <2>2. PICK x : x = IF b = <<>> /\ w \in Hello THEN <<Fallback>> ELSE b
      OBVIOUS
    <2>3. Fallback \in Usable
      BY DEF Usable
    <2>4. x \in Seq(Usable)
      BY <2>2, <2>3, BatchUsable
    <2>5. cache' = cache \o x /\ cache \in Seq(Usable)
      BY <2>1, <2>2 DEF TemplatesSound
    <2>6. cache' \in Seq(Usable) /\ Len(cache') = Len(cache) + Len(x)
      BY <2>4, <2>5, ConcatProperties
    <2>7. Len(cache) \in Nat /\ Len(x) \in Nat /\ (cache # <<>> => Len(cache) >= 1)
      BY <2>4, <2>5, LenProperties, EmptySeq
    <2>8. cache # <<>> => /\ cache' # <<>>
                          /\ Len(cache) >= Batch => Len(cache') >= Batch
      BY <2>6, <2>7, CamouflageAssumption
    <2>9. answer' = answer
      BY <1>3 DEF Fills
    <2> QED BY <2>6, <2>8, <2>9 DEF TemplatesSound
  <1>4. ASSUME NEW h \in Hello, StopsWaiting(h) PROVE TemplatesSound' /\ cache' = cache
    <2>1. cache' = cache
      BY <1>4 DEF StopsWaiting
    <2>2. CASE answer' = answer
      BY <1>1, <2>1, <2>2
    <2>3. CASE Answers(h, Fallback)
      BY <2>1, <2>3, AnswerSound DEF Usable
    <2> QED BY <1>4, <2>1, <2>2, <2>3 DEF StopsWaiting
  <1>5. ASSUME NEW h \in Hello, Picks(h) PROVE TemplatesSound' /\ cache' = cache
    <2>1. PICK i \in DOMAIN cache : Answers(h, cache[i])
      BY <1>5 DEF Picks
    <2>2. cache[i] \in Usable
      BY DEF TemplatesSound
    <2>3. cache' = cache
      BY <1>5 DEF Picks
    <2> QED BY <2>1, <2>2, <2>3, AnswerSound
  <1>6. ASSUME Wakes PROVE UNCHANGED <<cache, answer>>
    BY <1>6 DEF Wakes
  <1>7. ASSUME Installs
        PROVE  /\ TemplatesSound'
               /\ cache # <<>> => /\ cache' # <<>>
                                  /\ Len(cache) >= Batch => Len(cache') >= Batch
    <2>1. PICK b \in Batches : cache' = IF b = <<>> THEN cache ELSE Merged(cache, b)
      BY <1>7 DEF Installs
    <2>2. b \in Seq(Usable) /\ cache \in Seq(Usable) /\ answer' = answer
      BY <1>7, BatchUsable DEF TemplatesSound, Installs
    <2>3. CASE b = <<>>
      BY <1>1, <2>1, <2>2, <2>3
    <2>4. CASE b # <<>>
      BY <2>1, <2>2, <2>4, MergeKeeps DEF TemplatesSound
    <2> QED BY <2>3, <2>4
  <1>8. ASSUME NEW h \in Hello, Arrives(h) \/ Cancel(h) PROVE TemplatesSound' /\ cache' = cache
    BY <1>8 DEF Arrives, Cancel, TemplatesSound
  <1>9. CASE UNCHANGED templateVars
    BY <1>1, <1>9 DEF templateVars
  <1> QED
    BY <1>1, <1>2, <1>3, <1>4, <1>5, <1>6, <1>7, <1>8, <1>9 DEF TemplatesNext, Serves

-----------------------------------------------------------------------------
\* Numbers are numbers, and the estimate is between two samples taken in since the last loss.
TimingSound ==
  /\ rtt \in Nat /\ lastConnect \in Nat /\ since \subseteq Nat
  /\ \A o \in Observer \cup {Seeder} : prev[o] \in Nat /\ sample[o] \in Nat
  /\ DOMAIN prev = Observer \cup {Seeder} /\ DOMAIN sample = Observer \cup {Seeder}
  /\ OldAverageGone

\* A weighted mean is not outside the two numbers.
LEMMA EwmaBetween ==
  ASSUME NEW p \in Nat, NEW t \in Nat
  PROVE  /\ Ewma(p, t) \in Nat
         /\ p = 0 => Ewma(p, t) = t
         /\ Ewma(p, t) <= p \/ Ewma(p, t) <= t
         /\ p <= Ewma(p, t) \/ t <= Ewma(p, t)
  BY DEF Ewma

\* What a connection has measured is on its way to the estimate.
LEMMA MeasuresSound ==
  ASSUME TimingSound, NEW o \in Observer \cup {Seeder}, NEW t \in Nat, Measures(o, t),
         UNCHANGED <<rtt, lastConnect, since>>
  PROVE  TimingSound'
  BY DEF TimingSound, Measures, OldAverageGone

\* Nothing is measured at the start.
LEMMA TimingInitSound == TimingInit => TimingSound
  BY DEF TimingInit, TimingSound, OldAverageGone

\* The estimate lies between samples taken in since the site was last lost.
LEMMA TimingStep ==
  ASSUME TimingSound, [TimingNext]_timingVars
  PROVE  TimingSound'
  <1>1. CASE SiteChanges
    BY <1>1 DEF SiteChanges, TimingSound, OldAverageGone
  <1>2. CASE Fetches
    BY <1>2, CamouflageAssumption DEF Fetches, TimingSound, OldAverageGone
  <1>3. CASE Seeds
    <2>1. Measures(Seeder, lastConnect) /\ UNCHANGED <<rtt, lastConnect, since>>
      BY <1>3 DEF Seeds
    <2> QED BY <2>1, MeasuresSound DEF TimingSound
  <1>4. ASSUME NEW o \in Observer, Connects(o) PROVE TimingSound'
    <2>1. PICK t \in Took : Measures(o, t)
      BY <1>4 DEF Connects
    <2>2. t \in Nat /\ UNCHANGED <<rtt, lastConnect, since>>
      BY <1>4, CamouflageAssumption DEF Connects
    <2> QED BY <2>1, <2>2, MeasuresSound
  <1>5. ASSUME NEW o \in Observer, Fails(o) PROVE TimingSound'
    BY <1>5 DEF Fails, TimingSound, OldAverageGone
  <1>6. ASSUME NEW o \in Observer \cup {Seeder}, Exchanges(o) PROVE TimingSound'
    <2>1. prev[o] \in Nat /\ sample[o] \in Nat /\ rtt \in Nat /\ since \subseteq Nat
      BY DEF TimingSound
    <2>2. CASE ~Exchanged(o)
      BY <1>6, <2>1, <2>2 DEF Exchanges, TimingSound, OldAverageGone
    <2>3. CASE Exchanged(o)
      <3>1. PICK p \in Nat : p = prev[o]
        BY <2>1
      <3>2. PICK t \in Nat : t = sample[o]
        BY <2>1
      <3>3. PICK n : n = Ewma(p, t)
        OBVIOUS
      <3>4. /\ rtt' = n /\ since' = since \cup {t} /\ p = rtt
            /\ prev' = [prev EXCEPT ![o] = 0] /\ sample' = [sample EXCEPT ![o] = 0]
            /\ lastConnect' = lastConnect
        BY <1>6, <2>3, <3>1, <3>2, <3>3 DEF Exchanges, Exchanged
      <3>5. /\ n \in Nat /\ (p = 0 => n = t) /\ (n <= p \/ n <= t) /\ (p <= n \/ t <= n)
        BY <3>3, EwmaBetween
      <3>6. p # 0 => (\E x \in since : x <= p) /\ (\E x \in since : p <= x)
        BY <3>4 DEF TimingSound, OldAverageGone
      <3>7. (\E x \in since' : x <= n) /\ (\E x \in since' : n <= x)
        BY <2>1, <3>4, <3>5, <3>6
      <3>8. OldAverageGone'
        BY <3>4, <3>7 DEF OldAverageGone
      <3> QED BY <2>1, <3>4, <3>5, <3>8 DEF TimingSound
    <2> QED BY <2>2, <2>3
  <1>7. CASE UNCHANGED timingVars
    BY <1>7 DEF timingVars, TimingSound, OldAverageGone
  <1> QED BY <1>1, <1>2, <1>3, <1>4, <1>5, <1>6, <1>7 DEF TimingNext

-----------------------------------------------------------------------------
\* Every flight that a handshake is given is complete and its own, whichever template it is
\* made from; and an average from before the site was lost never comes back, whoever was about
\* to store one: the estimate is made of samples taken in afterwards (some of them may have been
\* measured before).  For any number of handshakes, inbounds and observers, and whatever the
\* site sends.
THEOREM SiteAlwaysSound == SiteSpec => []SiteSound
  <1>1. TemplatesSound => HellosSound
    BY UsableServes DEF TemplatesSound, HellosSound, MeetsClients
  <1>2. TimingSound => OldAverageGone
    BY DEF TimingSound
  <1>3. TemplatesSound /\ [TemplatesNext]_templateVars => TemplatesSound'
    BY TemplatesStep
  <1>4. TimingSound /\ [TimingNext]_timingVars => TimingSound'
    BY TimingStep
  <1> QED
    BY <1>1, <1>2, <1>3, <1>4, TemplatesInitSound, TimingInitSound, PTL DEF SiteSpec, SiteSound

\* A cache that is filled stays filled, and keeps a batch to choose from: the half of SiteKept
\* that needs no fairness.
THEOREM ChoiceAlwaysKept == SiteSpec => ChoiceKept
  <1>1. TemplatesSound /\ [TemplatesNext]_templateVars => TemplatesSound'
    BY TemplatesStep
  <1>2. TemplatesSound /\ [TemplatesNext]_templateVars =>
          [cache # <<>> => /\ cache' # <<>>
                           /\ Len(cache) >= Batch => Len(cache') >= Batch]_cache
    BY TemplatesStep
  <1> QED BY <1>1, <1>2, TemplatesInitSound, PTL DEF SiteSpec, ChoiceKept

-----------------------------------------------------------------------------
\* Min of it is one of it.
LEMMA MinIn ==
  ASSUME NEW S \in SUBSET Nat, S # {} PROVE Min(S) \in S
  <1>1. \E m \in S : \A n \in S : m <= n
    BY LeastNumber
  <1> QED BY <1>1 DEF Min

-----------------------------------------------------------------------------
(* A configuration that the check passes, and that has none of the rules   *)
(* that it does not look at, is not refused by the server.                 *)

\* Upstreams of inbounds and outbounds that the check passes can be built.
LEMMA CheckedUpstreams ==
  ASSUME NEW c, IsConfig(c), CheckPasses(c), NEW u \in ServerUpstreams(c)
  PROVE  ~ Unusable(u)
  <1>0. InboundIssues(c) = {} /\ FieldIssues(c) = {}
    BY DEF CheckPasses, SemanticIssues
  <1>1. CASE u \in OfKind(c.outs, {"shadowsocks", "wireguard"})
    <2>1. u \in ToSet(c.outs) /\ u.kind \in {"shadowsocks", "wireguard"}
      BY <1>1 DEF OfKind
    <2>2. {<<f, u.tag>> : f \in u.bad \cap CheckedField[u.kind]} = {}
      BY <1>0, <2>1 DEF FieldIssues
    <2>3. u.bad \cap CheckedField[u.kind] = {}
      BY <2>2
    <2> QED BY <2>1, <2>3 DEF Unusable, CheckedField, MirageField, ShadowsocksField
  <1>2. CASE \E i \in ServerInbounds(c) : i.up # NoUpstream /\ u = i.up
    <2>1. PICK i \in ServerInbounds(c) : i.up # NoUpstream /\ u = i.up
      BY <1>2
    <2>2. UpstreamIssues(i) = {}
      <3>1. ASSUME NEW x \in ServerInboundIssues(i) PROVE x \in InboundIssues(c)
        <4> DEFINE all == {ServerInboundIssues(j) : j \in ServerInbounds(c)}
        <4>1. ServerInboundIssues(i) \in all
          BY <2>1
        <4>2. x \in UNION all
          <5> HIDE DEF all
          <5> QED BY <3>1, <4>1
        <4> QED BY <4>2 DEF InboundIssues
      <3>2. ServerInboundIssues(i) = {}
        BY <1>0, <3>1
      <3> QED BY <3>2 DEF ServerInboundIssues
    <2>3. {<<f, i.tag>> : f \in u.bad \cap UpstreamField[u.kind]} = {}
      BY <2>1, <2>2 DEF UpstreamIssues
    <2>4. u.bad \cap UpstreamField[u.kind] = {}
      BY <2>3
    <2>5. u.kind \in {"shadowsocks", "wireguard"}
      BY <2>1 DEF IsConfig, ServerInbounds, OfKind, ToSet
    <2> QED BY <2>4, <2>5 DEF Unusable, CheckedField, MirageField, ShadowsocksField,
                                 UpstreamField
  <1> QED BY <1>1, <1>2 DEF ServerUpstreams

\* Rules and the default that the check passes name outbounds that are there.
LEMMA CheckedReferences ==
  ASSUME NEW c, CheckPasses(c)
  PROVE  /\ DefaultOutbound(c) \in OutTags(c)
         /\ \A r \in ToSet(c.rules) \cup ProfileRules(c) : r.outbound \in OutTags(c)
         /\ \A r \in ToSet(c.rules) : r.bad \cap NetField = {}
  <1>0. DefaultIssues(c) = {} /\ RuleIssues(c) = {} /\ ProfileIssues(c) = {} /\ NetIssues(c) = {}
    BY DEF CheckPasses, SemanticIssues
  <1>1. DefaultOutbound(c) \in OutTags(c)
    BY <1>0 DEF DefaultIssues
  <1>2. \A r \in ToSet(c.rules) : r.outbound \in OutTags(c)
    BY <1>0 DEF RuleIssues
  <1>3. \A r \in ProfileRules(c) : r.outbound \in OutTags(c)
    BY <1>0 DEF ProfileIssues
  <1>4. ASSUME NEW r \in ToSet(c.rules) PROVE r.bad \cap NetField = {}
    <2>1. {<<f, r.outbound>> : f \in r.bad \cap NetField} = {}
      BY <1>0 DEF NetIssues
    <2> QED BY <2>1
  <1> QED BY <1>1, <1>2, <1>3, <1>4

\* So the server does not refuse it (config.rs:2510-2511).
THEOREM CheckedServes ==
  ASSUME NEW c, IsConfig(c), CheckPasses(c), ~ UncheckedRule(c)
  PROVE  ~ ServerRefuses(c)
  <1>1. ServerRefs(c) \subseteq OutTags(c)
    BY CheckedReferences DEF ServerRefs, ServerRules
  <1>2. \A r \in ServerRules(c) : r.bad \cap NetField = {}
    BY CheckedReferences DEF ServerRules
  <1>3. ServerInbounds(c) # {} => Foreign(c) = {}
    <2> SUFFICES ASSUME ServerInbounds(c) # {}, Foreign(c) # {} PROVE FALSE
      OBVIOUS
    <2>1. ~ MixedServer(c)
      BY DEF UncheckedRule
    <2>2. PureServer(c)
      BY <2>1 DEF MixedServer
    <2>3. ServerIssues(c) = {}
      BY DEF CheckPasses, SemanticIssues
    <2>4. PICK t \in Foreign(c) : TRUE
      OBVIOUS
    <2>5. /\ t \in {DefaultOutbound(c)} \cup {r.outbound : r \in ToSet(c.rules)}
          /\ t \in OutTags(c) \ {o.tag : o \in OfKind(c.outs, ServerType)}
      BY <2>1, <2>4 DEF Foreign, ServerRefs, ServerRules
    <2>6. <<"no use to a server", t>> \in ServerIssues(c)
      BY <2>2, <2>5 DEF ServerIssues
    <2> QED BY <2>3, <2>6
  <1>4. \A r \in ServerRules(c) : ~ "domain_regex" \in r.bad
    BY DEF UncheckedRule
  <1> QED BY <1>1, <1>2, <1>3, <1>4, CheckedUpstreams DEF ServerRefuses

-----------------------------------------------------------------------------
(* The watcher takes a configuration that is sound, and that keeps the     *)
(* outbounds and inbounds of the start.                                    *)

\* The parts of what is in force that only a start can change are those of a configuration.
Started(now, c) ==
  /\ now.outs = c.outs /\ now.settings = Settings(c)
  /\ now.ins = {Lasting(i) : i \in ToSet(c.ins)}

\* What is left of an inbound says its kind and tag.
LEMMA LastingKeeps ==
  ASSUME NEW c, IsConfig(c), NEW i \in ToSet(c.ins)
  PROVE  /\ Lasting(i).kind = i.kind /\ Lasting(i).tag = i.tag /\ Lasting(i).up = i.up
         /\ DOMAIN Lasting(i) = DOMAIN InboundConfig(NoName, NoName, 0)
  BY DEF IsConfig, ToSet, Lasting, InboundConfig

\* No two inbounds of a checked configuration have one tag.
LEMMA CheckedTags ==
  ASSUME NEW c, IsConfig(c), CheckPasses(c), NEW i \in DOMAIN c.ins, NEW j \in DOMAIN c.ins,
         c.ins[i].tag = c.ins[j].tag
  PROVE  i = j
  <1>1. BindIssues(c) = {}
    BY DEF CheckPasses, SemanticIssues
  <1>2. \A n \in DOMAIN c.ins : \A m \in 1 .. n - 1 : c.ins[m].tag # c.ins[n].tag
    BY <1>1 DEF BindIssues, Repeats
  <1>3. i \in Nat \ {0} /\ j \in Nat \ {0}
    BY DEF IsConfig
  <1>4. i < j => i \in 1 .. j - 1
    BY <1>3
  <1>5. j < i => j \in 1 .. i - 1
    BY <1>3
  <1> QED BY <1>2, <1>3, <1>4, <1>5

\* All inbounds of the server get their users.
LEMMA AllServed ==
  ASSUME NEW c, NEW now, IsConfig(c), CheckPasses(c), Started(now, c)
  PROVE  Served(now, c) = Credentials(c)
  <1>1. ~ \E i, j \in DOMAIN c.ins :
            i # j /\ {c.ins[i], c.ins[j]} \subseteq ServerInbounds(c) /\ c.ins[i].tag = c.ins[j].tag
    BY CheckedTags
  <1>2. ASSUME NEW k \in Credentials(c)
        PROVE  \E i \in now.ins : i.kind = "mirage_server" /\ i.tag = k.tag
    <2>1. PICK i \in ServerInbounds(c) : k.tag = i.tag
      BY DEF Credentials
    <2>2. i \in ToSet(c.ins) /\ i.kind = "mirage_server"
      BY DEF ServerInbounds, OfKind
    <2>3. Lasting(i) \in now.ins
      BY <2>2 DEF Started
    <2> QED BY <2>1, <2>2, <2>3, LastingKeeps
  <1> QED BY <1>1, <1>2 DEF Served

\* Sound configurations are taken.
LEMMA SoundReload ==
  ASSUME NEW c, NEW now, IsConfig(c), Vetted(c), Started(now, c)
  PROVE  ~ ReloadRefused(now, c)
  <1>1. ~ ServerRefuses(c)
    BY CheckedServes DEF Vetted
  <1>2. \A r \in ClientRules(c) : ~ "domain_regex" \in r.bad
    BY DEF Vetted, UncheckedRule
  <1>3. ClientRules(c) \subseteq ToSet(c.rules) \cup ProfileRules(c)
    BY DEF ClientRules, ProfileRules, ToSet
  <1>4. {DefaultOutbound(c)} \cup {r.outbound : r \in ClientRules(c)} \subseteq OutTags(c)
    BY <1>3, CheckedReferences DEF Vetted
  <1>5. OutTags(c) = {o.tag : o \in ToSet(now.outs)}
    BY DEF Started, OutTags
  <1> QED BY <1>1, <1>2, <1>4, <1>5 DEF ReloadRefused

\* And then all of them is in force.
LEMMA ReloadComplete ==
  ASSUME NEW c, NEW now, IsConfig(c), Vetted(c), Started(now, c),
         DOMAIN now = DOMAIN InForce(Config(<<>>, <<>>)),
         now = [f \in DOMAIN now |-> now[f]]
  PROVE  Reloaded(now, c) = InForce(c)
  <1>1. Reloaded(now, c) = [now EXCEPT !.users = Credentials(c), !.routes = Routes(c),
                                       !.geo = c.geo]
    BY SoundReload, AllServed DEF Reloaded, Vetted
  <1> QED BY <1>1 DEF Started, InForce

-----------------------------------------------------------------------------
(* Edits in the menu change neither rules nor the kinds of entries.        *)

\* What a configuration and one that was made of it by edits share.
SameRules(c, d) == c.rules = d.rules /\ c.profiles = d.profiles /\ c.devices = d.devices

\* A configuration whose inbounds are replaced by ones with the same fields is one.
LEMMA NewInbound ==
  ASSUME NEW c, IsConfig(c), NEW n \in DOMAIN c.ins, NEW e,
         DOMAIN e = DOMAIN c.ins[n], e.up = c.ins[n].up
  PROVE  /\ IsConfig([c EXCEPT !.ins[n] = e])
         /\ SameRules(c, [c EXCEPT !.ins[n] = e])
  BY DEF IsConfig, SameRules, Config

LEMMA NewPart ==
  ASSUME NEW c, IsConfig(c), NEW v
  PROVE  /\ IsConfig([c EXCEPT !.tuning = v]) /\ SameRules(c, [c EXCEPT !.tuning = v])
         /\ IsConfig([c EXCEPT !.default = v]) /\ SameRules(c, [c EXCEPT !.default = v])
         /\ IsConfig([c EXCEPT !.outs = v]) /\ SameRules(c, [c EXCEPT !.outs = v])
  BY DEF IsConfig, SameRules, Config

\* What is told to be reloaded leaves what the service was started with.
LEMMA ReloadKeeps ==
  ASSUME NEW c, NEW d, IsConfig(c), IsConfig(d), CheckPasses(c), CheckPasses(d), c # d,
         Classify(c, d) # "restart"
  PROVE  /\ c.outs = d.outs /\ Settings(c) = Settings(d)
         /\ {Lasting(i) : i \in ToSet(c.ins)} = {Lasting(i) : i \in ToSet(d.ins)}
  <1>1. c.outs = d.outs /\ Settings(c) = Settings(d) /\ KeepsInbounds(c, d)
    BY DEF Classify
  <1>2. ASSUME NEW a, IsConfig(a), CheckPasses(a), NEW n \in DOMAIN a.ins
        PROVE  FirstInbound(a, a.ins[n].tag) = a.ins[n]
    <2> DEFINE S == {m \in DOMAIN a.ins : a.ins[m].tag = a.ins[n].tag}
    <2>1. S \in SUBSET Nat /\ n \in S
      BY <1>2 DEF IsConfig
    <2>2. Min(S) \in S
      BY <2>1, MinIn
    <2>3. Min(S) = n
      BY <1>2, <2>2, CheckedTags
    <2> QED BY <2>3 DEF FirstInbound
  <1>3. ASSUME NEW a, NEW b, IsConfig(a), IsConfig(b), CheckPasses(a), CheckPasses(b),
               KeepsInbounds(a, b), NEW i \in ToSet(a.ins)
        PROVE  \E j \in ToSet(b.ins) : Lasting(i) = Lasting(j)
    <2>1. PICK n \in DOMAIN a.ins : i = a.ins[n]
      BY DEF ToSet
    <2>2. i.tag \in InTags(a) /\ i.tag \in InTags(b)
      BY <1>3 DEF InTags, KeepsInbounds
    <2>3. PICK m \in DOMAIN b.ins : b.ins[m].tag = i.tag
      BY <2>2 DEF InTags, ToSet
    <2>4. FirstInbound(a, i.tag) = i /\ FirstInbound(b, i.tag) = b.ins[m]
      BY <1>2, <1>3, <2>1, <2>3
    <2>5. Lasting(i) = Lasting(b.ins[m])
      BY <1>3, <2>2, <2>4 DEF KeepsInbounds
    <2> QED BY <2>5 DEF ToSet
  <1>4. KeepsInbounds(d, c)
    BY <1>1 DEF KeepsInbounds
  <1>5. /\ \A i \in ToSet(c.ins) : \E j \in ToSet(d.ins) : Lasting(i) = Lasting(j)
        /\ \A i \in ToSet(d.ins) : \E j \in ToSet(c.ins) : Lasting(i) = Lasting(j)
    BY <1>1, <1>3, <1>4
  <1> QED BY <1>1, <1>5

\* What the check does not look at is the same in both.
LEMMA UncheckedKept ==
  ASSUME NEW c, NEW d, IsConfig(c), IsConfig(d), SameRules(c, d), c.outs = d.outs,
         {Lasting(i) : i \in ToSet(c.ins)} = {Lasting(i) : i \in ToSet(d.ins)},
         UncheckedRule(d)
  PROVE  UncheckedRule(c)
  <1>1. ASSUME NEW a, NEW b, IsConfig(a), IsConfig(b), NEW i \in ToSet(a.ins),
               {Lasting(x) : x \in ToSet(a.ins)} = {Lasting(x) : x \in ToSet(b.ins)}
        PROVE  \E j \in ToSet(b.ins) : j.tag = i.tag /\ j.kind = i.kind
    <2>1. PICK j \in ToSet(b.ins) : Lasting(j) = Lasting(i)
      BY <1>1
    <2> QED BY <1>1, <2>1, LastingKeeps
  <1>a. /\ \A i \in ToSet(c.ins) : \E j \in ToSet(d.ins) : j.tag = i.tag /\ j.kind = i.kind
        /\ \A i \in ToSet(d.ins) : \E j \in ToSet(c.ins) : j.tag = i.tag /\ j.kind = i.kind
    BY <1>1
  <1>2. InTags(c) = InTags(d)
    BY <1>a DEF InTags
  <1>3. {i.tag : i \in ServerInbounds(c)} = {i.tag : i \in ServerInbounds(d)}
    BY <1>a DEF ServerInbounds, OfKind
  <1>4. ServerInbounds(c) = {} <=> ServerInbounds(d) = {}
    BY <1>3
  <1>5. PureServer(c) <=> PureServer(d)
    <2>1. ToSet(c.ins) = ServerInbounds(c) <=> ToSet(d.ins) = ServerInbounds(d)
      BY <1>a DEF ServerInbounds, OfKind
    <2> QED BY <1>2, <2>1 DEF PureServer
  <1>6. MixedServer(c) <=> MixedServer(d)
    BY <1>4, <1>5 DEF MixedServer
  <1>7. ServerRules(c) = ServerRules(d)
    BY <1>3, <1>6 DEF ServerRules, SameRules
  <1>8. ClientRules(c) = ClientRules(d)
    BY <1>5 DEF ClientRules, SameRules
  <1>9. MixedServer(c) => Foreign(c) = Foreign(d)
    BY <1>6, <1>7 DEF Foreign, ServerRefs, OutTags
  <1> QED BY <1>4, <1>6, <1>7, <1>8, <1>9 DEF UncheckedRule

-----------------------------------------------------------------------------
(* What the menu tells is true.                                            *)

\* A session that is open has rules as they are in the file that it read.
MenuInv ==
  menu.open => /\ DOMAIN menu = {"open", "saved", "root"}
               /\ IsConfig(menu.saved) /\ IsConfig(menu.root)
               /\ SameRules(menu.saved, menu.root)

\* What is in force has the parts that it had at the start, and the file is one that could be
\* started with.
PlanInv ==
  /\ IsConfig(planFile) /\ MenuInv
  /\ DOMAIN inForce = DOMAIN InForce(Config(<<>>, <<>>))
  /\ inForce = [f \in DOMAIN inForce |-> inForce[f]]
  /\ planTold \/ othersWrote \/ (Vetted(planFile) /\ Started(inForce, planFile))
  /\ PlanTrue

LEMMA PlanStart == PlanInit => PlanInv
  <1> SUFFICES ASSUME PlanInit PROVE PlanInv
    OBVIOUS
  <1>1. IsConfig(planFile) /\ Vetted(planFile) /\ inForce = InForce(planFile) /\ menu = NoMenu
    BY PlanFilesAssumption DEF PlanInit
  <1>2. MenuInv
    BY <1>1 DEF MenuInv, NoMenu
  <1>3. DOMAIN inForce = DOMAIN InForce(Config(<<>>, <<>>)) /\ Started(inForce, planFile)
        /\ inForce = [f \in DOMAIN inForce |-> inForce[f]]
    BY <1>1 DEF InForce, Started
  <1> QED BY <1>1, <1>2, <1>3 DEF PlanInv, PlanTrue

\* An edit leaves the file alone, and keeps the rules.
LEMMA EditInv ==
  ASSUME PlanInv, NEW d, menu.open => IsConfig(d) /\ SameRules(menu.root, d), Edit(d)
  PROVE  PlanInv'
  <1>1. MenuInv'
    BY DEF PlanInv, MenuInv, NoMenu, Edit, SameRules
  <1>2. /\ Vetted(planFile)' = Vetted(planFile)
        /\ Started(inForce, planFile)' = Started(inForce, planFile)
        /\ IsConfig(planFile)' = IsConfig(planFile)
    BY DEF Edit, Vetted, Started, IsConfig
  <1> QED BY <1>1, <1>2 DEF Edit, PlanInv, PlanTrue

\* One inbound gets other credentials or parameters.
LEMMA EditInboundInv ==
  ASSUME PlanInv, NEW n \in DOMAIN menu.root.ins, NEW e,
         menu.open => DOMAIN e = DOMAIN menu.root.ins[n] /\ e.up = menu.root.ins[n].up,
         Edit([menu.root EXCEPT !.ins[n] = e])
  PROVE  PlanInv'
  <1>1. menu.open => IsConfig(menu.root)
    BY DEF PlanInv, MenuInv
  <1>2. menu.open => /\ IsConfig([menu.root EXCEPT !.ins[n] = e])
                     /\ SameRules(menu.root, [menu.root EXCEPT !.ins[n] = e])
    BY <1>1, NewInbound
  <1> QED BY <1>2, EditInv

\* It is the first of those that are meant.
LEMMA MinOfInbounds ==
  ASSUME PlanInv, menu.open, NEW of \in SUBSET DOMAIN menu.root.ins, of # {}
  PROVE  Min(of) \in of
  <1>1. of \in SUBSET Nat
    BY DEF PlanInv, MenuInv, IsConfig
  <1> QED BY <1>1, MinIn

LEMMA UserFields ==
  ASSUME PlanInv, menu.open, NEW n \in DOMAIN menu.root.ins
  PROVE  DOMAIN menu.root.ins[n] = DOMAIN InboundConfig(NoName, NoName, 0)
  BY DEF PlanInv, MenuInv, IsConfig

LEMMA ModifyServerInv == PlanInv /\ ModifyServerInbound => PlanInv'
  <1> SUFFICES ASSUME PlanInv, ModifyServerInbound PROVE PlanInv'
    OBVIOUS
  <1>1. PICK port \in 0 .. 2, password \in MenuPassword \ {NoName}, shape \in {0, 1},
             t \in InTags(menu.root) :
          LET of == {n \in DOMAIN menu.root.ins : /\ menu.root.ins[n].tag = t
                                                  /\ menu.root.ins[n].kind \in {"mirage_server"}}
          IN of # {} /\ Edit([menu.root EXCEPT !.ins[Min(of)] =
               [@ EXCEPT !.port = port, !.password = password, !.shape = shape]])
    BY DEF ModifyServerInbound, EditInbound, WithParameters
  <1> DEFINE of == {n \in DOMAIN menu.root.ins : /\ menu.root.ins[n].tag = t
                                                 /\ menu.root.ins[n].kind \in {"mirage_server"}}
  <1>2. menu.open
    BY <1>1 DEF Edit
  <1>3. Min(of) \in DOMAIN menu.root.ins
    BY <1>1, <1>2, MinOfInbounds
  <1> DEFINE i == menu.root.ins[Min(of)]
             e == [i EXCEPT !.port = port, !.password = password, !.shape = shape]
  <1>4. DOMAIN e = DOMAIN i /\ e.up = i.up
    OBVIOUS
  <1>5. Edit([menu.root EXCEPT !.ins[Min(of)] = e])
    BY <1>1
  <1> QED BY <1>3, <1>4, <1>5, EditInboundInv

\* Edits of users leave the rest of an inbound.
LEMMA UserEdits ==
  ASSUME NEW i, DOMAIN i = DOMAIN InboundConfig(NoName, NoName, 0)
  PROVE  /\ \A u : DOMAIN WithUser(i, u) = DOMAIN i /\ WithUser(i, u).up = i.up
         /\ \A name : DOMAIN WithoutUser(i, name) = DOMAIN i /\ WithoutUser(i, name).up = i.up
         /\ \A name, password : /\ DOMAIN WithPassword(i, name, password) = DOMAIN i
                                /\ WithPassword(i, name, password).up = i.up
  <1>1. ASSUME NEW s
        PROVE  DOMAIN [i EXCEPT !.users = s] = DOMAIN i /\ [i EXCEPT !.users = s].up = i.up
    BY DEF InboundConfig
  <1>2. \A u : DOMAIN WithUser(i, u) = DOMAIN i /\ WithUser(i, u).up = i.up
    BY <1>1 DEF WithUser
  <1>3. \A name : DOMAIN WithoutUser(i, name) = DOMAIN i /\ WithoutUser(i, name).up = i.up
    BY <1>1 DEF WithoutUser
  <1>4. \A name, password : /\ DOMAIN WithPassword(i, name, password) = DOMAIN i
                            /\ WithPassword(i, name, password).up = i.up
    BY <1>1 DEF WithPassword
  <1> QED BY <1>2, <1>3, <1>4

LEMMA AddUserInv == PlanInv /\ AddInboundUser => PlanInv'
  <1> SUFFICES ASSUME PlanInv, AddInboundUser PROVE PlanInv'
    OBVIOUS
  <1>1. PICK u \in MenuUser, t \in InTags(menu.root) :
          LET of == {n \in DOMAIN menu.root.ins : /\ menu.root.ins[n].tag = t
                                                  /\ menu.root.ins[n].kind \in AnyKind}
          IN of # {} /\ Edit([menu.root EXCEPT !.ins[Min(of)] = WithUser(@, u)])
    BY DEF AddInboundUser, EditInbound
  <1> DEFINE of == {n \in DOMAIN menu.root.ins : /\ menu.root.ins[n].tag = t
                                                 /\ menu.root.ins[n].kind \in AnyKind}
             i == menu.root.ins[Min(of)]
  <1>2. menu.open
    BY <1>1 DEF Edit
  <1>3. Min(of) \in DOMAIN menu.root.ins
    BY <1>1, <1>2, MinOfInbounds
  <1>4. DOMAIN WithUser(i, u) = DOMAIN i /\ WithUser(i, u).up = i.up
    BY <1>2, <1>3, UserFields, UserEdits
  <1>5. Edit([menu.root EXCEPT !.ins[Min(of)] = WithUser(i, u)])
    BY <1>1
  <1> QED BY <1>3, <1>4, <1>5, EditInboundInv

LEMMA DeleteUserInv == PlanInv /\ DeleteInboundUser => PlanInv'
  <1> SUFFICES ASSUME PlanInv, DeleteInboundUser PROVE PlanInv'
    OBVIOUS
  <1>1. PICK name \in {u.name : u \in MenuUser}, t \in InTags(menu.root) :
          LET of == {n \in DOMAIN menu.root.ins : /\ menu.root.ins[n].tag = t
                                                  /\ menu.root.ins[n].kind \in AnyKind}
          IN of # {} /\ Edit([menu.root EXCEPT !.ins[Min(of)] = WithoutUser(@, name)])
    BY DEF DeleteInboundUser, EditInbound
  <1> DEFINE of == {n \in DOMAIN menu.root.ins : /\ menu.root.ins[n].tag = t
                                                 /\ menu.root.ins[n].kind \in AnyKind}
             i == menu.root.ins[Min(of)]
  <1>2. menu.open
    BY <1>1 DEF Edit
  <1>3. Min(of) \in DOMAIN menu.root.ins
    BY <1>1, <1>2, MinOfInbounds
  <1>4. DOMAIN WithoutUser(i, name) = DOMAIN i /\ WithoutUser(i, name).up = i.up
    BY <1>2, <1>3, UserFields, UserEdits
  <1>5. Edit([menu.root EXCEPT !.ins[Min(of)] = WithoutUser(i, name)])
    BY <1>1
  <1> QED BY <1>3, <1>4, <1>5, EditInboundInv

LEMMA ModifyUserInv == PlanInv /\ ModifyInboundUser => PlanInv'
  <1> SUFFICES ASSUME PlanInv, ModifyInboundUser PROVE PlanInv'
    OBVIOUS
  <1>1. PICK name \in {u.name : u \in MenuUser}, password \in MenuPassword \ {NoName},
             t \in InTags(menu.root) :
          LET of == {n \in DOMAIN menu.root.ins : /\ menu.root.ins[n].tag = t
                                                  /\ menu.root.ins[n].kind \in AnyKind}
          IN of # {} /\ Edit([menu.root EXCEPT !.ins[Min(of)] = WithPassword(@, name, password)])
    BY DEF ModifyInboundUser, EditInbound
  <1> DEFINE of == {n \in DOMAIN menu.root.ins : /\ menu.root.ins[n].tag = t
                                                 /\ menu.root.ins[n].kind \in AnyKind}
             i == menu.root.ins[Min(of)]
  <1>2. menu.open
    BY <1>1 DEF Edit
  <1>3. Min(of) \in DOMAIN menu.root.ins
    BY <1>1, <1>2, MinOfInbounds
  <1>4. /\ DOMAIN WithPassword(i, name, password) = DOMAIN i
        /\ WithPassword(i, name, password).up = i.up
    <2>1. DOMAIN i = DOMAIN InboundConfig(NoName, NoName, 0)
      BY <1>2, <1>3, UserFields
    <2> HIDE DEF i
    <2> QED BY <2>1, UserEdits
  <1>5. Edit([menu.root EXCEPT !.ins[Min(of)] = WithPassword(i, name, password)])
    BY <1>1
  <1> QED BY <1>3, <1>4, <1>5, EditInboundInv

LEMMA SettingsInv ==
  PlanInv /\ (ModifyTuning \/ SetDefaultOutbound \/ AddMirageOutbound) => PlanInv'
  <1> SUFFICES ASSUME PlanInv, ModifyTuning \/ SetDefaultOutbound \/ AddMirageOutbound
               PROVE  PlanInv'
    OBVIOUS
  <1>1. \E v : \/ Edit([menu.root EXCEPT !.tuning = v]) \/ Edit([menu.root EXCEPT !.default = v])
               \/ Edit([menu.root EXCEPT !.outs = v])
    BY DEF ModifyTuning, SetDefaultOutbound, AddMirageOutbound
  <1>2. menu.open => IsConfig(menu.root)
    BY DEF PlanInv, MenuInv
  <1> QED BY <1>1, <1>2, NewPart, EditInv

LEMMA SaveInv == PlanInv /\ SaveMenu => PlanInv'
  <1> SUFFICES ASSUME PlanInv, SaveMenu PROVE PlanInv'
    OBVIOUS
  <1> USE DEF SaveMenu
  <1>1. IsConfig(menu.saved) /\ IsConfig(menu.root) /\ SameRules(menu.saved, menu.root)
    BY DEF PlanInv, MenuInv
  <1>2. MenuInv'
    BY DEF MenuInv, NoMenu
  <1>3. IsConfig(planFile)'
    BY <1>1 DEF IsConfig
  <1>4. ASSUME ~ planTold', ~ othersWrote'
        PROVE  Vetted(menu.root) /\ Started(inForce, menu.root)
    <2>1. /\ menu.saved = planFile /\ Classify(menu.saved, menu.root) # "restart"
          /\ Vetted(menu.saved) /\ Started(inForce, menu.saved)
      BY <1>4 DEF PlanInv
    <2>2. /\ menu.saved.outs = menu.root.outs /\ Settings(menu.saved) = Settings(menu.root)
          /\ {Lasting(i) : i \in ToSet(menu.saved.ins)} = {Lasting(i) : i \in ToSet(menu.root.ins)}
      BY <1>1, <2>1, ReloadKeeps DEF Vetted
    <2>3. ~ UncheckedRule(menu.root)
      BY <1>1, <2>1, <2>2, UncheckedKept DEF Vetted
    <2> QED BY <2>1, <2>2, <2>3 DEF Started, Vetted
  <1>5. planTold' \/ othersWrote' \/ (Vetted(planFile)' /\ Started(inForce, planFile)')
    <2>1. Vetted(menu.root) => Vetted(planFile)'
      BY DEF Vetted
    <2>2. Started(inForce, menu.root) => Started(inForce, planFile)'
      BY DEF Started
    <2> QED BY <1>4, <2>1, <2>2
  <1> QED BY <1>2, <1>3, <1>5 DEF PlanInv, PlanTrue

LEMMA HotReloadInv == PlanInv /\ HotReload => PlanInv'
  <1> SUFFICES ASSUME PlanInv, HotReload PROVE PlanInv'
    OBVIOUS
  <1> USE DEF HotReload
  <1>1. IsConfig(planFile)' /\ MenuInv'
    BY DEF PlanInv, MenuInv, IsConfig
  <1>2. DOMAIN inForce' = DOMAIN inForce /\ inForce' = [f \in DOMAIN inForce' |-> inForce'[f]]
    BY DEF Reloaded
  <1>3. ASSUME ~ planTold', ~ othersWrote'
        PROVE  Vetted(planFile)' /\ Started(inForce, planFile)' /\ inForce' = InForce(planFile)'
    <2>1. IsConfig(planFile) /\ Vetted(planFile) /\ Started(inForce, planFile)
      BY <1>3 DEF PlanInv
    <2>2. inForce' = InForce(planFile)
      BY <2>1, ReloadComplete DEF PlanInv
    <2>3. InForce(planFile)' = InForce(planFile) /\ Vetted(planFile)' = Vetted(planFile)
      BY DEF InForce, Vetted
    <2>4. Started(inForce, planFile)'
      BY <2>2 DEF Started, InForce
    <2> QED BY <2>1, <2>2, <2>3, <2>4
  <1> QED BY <1>1, <1>2, <1>3 DEF PlanInv, PlanTrue

LEMMA RestartInv == PlanInv /\ RestartService => PlanInv'
  <1> SUFFICES ASSUME PlanInv, RestartService PROVE PlanInv'
    OBVIOUS
  <1> USE DEF RestartService
  <1>1. IsConfig(planFile)' /\ MenuInv'
    BY DEF PlanInv, MenuInv, IsConfig
  <1>2. InForce(planFile)' = InForce(planFile) /\ Vetted(planFile)' = Vetted(planFile)
    BY DEF InForce, Vetted
  <1>3. /\ DOMAIN inForce' = DOMAIN InForce(Config(<<>>, <<>>))
        /\ inForce' = [f \in DOMAIN inForce' |-> inForce'[f]]
        /\ Started(inForce, planFile)'
    BY DEF InForce, Started
  <1> QED BY <1>1, <1>2, <1>3 DEF PlanInv, PlanTrue

LEMMA OtherInv == PlanInv /\ (OpenMenu \/ QuitMenu \/ OtherWriter) => PlanInv'
  <1> SUFFICES ASSUME PlanInv, OpenMenu \/ QuitMenu \/ OtherWriter PROVE PlanInv'
    OBVIOUS
  <1>1. CASE OtherWriter
    <2>1. IsConfig(planFile)'
      BY <1>1, PlanFilesAssumption DEF OtherWriter, IsConfig
    <2> QED BY <1>1, <2>1 DEF OtherWriter, PlanInv, MenuInv, PlanTrue
  <1>2. CASE OpenMenu \/ QuitMenu
    <2>1. UNCHANGED <<planFile, inForce, planTold, othersWrote, unseen>>
      BY <1>2 DEF OpenMenu, QuitMenu
    <2>2. MenuInv'
      BY <1>2 DEF OpenMenu, QuitMenu, PlanInv, MenuInv, NoMenu, SameRules
    <2>3. /\ Vetted(planFile)' = Vetted(planFile) /\ IsConfig(planFile)' = IsConfig(planFile)
          /\ Started(inForce, planFile)' = Started(inForce, planFile)
      BY <2>1 DEF Vetted, Started, IsConfig
    <2> QED BY <2>1, <2>2, <2>3 DEF PlanInv, PlanTrue
  <1> QED BY <1>1, <1>2

LEMMA PlanStep == PlanInv /\ [PlanNext]_planVars => PlanInv'
  <1> SUFFICES ASSUME PlanInv, [PlanNext]_planVars PROVE PlanInv'
    OBVIOUS
  <1>1. CASE UNCHANGED planVars
    BY <1>1 DEF planVars, PlanInv, MenuInv, PlanTrue, Vetted, Started, IsConfig
  <1>2. CASE PlanNext
    BY <1>2, ModifyServerInv, AddUserInv, DeleteUserInv, ModifyUserInv, SettingsInv, SaveInv,
       HotReloadInv, RestartInv, OtherInv DEF PlanNext
  <1> QED BY <1>1, <1>2

\* What the menu has saved without calling for a restart is in force once the watcher has seen
\* it, as long as nobody else writes the file (config_edit.rs:1117-1118).
THEOREM PlanAlwaysTrue == PlanSpec => []PlanTrue
  <1>1. PlanInv => PlanTrue
    BY DEF PlanInv
  <1> QED BY PlanStart, PlanStep, <1>1, PTL DEF PlanSpec

-----------------------------------------------------------------------------
(* The steps of a start go by one file, and leave no filter behind.        *)

\* A configuration in which only inbounds of the server have upstreams.
OnlyServersRelay(c) ==
  /\ DOMAIN c.ins = 1 .. Len(c.ins)
  /\ \A n \in DOMAIN c.ins : c.ins[n].kind # "mirage_server" => c.ins[n].up = NoUpstream

CoreUpstreams(c) == {i.tag : i \in {x \in ServerInbounds(c) : x.up # NoUpstream}}

\* Before the inbounds are read none is there; after that they are there from the first on.
NoneOpened ==
  /\ opened = [n \in {} |-> "off"] /\ relayed = {} /\ filters = [on |-> {}, last |-> 0]
OpenedUpTo(k) ==
  /\ k <= Len(Ins) /\ DOMAIN opened = 0 .. k
  /\ relayed = {n \in 1 .. k : Relays(Ins[n])}
  /\ DOMAIN filters = {"on", "last"}
  /\ filters.last \in 0 .. k /\ filters.on \subseteq 1 .. filters.last
InboundsRead ==
  /\ "inbounds" \in DOMAIN readBy /\ OnlyServersRelay(readBy["inbounds"].conf)
  /\ ServersAlike(Ins) = {}

\* What was read is the file, unless it has been edited; the table of upstreams is of what the
\* watcher has read.
StartInv ==
  /\ startEdits \in Nat /\ OnlyServersRelay(startFile.conf)
  /\ startEdits = 0 => \A s \in DOMAIN readBy \ {"log"} : readBy[s] = startFile
  /\ startPhase \in {"off", "logging", "ensure"} => DOMAIN readBy \subseteq {"log"}
  /\ startPhase \in {"engines", "inbounds", "open", "stopped"} =>
       "core" \in DOMAIN readBy /\ core.upstreams = CoreUpstreams(readBy["core"].conf)
  /\ startPhase \notin {"open", "stopped"} => NoneOpened
  /\ startPhase \in {"open", "stopped"} => InboundsRead /\ \E k \in Nat : OpenedUpTo(k)
  /\ FiltersRemoved

LEMMA StartBegins == StartInit => StartInv
  <1> SUFFICES ASSUME StartInit PROVE StartInv
    OBVIOUS
  <1>1. OnlyServersRelay(startFile.conf)
    BY StartFilesAssumption DEF StartInit, OnlyServersRelay, NoFile, Torn, Whole, Config
  <1> QED BY <1>1 DEF StartInit, StartInv, NoneOpened, FiltersRemoved

\* Steps before the inbounds are there keep what has been read, or read the file again.
LEMMA ReadingKeeps ==
  ASSUME StartInv, startPhase \notin {"open", "stopped"}, startEdits' = startEdits,
         UNCHANGED startFile, \E s \in {"log", "settings", "template", "core"} : Read(s)
  PROVE  /\ startEdits' = 0 => \A s \in DOMAIN readBy' \ {"log"} : readBy'[s] = startFile'
         /\ "core" \in DOMAIN readBy => "core" \in DOMAIN readBy'
  BY DEF StartInv, Read

LEMMA StartSteps == StartInv /\ [StartNext]_startVars => StartInv'
  <1> SUFFICES ASSUME StartInv, [StartNext]_startVars PROVE StartInv'
    OBVIOUS
  <1> USE DEF At, NextStep, Aborts, StepAfter
  <1>1. ASSUME NEW check \in BOOLEAN, Launch(check) PROVE StartInv'
    BY <1>1 DEF Launch, StartInv, NoneOpened, FiltersRemoved
  <1>2. CASE InitLogging
    BY <1>2 DEF InitLogging, Read, StartInv, NoneOpened, FiltersRemoved
  <1>3. CASE EnsureDefaultConfig
    <2>0. OnlyServersRelay(DefaultConfig)
      <3>1. PICK i : DefaultConfig.ins = <<i>> /\ i.up = NoUpstream
        <4> DEFINE i == [InboundConfig("socks-in", "socks", 1080) EXCEPT !.host = "lo"]
        <4>1. DefaultConfig.ins = <<i>>
          BY DEF DefaultConfig, Config
        <4>2. i.up = NoUpstream
          BY DEF InboundConfig
        <4> HIDE DEF i
        <4> QED BY <4>1, <4>2
      <3> QED BY <3>1 DEF OnlyServersRelay
    <2>1. OnlyServersRelay(startFile.conf)'
      <3>1. UNCHANGED startFile \/ startFile' = Whole(DefaultConfig)
        BY <1>3 DEF EnsureDefaultConfig
      <3> QED BY <3>1, <2>0 DEF StartInv, OnlyServersRelay, Whole
    <2> QED BY <1>3, <2>1 DEF EnsureDefaultConfig, StartInv, NoneOpened, FiltersRemoved
  <1>4. CASE ScanRuntimeConfig
    BY <1>4 DEF ScanRuntimeConfig, Read, StartInv, NoneOpened, FiltersRemoved
  <1>5. CASE LoadTemplate
    BY <1>5 DEF LoadTemplate, Read, StartInv, NoneOpened, FiltersRemoved
  <1>6. CASE NewWatcher
    BY <1>6 DEF NewWatcher, Read, StartInv, NoneOpened, FiltersRemoved, CoreUpstreams
  <1>7. ASSUME NEW server \in BOOLEAN, InitEngines(server) PROVE StartInv'
    BY <1>7 DEF InitEngines, StartInv, NoneOpened, FiltersRemoved
  <1>8. CASE ReadInbounds
    <2>1. CASE ServersAlike(startFile.conf.ins) # {}
      BY <1>8, <2>1 DEF ReadInbounds, Read, StartInv, NoneOpened, FiltersRemoved
    <2>2. CASE ServersAlike(startFile.conf.ins) = {}
      <3>1. readBy' = [s \in DOMAIN readBy \cup {"inbounds"} |->
                         IF s = "inbounds" THEN startFile ELSE readBy[s]]
        BY <1>8 DEF ReadInbounds, Read
      <3>2. InboundsRead'
        BY <1>8, <2>2, <3>1 DEF ReadInbounds, InboundsRead, StartInv, Ins, OnlyServersRelay
      <3>3. startPhase' = "open" /\ DOMAIN opened' = {0} /\ UNCHANGED <<relayed, filters>>
        BY <1>8, <2>2 DEF ReadInbounds
      <3>4. NoneOpened
        BY <1>8 DEF ReadInbounds, StartInv
      <3>5. Len(Ins') \in Nat
        BY <3>2 DEF InboundsRead, OnlyServersRelay, Ins
      <3>6. OpenedUpTo(0)'
        BY <3>3, <3>4, <3>5 DEF OpenedUpTo, NoneOpened
      <3> QED BY <1>8, <3>1, <3>2, <3>3, <3>6 DEF ReadInbounds, StartInv, FiltersRemoved
    <2> QED BY <2>1, <2>2
  <1>9. CASE StartInbound
    <2>1. PICK k \in Nat : OpenedUpTo(k)
      BY <1>9 DEF StartInbound, StartInv
    <2>2. Cardinality(DOMAIN opened) = k + 1
      <3>1. Cardinality(0 .. k) = IF 0 > k THEN 0 ELSE k - 0 + 1
        BY <2>1, FS_Interval
      <3> QED BY <3>1, <2>1 DEF OpenedUpTo
    <2>3. UNCHANGED <<startFile, startEdits, startPhase, readBy, core, engines>>
          /\ startPhase = "open"
      BY <1>9 DEF StartInbound
    <2>4. k + 1 <= Len(Ins) /\ DOMAIN opened' = 0 .. k + 1
          /\ relayed' = {n \in 1 .. k + 1 : Relays(Ins[n])} /\ Filter(k + 1)
      BY <1>9, <2>1, <2>2 DEF StartInbound, OpenedUpTo
    <2>5. /\ DOMAIN filters' = {"on", "last"} /\ filters'.last \in 0 .. k + 1
          /\ filters'.on \subseteq 1 .. filters'.last
      <3>1. CASE UNCHANGED filters
        BY <3>1, <2>1 DEF OpenedUpTo
      <3>2. CASE filters' = [on |-> filters.on \cup {k + 1}, last |-> k + 1]
        BY <3>2, <2>1 DEF OpenedUpTo
      <3> QED BY <3>1, <3>2, <2>4 DEF Filter
    <2>6. Ins' = Ins /\ InboundsRead' = InboundsRead
          /\ \A n : Relays(Ins[n])' = Relays(Ins[n])
      BY <2>3 DEF Ins, InboundsRead, Relays, ServerTable
    <2>7. OpenedUpTo(k + 1)'
      BY <2>4, <2>5, <2>6 DEF OpenedUpTo
    <2> QED BY <2>3, <2>6, <2>7 DEF StartInv, FiltersRemoved
  <1>10. CASE Shutdown
    <2>1. PICK k \in Nat : OpenedUpTo(k)
      BY <1>10 DEF Shutdown, StartInv
    <2>2. UNCHANGED <<startFile, startEdits, readBy, core, opened, relayed>>
          /\ startPhase = "open" /\ startPhase' = "stopped"
          /\ filters' = [filters EXCEPT !.on = @ \ {filters.last}]
      BY <1>10 DEF Shutdown
    <2>3. /\ DOMAIN filters' = {"on", "last"} /\ filters'.last = filters.last
          /\ filters'.on = filters.on \ {filters.last}
      BY <2>1, <2>2 DEF OpenedUpTo
    <2>4. OpenedUpTo(k)' /\ InboundsRead' = InboundsRead
      <3>1. Ins' = Ins /\ \A n : Relays(Ins[n])' = Relays(Ins[n])
        BY <2>2 DEF Ins, Relays, ServerTable
      <3> QED BY <3>1, <2>1, <2>2, <2>3 DEF OpenedUpTo, InboundsRead
    <2>5. FiltersRemoved'
      BY <2>1, <2>3 DEF FiltersRemoved, OpenedUpTo
    <2> QED BY <2>2, <2>4, <2>5 DEF StartInv
  <1>11. CASE EditWhileStarting
    <2>1. OnlyServersRelay(startFile.conf)'
      BY <1>11, StartFilesAssumption DEF EditWhileStarting, OnlyServersRelay, Torn, Whole, Config
    <2>2. startEdits' \in Nat /\ startEdits' # 0
      BY <1>11 DEF EditWhileStarting, StartInv
    <2> QED BY <1>11, <2>1, <2>2 DEF EditWhileStarting, StartInv, NoneOpened, FiltersRemoved
  <1>12. ASSUME NEW n \in DOMAIN opened, Bind(n) PROVE StartInv'
    <2>1. DOMAIN opened' = DOMAIN opened
          /\ UNCHANGED <<startFile, startEdits, startPhase, readBy, core, relayed, filters>>
      BY <1>12 DEF Bind
    <2>2. startPhase \in {"open", "stopped"}
      BY <1>12 DEF StartInv, NoneOpened
    <2>3. PICK k \in Nat : OpenedUpTo(k)
      BY <2>2 DEF StartInv
    <2>4. OpenedUpTo(k)' /\ InboundsRead' = InboundsRead
      <3>1. Ins' = Ins /\ \A m : Relays(Ins[m])' = Relays(Ins[m])
        BY <2>1 DEF Ins, Relays, ServerTable
      <3> QED BY <3>1, <2>1, <2>3 DEF OpenedUpTo, InboundsRead
    <2> QED BY <2>1, <2>2, <2>4 DEF StartInv, FiltersRemoved
  <1>13. CASE UNCHANGED startVars
    <2>1. UNCHANGED <<startFile, startEdits, startPhase, readBy, core, opened, relayed, filters>>
      BY <1>13 DEF startVars
    <2>2. Ins' = Ins /\ \A m : Relays(Ins[m])' = Relays(Ins[m])
      BY <2>1 DEF Ins, Relays, ServerTable
    <2>3. /\ \A k \in Nat : OpenedUpTo(k)' = OpenedUpTo(k)
          /\ InboundsRead' = InboundsRead /\ NoneOpened' = NoneOpened
      BY <2>1, <2>2 DEF OpenedUpTo, InboundsRead, NoneOpened
    <2> QED BY <2>1, <2>3 DEF StartInv, FiltersRemoved
  <1> QED BY <1>1, <1>2, <1>3, <1>4, <1>5, <1>6, <1>7, <1>8, <1>9, <1>10, <1>11, <1>12, <1>13
          DEF StartNext

\* An inbound of the server has the upstream that its tag has in the table, which is its own.
LEMMA UpstreamsAgree == StartInv => OneConfiguration
  <1> SUFFICES ASSUME StartInv, startEdits = 0 PROVE OneConfiguration
    BY DEF OneConfiguration
  <1>1. Cardinality({readBy[s] : s \in DOMAIN readBy \ {"log"}}) <= 1
    <2>1. {readBy[s] : s \in DOMAIN readBy \ {"log"}} \subseteq {startFile}
      BY DEF StartInv
    <2>2. IsFiniteSet({startFile}) /\ Cardinality({startFile}) = 1
      BY FS_Singleton
    <2> QED BY <2>1, <2>2, FS_Subset
  <1>2. ASSUME NEW n \in DOMAIN opened \ {0} PROVE n \in relayed <=> Ins[n].up # NoUpstream
    <2>1. startPhase \in {"open", "stopped"}
      BY <1>2 DEF StartInv, NoneOpened
    <2>2. InboundsRead /\ readBy["core"] = startFile /\ readBy["inbounds"] = startFile
          /\ core.upstreams = CoreUpstreams(startFile.conf)
      BY <2>1 DEF StartInv, InboundsRead
    <2>3. PICK k \in Nat : OpenedUpTo(k)
      BY <2>1 DEF StartInv
    <2>4. Ins = startFile.conf.ins /\ DOMAIN Ins = 1 .. Len(Ins)
          /\ (Ins[n].kind # "mirage_server" => Ins[n].up = NoUpstream)
          /\ n \in DOMAIN Ins /\ (n \in relayed <=> Relays(Ins[n]))
      BY <2>2, <2>3, <1>2 DEF InboundsRead, Ins, OnlyServersRelay, OpenedUpTo
    <2>5. CASE Ins[n].kind # "mirage_server"
      BY <2>4, <2>5 DEF Relays
    <2>6. CASE Ins[n].kind = "mirage_server"
      <3>1. Ins[n] \in ServerInbounds(startFile.conf)
        BY <2>4, <2>6 DEF ServerInbounds, OfKind, ToSet
      <3>2. Relays(Ins[n]) <=> Ins[n].tag \in CoreUpstreams(startFile.conf)
        BY <3>1, <2>2, <2>6 DEF Relays, ServerTable
      <3>3. ASSUME NEW x \in ServerInbounds(startFile.conf), x.tag = Ins[n].tag PROVE x = Ins[n]
        <4>1. PICK m \in DOMAIN Ins : x = Ins[m] /\ x.kind = "mirage_server"
          BY <2>4 DEF ServerInbounds, OfKind, ToSet
        <4>2. m \in 1 .. Len(Ins) /\ n \in 1 .. Len(Ins) /\ Len(Ins) \in Nat
          BY <2>4, <4>1
        <4>3. ~ (m < n) /\ ~ (n < m)
          BY <4>1, <4>2, <2>2, <2>4, <2>6, <3>3 DEF InboundsRead, ServersAlike, Repeats
        <4> QED BY <4>1, <4>2, <4>3
      <3>4. Ins[n].tag \in CoreUpstreams(startFile.conf) <=> Ins[n].up # NoUpstream
        BY <3>1, <3>3 DEF CoreUpstreams
      <3> QED BY <2>4, <3>2, <3>4
    <2> QED BY <2>5, <2>6
  <1> QED BY <1>1, <1>2 DEF OneConfiguration

\* When nobody edits the file while the process starts, every step goes by the same one, and no
\* inbound of the server that has an upstream goes out directly (lib.rs:61-62); and the filter
\* that is remembered is removed at the end (tc_divert.rs:89-94).
THEOREM StartsAsOne == StartSpec => [](OneConfiguration /\ FiltersRemoved)
  <1>1. StartInv => FiltersRemoved
    BY DEF StartInv
  <1> QED BY StartBegins, StartSteps, UpstreamsAgree, <1>1, PTL DEF StartSpec

=============================================================================
