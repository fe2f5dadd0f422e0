------------------------------- MODULE Routing -------------------------------
(***************************************************************************)
(* The routing rules of the client (router/mod.rs, router/geo.rs).         *)
(*                                                                         *)
(* A domain is a sequence of letters, "." among them; an address is a      *)
(* number below 2^AddrBits and a network a pair <<address, prefix length>>.*)
(* A rule is a record [mode, out, suffix, keyword, sites, nets, geoips,    *)
(* ports, inbound]; the conditions on source, process and user work like   *)
(* inbound.                                                                *)
(***************************************************************************)
EXTENDS Integers, Sequences, FiniteSets

CONSTANTS
    Tables,        \* rule tables: sequences of rules
    Domain,        \* the domains that are asked for
    AddrBits,
    Port, Inbound, \* what a request carries; NoInbound when the caller has none
    NoInbound,
    SiteFile,      \* geosite.dat: a sequence of [code, full, suffix, keyword, nets]
    IpFile,        \* geoip.dat: a sequence of [code, nets]
    DefaultOut

\* Rules are numbered from one, and every address has a number below that of no address.
ASSUME RoutingAssumption ==
    /\ \A t \in Tables : Len(t) \in Nat /\ DOMAIN t = 1..Len(t)
    /\ 2^AddrBits \in Nat

VARIABLES
    rules,      \* the rule table in force
    hits,       \* [0..Len(rules) -> Nat]: per rule, 0 for the default outbound
    decided     \* the rule that decided the last request (0: default), or None

routingVars == <<rules, hits, decided>>

Addr == 0..(2^AddrBits - 1)
NoAddr == 2^AddrBits
None == -1
Request == [domain : Domain \cup {<<>>}, ip : Addr \cup {NoAddr}, port : Port,
            inbound : Inbound \cup {NoInbound}]

-----------------------------------------------------------------------------
(* geo.rs.                                                                 *)

InNet(net, ip) == ip \div 2^(AddrBits - net[2]) = net[1] \div 2^(AddrBits - net[2])

\* The entries of the first record with the code; nothing if the file has none
First(file, code) ==
    LET is == {i \in 1..Len(file) : file[i].code = code}
    IN  file[CHOOSE i \in is : \A j \in is : i <= j]
Has(file, code) == \E i \in 1..Len(file) : file[i].code = code

LoadGeosite(code) ==
    IF Has(SiteFile, code) THEN First(SiteFile, code)
    ELSE [code |-> code, full |-> {}, suffix |-> {}, keyword |-> {}, nets |-> {}]

LoadGeoip(code) == IF Has(IpFile, code) THEN First(IpFile, code).nets ELSE {}

-----------------------------------------------------------------------------
(* What RouterEngine::new puts into its matchers for one rule.             *)

Sites(r) == {LoadGeosite(c) : c \in r.sites}
FullOf(r) == UNION {s.full : s \in Sites(r)}
SuffixOf(r) == r.suffix \cup UNION {s.suffix : s \in Sites(r)}
KeywordOf(r) == r.keyword \cup UNION {s.keyword : s \in Sites(r)}
NetsOf(r) == r.nets \cup (UNION {s.nets : s \in Sites(r)})
                    \cup (UNION {LoadGeoip(c) : c \in r.geoips})

HasDomainFilters(r) == r.suffix # {} \/ r.keyword # {} \/ r.sites # {}
HasIpFilters(r) == r.nets # {} \/ r.geoips # {}
HasNetworkFilters(r) == HasDomainFilters(r) \/ HasIpFilters(r)

MatchesPort(r, q) == r.ports = {} \/ q.port \in r.ports
MatchesExtra(r, q) == r.inbound = {} \/ q.inbound \in r.inbound

-----------------------------------------------------------------------------
(* The matchers.                                                           *)

\* DomainTrie::search: whole labels from the right
LabelSuffix(s, d) ==
    \/ s = d
    \/ /\ Len(d) > Len(s)
       /\ SubSeq(d, Len(d) - Len(s) + 1, Len(d)) = s
       /\ d[Len(d) - Len(s)] = "."

\* An occurrence of a keyword of rule id in d: positions first..last
Occurrences(t, d) ==
    {o \in [id : DOMAIN t, first : 1..Len(d), last : 1..Len(d)] :
        o.first <= o.last /\ SubSeq(d, o.first, o.last) \in KeywordOf(t[o.id])}

\* find_iter of the automaton over all rules' keywords reports occurrences that do
\* not overlap: the one that ends first, of those the longest, of equal patterns the
\* one that was added first; then it goes on behind it.
KeywordIds(t, d) ==
    LET found[from \in 1..(Len(d) + 1)] ==
            LET os == {o \in Occurrences(t, d) : o.first >= from}
                best == CHOOSE o \in os : \A p \in os :
                          \/ o.last < p.last
                          \/ o.last = p.last /\ o.first < p.first
                          \/ o.last = p.last /\ o.first = p.first /\ o.id <= p.id
            IN  IF os = {} THEN {} ELSE {best} \cup found[best.last + 1]
    IN  {o.id : o \in Occurrences(t, d) \cap found[1]}

DomainIds(t, d) ==
    {id \in DOMAIN t : \/ d \in FullOf(t[id])
                       \/ \E s \in SuffixOf(t[id]) : LabelSuffix(s, d)}
    \cup KeywordIds(t, d)

\* IpTrie::search: every network on the way down
IpIds(t, ip) == {id \in DOMAIN t : \E n \in NetsOf(t[id]) : InNet(n, ip)}

-----------------------------------------------------------------------------
(* Decisions.                                                              *)

Smallest(ids) == IF ids = {} THEN 0 ELSE CHOOSE i \in ids : \A j \in ids : i <= j

Count(b) == IF b THEN 1 ELSE 0

\* Mutant of Required: a rule in "and" mode is content with one dimension
RequiredOne(r) == 1

Required(r) ==
    IF r.mode = "and" /\ HasNetworkFilters(r)
    THEN Count(HasDomainFilters(r)) + Count(HasIpFilters(r)) ELSE 1

\* route_matched: the smallest id with as many dimensions as its rule requires
RouteMatched(t, q) ==
    LET byDomain == IF q.domain = <<>> THEN {} ELSE DomainIds(t, q.domain)
        byIp == IF q.ip = NoAddr THEN {} ELSE IpIds(t, q.ip)
        count(id) == Count(id \in byDomain) + Count(id \in byIp)
                     + Count(~HasNetworkFilters(t[id]))
    IN  Smallest({id \in DOMAIN t : /\ count(id) >= Required(t[id])
                                    /\ MatchesPort(t[id], q) /\ MatchesExtra(t[id], q)})

\* route_decision for a domain that is not resolved yet: what one rule says
Verdict(t, q, id) ==
    LET r == t[id]  hit == id \in DomainIds(t, q.domain) IN
    IF ~MatchesPort(r, q) \/ ~MatchesExtra(r, q) THEN "skip"
    ELSE IF r.mode = "and"
    THEN IF HasDomainFilters(r) /\ ~hit THEN "skip"
         ELSE IF HasIpFilters(r) THEN "needIp" ELSE "matched"
    ELSE IF hit THEN "matched"
    ELSE IF HasIpFilters(r) THEN "needIp"
    ELSE IF HasNetworkFilters(r) THEN "skip" ELSE "matched"

\* ... and what the table says: the first rule that does not skip
Decision(t, q) ==
    IF q.ip # NoAddr \/ q.domain = <<>>
    THEN [id |-> RouteMatched(t, q), needIp |-> FALSE]
    ELSE LET id == Smallest({i \in DOMAIN t : Verdict(t, q, i) # "skip"})
         IN  IF id = 0 THEN [id |-> 0, needIp |-> FALSE]
             ELSE [id |-> id, needIp |-> Verdict(t, q, id) = "needIp"]

OutOf(t, id) == IF id = 0 THEN DefaultOut ELSE t[id].out

\* direct_v4_cidrs: the networks of direct rules that no other rule's network overlaps
Overlaps(m, n) == InNet(m, n[1]) \/ InNet(n, m[1])
DirectV4Cidrs(t) ==
    LET of(direct) == UNION {NetsOf(t[id]) : id \in {i \in DOMAIN t :
                                (t[i].out = "direct") = direct}}
    IN  {n \in of(TRUE) : \A m \in of(FALSE) : ~Overlaps(n, m)}

-----------------------------------------------------------------------------
(* Actions on the rule table.                                              *)

Hit(id) == hits' = [hits EXCEPT ![id] = @ + 1] /\ decided' = id

\* A connection: decide, and when the decision needs an address, resolve (which may
\* fail) and route with it
Connect(q) ==
    LET d == Decision(rules, q) IN
    /\ decided = None
    /\ IF ~d.needIp THEN Hit(d.id)
       ELSE \E ip \in Addr \cup {NoAddr} : Hit(RouteMatched(rules, [q EXCEPT !.ip = ip]))
    /\ UNCHANGED rules

\* A reload makes a new engine with new counters
NewTable(t) ==
    /\ decided # None /\ t # rules
    /\ rules' = t /\ hits' = [id \in 0..Len(t) |-> 0] /\ decided' = None

RoutingInit ==
    /\ rules \in Tables
    /\ hits = [id \in 0..Len(rules) |-> 0]
    /\ decided = None

RoutingNext ==
    \/ \E q \in Request : (q.domain # <<>> \/ q.ip # NoAddr) /\ Connect(q)
    \/ \E t \in Tables : NewTable(t)

RoutingSpec == RoutingInit /\ [][RoutingNext]_routingVars

-----------------------------------------------------------------------------
(* Properties.                                                             *)

\* What the documentation says of a rule: its dimensions, by mode, and the
\* connection's own conditions
RuleMatches(r, q) ==
    LET dom == q.domain # <<>> /\ \/ q.domain \in FullOf(r)
                                  \/ \E s \in SuffixOf(r) : LabelSuffix(s, q.domain)
                                  \/ \E i, j \in 1..Len(q.domain) :
                                        /\ i <= j
                                        /\ SubSeq(q.domain, i, j) \in KeywordOf(r)
        net == q.ip # NoAddr /\ \E n \in NetsOf(r) : InNet(n, q.ip)
    IN  /\ MatchesPort(r, q) /\ MatchesExtra(r, q)
        /\ \/ ~HasNetworkFilters(r)
           \/ r.mode # "and" /\ (dom \/ net)
           \/ /\ r.mode = "and"
              /\ HasDomainFilters(r) => dom
              /\ HasIpFilters(r) => net

\* Rules that ask for no address and match one all the same: their lists of sites name networks
SiteNets(r) == UNION {s.nets : s \in Sites(r)}
BySites(t, q) ==
    {id \in DOMAIN t : /\ ~HasIpFilters(t[id]) /\ \E n \in SiteNets(t[id]) : InNet(n, q.ip)
                       /\ MatchesPort(t[id], q) /\ MatchesExtra(t[id], q)}

\* Rules with a keyword in the domain that the automaton does not report: it begins within
\* another that it does
Missed(t, d) == {o.id : o \in Occurrences(t, d)} \ KeywordIds(t, d)

\* Resolving late changes nothing, but for lists of sites that name networks and keywords that
\* overlap.  When route_decision decides for a domain without its address, then whatever the
\* address is: route_matched decides alike, unless a rule of such a list comes first, whose
\* networks has_ip_filters (router/mod.rs:52) does not count; the rule that decides matches as
\* the documentation has it; and one before it that matches as well is of such a list, or its
\* keyword was missed.
LateResolutionAgrees ==
    \A q \in Request, ip \in Addr :
        LET d == Decision(rules, q)
            full == [q EXCEPT !.ip = ip]
            passed == {id \in DOMAIN rules : d.id = 0 \/ id < d.id}
        IN  q.domain # <<>> /\ q.ip = NoAddr /\ ~d.needIp =>
            /\ RouteMatched(rules, full) = Smallest(({d.id} \ {0}) \cup BySites(rules, full))
            /\ d.id # 0 => RuleMatches(rules[d.id], full)
            /\ \A id \in passed : RuleMatches(rules[id], full) =>
                                    id \in BySites(rules, full) \cup Missed(rules, q.domain)

\* The comment on direct_v4_cidrs: what the kernel forwards directly would have been
\* routed directly, for every connection to an address of the set.
KernelDirectAgrees ==
    \A n \in DirectV4Cidrs(rules), q \in Request :
        q.domain = <<>> /\ q.ip # NoAddr /\ InNet(n, q.ip)
            => OutOf(rules, RouteMatched(rules, q)) = "direct"

=============================================================================
