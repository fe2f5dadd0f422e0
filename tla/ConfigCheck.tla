---------------------------- MODULE ConfigCheck -----------------------------
(***************************************************************************)
(* What a configuration says, and what `mirage check` makes of it before   *)
(* a restart (src/src/config.rs, run_check of src/src/bin/mirage.rs).      *)
(*                                                                         *)
(* A configuration is a record: its outbounds and inbounds in order, the   *)
(* default, rules, profiles, the devices that profiles are for, settings   *)
(* whose value is bad, and whether there is a key that nobody knows.  Of   *)
(* the fields of an entry that take part in nothing else, bad has those    *)
(* whose value is no good, under the names that the source gives them; a   *)
(* filter is the set of tags that it matches.                              *)
(***************************************************************************)
EXTENDS Naturals, Sequences, FiniteSets, SequencesExt, FiniteSetsExt

NoName == ""
NoUpstream == [kind |-> NoName, bad |-> {}]
NoConsole == [host |-> NoName, port |-> 0]

UpstreamConfig(kind) == [kind |-> kind, bad |-> {}]
MirageUser(name, password) == [name |-> name, password |-> password, limits |-> 0, bad |-> {}]
OutboundConfig(tag, kind) ==
  [tag |-> tag, kind |-> kind, members |-> {}, filter |-> {}, under |-> NoName, bad |-> {}]
InboundConfig(tag, kind, port) ==
  [tag |-> tag, kind |-> kind, host |-> "any", port |-> port, password |-> "pw", users |-> <<>>,
   up |-> NoUpstream, quic |-> FALSE, hijack |-> FALSE, nic |-> NoName, shape |-> 0, bad |-> {}]
RuleConfig(tag) == [outbound |-> tag, inbound |-> {}, bad |-> {}]
DeviceProfile(profile) == [profile |-> profile, bad |-> {}]
Config(outs, ins) ==
  [outs |-> outs, ins |-> ins, default |-> NoName, rules |-> <<>>, profiles |-> [p \in {} |-> <<>>],
   devices |-> <<>>, faults |-> {}, unknown |-> FALSE, console |-> NoConsole, fakeip |-> "off",
   ebpf |-> "auto", tuning |-> 0, geo |-> 0]

-----------------------------------------------------------------------------
(* Its parts.                                                              *)

GroupType == {"urltest", "fallback", "selector", "load_balance"}
ProxyType == {"mirage", "wireguard", "shadowsocks"}
ServerType == {"direct", "block", "shadowsocks", "wireguard"}

OutTags(c) == {o.tag : o \in ToSet(c.outs)}
InTags(c) == {i.tag : i \in ToSet(c.ins)}
OfKind(entries, kinds) == {e \in ToSet(entries) : e.kind \in kinds}

\* resolve_default_outbound: the default that is written, or the first outbound.
DefaultOutbound(c) ==
  IF c.default # NoName THEN c.default ELSE IF c.outs = <<>> THEN "direct" ELSE c.outs[1].tag

\* group_members: those that are listed, and the proxies that the filter matches.
GroupMembers(c, g) ==
  g.members \cup
  {t \in {o.tag : o \in OfKind(c.outs, ProxyType)} : t \in g.filter /\ t # g.tag}

\* What an outbound is built upon.
Needs(c, o) ==
  IF o.kind \in GroupType
  THEN IF "filter" \in o.bad THEN o.members ELSE GroupMembers(c, o)
  ELSE {o.under} \ {NoName}

ServerInbounds(c) == OfKind(c.ins, {"mirage_server"})
PureServer(c) == InTags(c) # {} /\ ToSet(c.ins) = ServerInbounds(c)

\* bound_protocols
Protocols(i) ==
  CASE i.kind = "dns" -> {"udp"}
    [] i.kind = "transparent" -> {"tcp", "udp"}
    [] i.kind = "mirage_server" /\ i.quic -> {"udp"}
    [] OTHER -> {"tcp"}

\* Positions of entries that repeat an earlier one.
Repeats(entries, same(_, _)) ==
  {j \in DOMAIN entries : \E i \in 1 .. j - 1 : same(entries[i], entries[j])}

-----------------------------------------------------------------------------
(* Issues (semantic_issues): each is what is wrong, and with what.         *)

TagIssues(c) ==
  {<<"outbound twice", c.outs[j].tag>> :
     j \in Repeats(c.outs, LAMBDA a, b : a.tag = b.tag)}

Wireguard == {"dns", "private_key", "peer_public_key", "preshared_key", "address", "endpoint",
              "mtu"}
MirageField == {"server", "server_port", "password", "pool_size", "quic_pin", "quic_window_mb"}
ShadowsocksField == {"server", "server_port", "password", "method", "psk", "udp"}
CheckedField == [mirage |-> MirageField, shadowsocks |-> ShadowsocksField,
                 wireguard |-> Wireguard,
                 urltest |-> {"filter"}, fallback |-> {"filter"}, selector |-> {"filter"},
                 load_balance |-> {"filter", "strategy"}, direct |-> {}, block |-> {}]
FieldIssues(c) ==
  UNION {{<<f, o.tag>> : f \in o.bad \cap CheckedField[o.kind]} : o \in ToSet(c.outs)}

DefaultIssues(c) == {<<"default", t>> : t \in {DefaultOutbound(c)} \ OutTags(c)}

\* A server alone can only use outbounds of some kinds.
ServerIssues(c) ==
  IF ~ PureServer(c) THEN {}
  ELSE {<<"no use to a server", t>> :
          t \in ({DefaultOutbound(c)} \cup {r.outbound : r \in ToSet(c.rules)})
                \cap (OutTags(c) \ {o.tag : o \in OfKind(c.outs, ServerType)})}

NetField == {"ip_cidr", "source_ip_cidr"}
NetIssues(c) == UNION {{<<f, r.outbound>> : f \in r.bad \cap NetField} : r \in ToSet(c.rules)}

\* A rule names outbounds and inbounds that are there, or the name of hijacked queries.
RuleIssues(c) ==
  LET known == InTags(c) \cup {"dns-hijack" : i \in {x \in ToSet(c.ins) : x.hijack}}
  IN {<<"rule", r.outbound>> : r \in {x \in ToSet(c.rules) : x.outbound \notin OutTags(c)}}
     \cup UNION {{<<"rule's inbound", t>> : t \in r.inbound \ known} : r \in ToSet(c.rules)}

ProfileRules(c) == UNION {ToSet(c.profiles[p]) : p \in DOMAIN c.profiles}
ProfileIssues(c) ==
  {<<"profile", r.outbound>> : r \in {x \in ProfileRules(c) : x.outbound \notin OutTags(c)}}
  \cup {<<"device", d.profile>> :
           d \in {x \in ToSet(c.devices) : x.profile \notin DOMAIN c.profiles}}

GroupIssues(c) ==
  LET groups == {g \in OfKind(c.outs, GroupType) : "filter" \notin g.bad}
  IN {<<"no members", g.tag>> : g \in {x \in groups : GroupMembers(c, x) = {}}}
     \cup UNION {{<<"member", m>> : m \in GroupMembers(c, g) \cap ({g.tag} \cup
                    (GroupMembers(c, g) \ OutTags(c)))} : g \in groups}

UnderIssues(c) ==
  {<<"underlying", o.tag>> :
     o \in {x \in ToSet(c.outs) : x.under \notin {NoName} \cup (OutTags(c) \ {x.tag})}}

\* Mutant of CircleIssues: members are not followed.
ChainIssues(c) ==
  LET to(t) == {o.under : o \in {x \in ToSet(c.outs) : x.tag = t}}
  IN {<<"circle", S>> : S \in {U \in (SUBSET OutTags(c)) \ {{}} :
                                  \A t \in U : to(t) \cap (U \ {t}) # {}}}

\* Outbounds lead to what they are built upon; a circle is a set whose members all lead into it.
CircleIssues(c) ==
  LET valid == {o \in ToSet(c.outs) : ~ (o.kind \in GroupType /\ "filter" \in o.bad)}
      to(t) == UNION {Needs(c, o) : o \in {x \in valid : x.tag = t}}
  IN {<<"circle", S>> : S \in {U \in (SUBSET OutTags(c)) \ {{}} :
                                  \A t \in U : to(t) \cap (U \ {t}) # {}}}

\* Two inbounds that listen at the very same address.
Collides(i, j) ==
  i.host = j.host /\ i.port = j.port /\ i.port # 0 /\ Protocols(i) \cap Protocols(j) # {}
BindIssues(c) ==
  {<<"inbound twice", c.ins[j].tag>> : j \in Repeats(c.ins, LAMBDA a, b : a.tag = b.tag)}
  \cup {<<"address", c.ins[j].tag>> : j \in Repeats(c.ins, Collides)}
  \cup {<<"port", i.tag>> : i \in {x \in ToSet(c.ins) : x.port = 0}}

UpstreamField == [shadowsocks |-> CheckedField.shadowsocks, wireguard |-> Wireguard]
UpstreamIssues(i) ==
  IF i.up = NoUpstream THEN {}
  ELSE {<<f, i.tag>> : f \in i.up.bad \cap UpstreamField[i.up.kind]}
       \cup (IF i.quic THEN {<<"quic upstream", i.tag>>} ELSE {})

ServerInboundIssues(i) ==
  UpstreamIssues(i) \cup {<<f, i.tag>> : f \in i.bad \cap {"auth_ts_tolerance_secs"}}
  \cup UNION {{<<f, u.name>> : f \in u.bad} : u \in ToSet(i.users)}

InboundIssues(c) ==
  (UNION {{<<f, i.tag>> : f \in i.bad \cap {"method", "password"}} :
            i \in OfKind(c.ins, {"shadowsocks"})})
  \cup UNION {ServerInboundIssues(i) : i \in ServerInbounds(c)}

\* user_hard_errors: no two users of an inbound have one name or one password; its own
\* password is that of the user default.
UserIssues(c) ==
  LET all(i) == <<MirageUser("default", i.password)>> \o i.users
      wrong(i) == {<<"user", all(i)[j].name>> : j \in
                     Repeats(all(i), LAMBDA u, v : u.name = v.name \/ u.password = v.password)}
                  \cup {<<"empty", u.name>> :
                           u \in {x \in ToSet(all(i)) : NoName \in {x.name, x.password}}}
  IN UNION {wrong(i) : i \in ServerInbounds(c)}

\* A user of several inbounds has the same limits at each.
LimitIssues(c) ==
  LET users == UNION {ToSet(i.users) : i \in ServerInbounds(c)}
      twin(u) == {v \in users : v.name = u.name}
  IN {<<"limits", u.name>> : u \in {x \in users : \E y \in twin(x) : x.limits # y.limits}}

\* The resolvers for direct names, the settings of connections, of data files, and of the guard.
CheckedSetting == {"resolver", "max_connections", "geo_sources", "preconnect_mult",
                   "preconnect_ms", "judge_silence_ms", "hard_deadline_ms", "auth_succ"}
SettingIssues(c) == {<<"setting", s>> : s \in c.faults \cap CheckedSetting}

SemanticIssues(c) ==
  UNION {UserIssues(c), TagIssues(c), FieldIssues(c), DefaultIssues(c), ServerIssues(c),
         NetIssues(c), RuleIssues(c), ProfileIssues(c), GroupIssues(c), UnderIssues(c),
         CircleIssues(c), BindIssues(c), InboundIssues(c), LimitIssues(c), SettingIssues(c)}

\* parse_with_diagnostics and run_check: nothing that is unknown, and no issue.
CheckPasses(c) == ~ c.unknown /\ SemanticIssues(c) = {}

=============================================================================
