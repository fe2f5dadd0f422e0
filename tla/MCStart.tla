------------------------------ MODULE MCStart -------------------------------
(* Bounded instance of what a process starts with: what it makes of its    *)
(* configuration (Startup), what it was told to be started again for       *)
(* (ApplyPlan), the tunnels that the pools of its outbounds keep ready     *)
(* (WarmPool), and what a user of a server may use in a month (UserQuota). *)
(* They are checked side by side: a behaviour moves the one that focus     *)
(* names.                                                                  *)
EXTENDS WarmPool, ApplyPlan, UserQuota, TLC

VARIABLE focus

-----------------------------------------------------------------------------
(* In a network that never changes the pool's watcher waits, and does not  *)
(* come in anybody's way.                                                  *)

QuietNetwork == UNCHANGED wpc

-----------------------------------------------------------------------------
(* Configurations to start with: outbounds that lead to each other, with   *)
(* rules of which some are bad; and two inbounds of the kinds that there   *)
(* are, at addresses that meet or do not, with the server's outlets.       *)

Outbound(tag, kind, members, under) ==
    [OutboundConfig(tag, kind) EXCEPT !.members = members, !.under = under]
OneProxy == Outbound("a", "mirage", {}, NoName)
MCOutbounds ==
    {OneProxy, Outbound("a", "mirage", {}, "g"), Outbound("b", "shadowsocks", {}, "a"),
     Outbound("g", "urltest", {"a", "b"}, NoName), Outbound("g", "fallback", {"a"}, NoName),
     Outbound("direct", "selector", {"a"}, NoName),
     Outbound("b", "selector", {"direct", "a"}, NoName),
     [Outbound("g", "selector", {}, NoName) EXCEPT !.filter = {"a", "b"}],
     [Outbound("g", "selector", {"a"}, NoName) EXCEPT !.bad = {"filter"}],
     [Outbound("b", "wireguard", {}, NoName) EXCEPT !.bad = {"private_key"}],
     [Outbound("b", "shadowsocks", {}, NoName) EXCEPT !.bad = {"method"}]}
Listens(kind, host, port) == [InboundConfig(kind, kind, port) EXCEPT !.host = host]
ServesWith(outlet) == [Listens("mirage_server", "any", 1) EXCEPT !.up = outlet]
MCInbounds ==
    {Listens("socks", "lo", 1), Listens("mixed", "any", 1), Listens("dns", "any", 1),
     Listens("dns", "name", 2), ServesWith(NoUpstream), ServesWith(UpstreamConfig("wireguard")),
     ServesWith([UpstreamConfig("shadowsocks") EXCEPT !.bad = {"psk"}]),
     [ServesWith(NoUpstream) EXCEPT !.tag = "quic", !.quic = TRUE],
     [Listens("transparent", "lo", 2) EXCEPT !.nic = "lan", !.hijack = TRUE],
     [Listens("transparent", "lo", 3) EXCEPT !.tag = "other", !.nic = "wan"],
     [Listens("shadowsocks", "lo", 2) EXCEPT !.bad = {"method"}]}
BadRule(tag, bad) == [RuleConfig(tag) EXCEPT !.bad = bad]
ForServer(tag) == [RuleConfig(tag) EXCEPT !.inbound = {"mirage_server"}]
MCRuleLists == {<<>>, <<RuleConfig("b")>>, <<BadRule("a", {"ip_cidr"})>>,
                <<BadRule("a", {"domain_regex"})>>}
Server == {i \in MCInbounds : i.kind = "mirage_server"}
MCDirect == <<Outbound("d", "direct", {}, NoName)>>
MCPlain == Append(MCDirect, OneProxy)
MCTunnel == <<OneProxy, Outbound("w", "wireguard", {}, NoName)>>
MCStartFiles ==
    {[Config(first \o <<x, y>>, <<Listens("socks", "lo", 1)>>) EXCEPT !.default = "a"] :
        first \in {<<>>, <<OneProxy>>}, x, y \in MCOutbounds}
    \cup {[Config(<<OneProxy, x>>, <<Listens("socks", "lo", 1)>>) EXCEPT !.rules = r] :
             x \in MCOutbounds, r \in MCRuleLists}
    \cup {[Config(MCPlain, <<x, y>>) EXCEPT !.fakeip = "on"] : x, y \in MCInbounds}
    \cup {[Config(outs, <<x, y>>) EXCEPT !.rules = <<ForServer("a")>>] :
             outs \in {MCPlain, MCTunnel}, x \in Server, y \in MCInbounds}
    \cup {[Config(<<OneProxy>>, <<x>>) EXCEPT !.console = [host |-> "lo", port |-> 1]] :
             x \in MCInbounds}
MCEditedFiles == {Config(<<OneProxy>>, <<ServesWith(UpstreamConfig("shadowsocks"))>>)}

-----------------------------------------------------------------------------
(* Configurations that are edited: a client's, a server's, and one of      *)
(* both; and what other programs write.                                    *)

MCClientFile ==
    [Config(<<OneProxy>> \o MCDirect, <<Listens("socks", "lo", 1)>>)
       EXCEPT !.default = "a", !.rules = <<RuleConfig("d")>>]
MCServerFile == Config(MCPlain, <<ServesWith(NoUpstream)>>)
MCBothFile ==
    [Config(MCTunnel \o MCDirect, <<ServesWith(NoUpstream), Listens("socks", "lo", 3)>>)
       EXCEPT !.rules = <<ForServer("w")>>]
MCPlainFile == Config(MCDirect, <<>>)
MCPlanFiles == {MCPlainFile, MCClientFile, MCServerFile, MCBothFile}
MCOtherFiles ==
    {[MCClientFile EXCEPT !.outs = Append(@, Outbound("b", "mirage", {}, NoName)),
                          !.default = "b"],
     [MCServerFile EXCEPT !.ins[1].port = 2]}
MCMenuUser == {MirageUser("u", "pw2"), MirageUser("v", "pw")}

-----------------------------------------------------------------------------
(* One user's quota.  The connections of the user are alike.                *)

UserSymmetry == Permutations(UserConn)

\* Reloads, resets, flushes and the timer's rollovers come one after the other, among
\* connections that do what they want, rollovers included.
Busy == {j \in {reload, reset, flush} : j.pc # "idle"} \cup {t \in {Timer} : upc[t] # "off"}
OneJob == Cardinality(Busy') <= 1

\* The timer's visits in the middle of a period, which do nothing, are left out.
TimerRolls ==
  upc[Timer] = "off" /\ upc'[Timer] = "read" => local'[Timer].expected > handles[registered].start

\* An edit changes one of the user's limits, or removes or adds the user, or leaves the user
\* alone in what by the clock is another period than the handle's.
Changed == {f \in DOMAIN config : config[f] # config'[f]}
OneEdit ==
  /\ Cardinality(Changed) <= 1
  /\ Changed = {} /\ reload.pc = "idle" /\ reload'.pc # "idle"
       => registered # 0 /\ Expected(config) # handles[registered].start

\* Two events may come while both connections are at work, the last of three while one is.
AtWork == {c \in UserConn : upc[c] # "off"}
LastEvent == happened' = MaxQuotaEvents => Cardinality(AtWork') <= 1

\* A behaviour starts with a configuration whose next period begins on day 1.
EarlyPeriod == happened = 0 => config.reset_day = 1
SomeLimits == CHOOSE c \in Limits : c.present /\ c.quota # 0 /\ c.reset_day = 1

-----------------------------------------------------------------------------
MCInit ==
    /\ focus \in {"pool", "start", "plan", "quota"}
    /\ Init
    /\ StartInit /\ (focus # "start" => startFile = NoFile)
    /\ PlanInit /\ (focus # "plan" => planFile = MCPlainFile)
    /\ QuotaInit /\ (focus # "quota" => config = SomeLimits)

MCNext ==
    /\ UNCHANGED focus
    /\ \/ focus = "pool" /\ Next /\ UNCHANGED <<startVars, planVars, quotaVars>>
       \/ focus = "start" /\ StartNext /\ UNCHANGED <<vars, planVars, quotaVars>>
       \/ focus = "plan" /\ PlanNext /\ UNCHANGED <<vars, startVars, quotaVars>>
       \/ focus = "quota" /\ QuotaNext /\ UNCHANGED <<vars, startVars, planVars>>

OneUser == focus = "quota" => OneJob /\ TimerRolls /\ OneEdit /\ LastEvent

\* What does not move needs no look at it: states are told apart by the part that focus names.
Moved ==
    CASE focus = "pool" -> <<focus, vars>> [] focus = "start" -> <<focus, startVars>>
      [] focus = "plan" -> <<focus, planVars>> [] focus = "quota" -> <<focus, quotaVars>>

MCSpec == MCInit /\ [][MCNext]_<<focus, vars, startVars, planVars, quotaVars>>
=============================================================================
