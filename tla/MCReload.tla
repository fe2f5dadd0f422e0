------------------------------ MODULE MCReload ------------------------------
(* Bounded instance of what a process refreshes while it runs: the rules   *)
(* (Routing), the server's outlets (ServerRouter), the watcher of the file *)
(* (ConfigWatch), the updater of the rules' data (GeoUpdate), those who    *)
(* edit the file (ConfigEdit), and the site a server looks like            *)
(* (CamouflageSite).  They are checked side by side: a behaviour moves the *)
(* one that focus names.                                                   *)
EXTENDS ConfigWatch, ServerRouter, GeoUpdate, ConfigEdit, CamouflageSite

VARIABLE focus

-----------------------------------------------------------------------------
(* Rules: every combination of mode and dimensions, before one of a few.   *)

D1 == <<"a", ".", "c">>
D2 == <<"a", "b", ".", "c">>
MCDomain == {D1, D2, <<"d">>}
Rule(mode, out, suffix, keyword, sites, nets, geoips, ports, inbound) ==
    [mode |-> mode, out |-> out, suffix |-> suffix, keyword |-> keyword, sites |-> sites,
     nets |-> nets, geoips |-> geoips, ports |-> ports, inbound |-> inbound]

MCSiteFile == <<[code |-> "S", full |-> {D1}, suffix |-> {}, keyword |-> {<<"b">>}, nets |-> {}],
                [code |-> "S", full |-> {D2}, suffix |-> {}, keyword |-> {}, nets |-> {}],
                [code |-> "N", full |-> {D1}, suffix |-> {}, keyword |-> {}, nets |-> {<<0, 1>>}]>>
MCIpFile == <<[code |-> "C", nets |-> {<<0, 1>>}], [code |-> "E", nets |-> {<<0, 2>>}]>>

Special == {Rule("or", "direct", {}, {}, {}, {}, {}, {80}, {}),
            Rule("and", "direct", {D2}, {}, {}, {}, {}, {}, {"in1"})}
MCRules ==
    {Rule(m, "proxy", s, {}, g, n, i, {}, {}) :
        m \in {"or", "and"}, s \in {{}, {<<"c">>}}, g \in {{}, {"S"}, {"N"}},
        n \in {{}, {<<2, 1>>}}, i \in {{}, {"C"}}}
    \cup Special
Second == Special \cup {Rule("or", "proxy", {<<"c">>}, {}, {}, {}, {}, {}, {}),
                        Rule("and", "proxy", {<<"c">>}, {}, {}, {}, {"E"}, {}, {})}
\* Two rules, of which the second is met where the first is not, and keywords that overlap
Keyword(k, mode, nets) == Rule(mode, "proxy", {}, {k}, {}, nets, {}, {}, {})
MCTables == {<<r, s>> : r \in MCRules, s \in Second}
            \cup {<<Keyword(<<"a", "b">>, m, n), Keyword(<<"a">>, "or", {}), s>> :
                     m \in {"or", "and"}, n \in {{}, {<<2, 1>>}}, s \in Special}
            \cup {<<>>}

-----------------------------------------------------------------------------
(* The watcher: two good contents that cover the same addresses by         *)
(* different networks, and one that is refused.                            *)

Nets(out, nets) == Rule("or", out, {}, {}, {}, nets, {}, {}, {})
MCContent == {"one", "two", "foreign"}
MCTableOf == [c \in MCContent |->
    CASE c = "one" -> <<Nets("direct", {<<0, 1>>, <<2, 1>>}), Nets("proxy", {<<3, 2>>})>>
      [] c = "two" -> <<Nets("direct", {<<0, 2>>, <<1, 2>>, <<2, 2>>})>>
      [] OTHER -> <<>>]

-----------------------------------------------------------------------------
(* The server.                                                             *)

Entry(key, kind, params, udp, wanted) ==
    [key |-> key, kind |-> kind, params |-> params, udp |-> udp, wanted |-> wanted]
Conf(entries, mixed, refs, default, ruled) ==
    [entries |-> entries, mixed |-> mixed, refs |-> refs, default |-> default, ruled |-> ruled]
PlainEntry == Entry("direct", "direct", "", "", TRUE)
MCFirstConf == Conf(<<PlainEntry>>, FALSE, {}, "direct", FALSE)
MCServerConfs ==
    {Conf(<<Entry("in1", "wg", "w1", "block", TRUE),
            Entry("out", "wg", "w1", "tunnel", TRUE)>>, FALSE, {"out"}, "out", TRUE),
     Conf(<<Entry("wg", "wg", "w1", "direct", TRUE), Entry("ss", "ss", "s1", "block", TRUE)>>,
          FALSE, {"ss"}, "wg", TRUE),
     Conf(<<Entry("wg", "wg", "w2", "block", TRUE), Entry("other", "wg", "w1", "block", FALSE),
            PlainEntry>>, TRUE, {"wg"}, "other", TRUE),
     Conf(<<Entry("m", "mirage", "", "", TRUE)>>, FALSE, {"m"}, "m", TRUE),
     Conf(<<Entry("wg", "wg", "w1", "block", TRUE)>>, FALSE, {"gone"}, "wg", TRUE)}

-----------------------------------------------------------------------------
(* The file's editors: groups with lists and filters, a chained node, and  *)
(* fragments of the same.                                                  *)

Named(name) == <<name, 1>>
MCNewTag == {Named("n"), Named("auto")}
MCLists == {<<"A", "B", "B">>}
MCGroupChoices == {{"selector", "urltest"}, {"fallback"}}
File(outs, default, used, profiles) ==
    [outs |-> outs, default |-> default, rules |-> used, profiles |-> profiles]
Chained(tag, host, under) == [Node(tag, host) EXCEPT !.under = under]
Filtered(tag, kind, filter) ==
    [Group(tag, kind, {}) EXCEPT !.listed = FALSE, !.filter = filter]
MCFirstFiles ==
    {File(<<Node(Named("a"), "A"), Plain(Named("d"))>>, NoTag, {Named("d")}, {}),
     File(<<Group(Named("auto"), "urltest", {Named("a")}), Node(Named("a"), "A"),
            Chained(Named("b"), "B", Named("auto"))>>, Named("a"), {}, {Named("b")}),
     File(<<Group(Named("s"), "selector", {Named("f"), Named("a")}),
            Filtered(Named("f"), "fallback", {Named("a"), Named("n")}),
            Node(Named("a"), "A"), Plain(Named("d"))>>,
          Named("s"), {Named("d")}, {Named("d")})}
MCExported ==
    {File(<<Group(Named("s"), "selector", {Named("auto"), Named("d")}),
            Group(Named("auto"), "urltest", {Named("a")}), Node(Named("a"), "C"),
            [Plain(Named("d")) EXCEPT !.kind = "block"]>>,
          Named("s"), {Named("d"), Named("auto")}, {}),
     File(<<Filtered(Named("f"), "fallback", {Named("a"), Named("b")}), Node(Named("a"), "A"),
            Chained(Named("b"), "D", Named("a"))>>, NoTag, {Named("f")}, {})}
AnyFile == CHOOSE f \in FirstFiles : TRUE

-----------------------------------------------------------------------------
(* Sites that send all at once, are cut before the last record, repeat     *)
(* themselves, have a share that cannot be made again, or refuse.          *)

Site(records, ends, next, share) ==
    [records |-> records, ends |-> ends, next |-> next, share |-> share]
MCStream ==
    {Site(<<"hello", "ccs", "data", "data">>, "open", "none", "x25519"),
     Site(<<"hello", "ccs">>, "closed", "data", "p256"),
     Site(<<"hello", "hello", "hello">>, "open", "none", "x25519"),
     Site(<<"hello", "ccs">>, "open", "data", "x25519"),
     Site(<<"hello", "ccs", "data">>, "open", "none", "mlkem"),
     Site(<<"alert">>, "closed", "none", "none")}

-----------------------------------------------------------------------------
configFileVars == <<routingVars, serverRouterVars, configVars, geoVars, configEditVars>>

ReloadInit ==
    /\ focus \in {"rules", "server", "watcher", "geo", "edit", "templates", "timing"}
    /\ RoutingInit /\ (focus # "rules" => rules = <<>>)
    /\ ServerRouterInit
    /\ ConfigInit /\ (focus # "watcher" => disk.dir = "conf")
    /\ GeoInit /\ (focus # "geo" => want = NoSource)
    /\ ConfigEditInit /\ (focus # "edit" => configFile = AnyFile)
    /\ TemplatesInit /\ TimingInit /\ (focus # "timing" => siteUp)

ConfigFileNext ==
    \/ /\ focus = "rules" /\ RoutingNext
       /\ UNCHANGED <<serverRouterVars, configVars, geoVars, configEditVars>>
    \/ /\ focus = "server" /\ ServerRouterNext
       /\ UNCHANGED <<routingVars, configVars, geoVars, configEditVars>>
    \/ /\ focus = "watcher" /\ ConfigNext
       /\ UNCHANGED <<routingVars, serverRouterVars, geoVars, configEditVars>>
    \/ /\ focus = "geo" /\ GeoNext
       /\ UNCHANGED <<routingVars, serverRouterVars, configVars, configEditVars>>
    \/ /\ focus = "edit" /\ ConfigEditNext
       /\ UNCHANGED <<routingVars, serverRouterVars, configVars, geoVars>>
SiteNext ==
    \/ focus = "templates" /\ TemplatesNext /\ UNCHANGED timingVars
    \/ focus = "timing" /\ TimingNext /\ UNCHANGED templateVars

ReloadNext ==
    /\ UNCHANGED focus
    /\ \/ ConfigFileNext /\ UNCHANGED siteVars
       \/ SiteNext /\ UNCHANGED configFileVars

reloadVars == <<focus, configFileVars, siteVars>>
Watching(action) ==
    focus = "watcher" /\ action
    /\ UNCHANGED <<focus, routingVars, serverRouterVars, geoVars, configEditVars, siteVars>>
Updating(action) ==
    focus = "geo" /\ action
    /\ UNCHANGED <<focus, routingVars, serverRouterVars, configVars, configEditVars, siteVars>>
Serving(w) ==
    focus = "templates" /\ Serves(w) /\ UNCHANGED <<focus, configFileVars, timingVars>>

ReloadSpec == /\ ReloadInit /\ [][ReloadNext]_reloadVars
              /\ WF_reloadVars(Watching(WatcherNext))
              /\ WF_reloadVars(Watching(StartKernel))
              /\ WF_reloadVars(Updating(GeoTask))
              /\ \A w \in Hello \cup Starter : WF_reloadVars(Serving(w))
=============================================================================
