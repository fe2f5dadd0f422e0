------------------------------ MODULE Startup -------------------------------
(***************************************************************************)
(* How the process starts and stops (start_proxy of src/src/lib.rs,        *)
(* src/src/startup.rs): it reads the file again at every step - for the    *)
(* log, for the settings, for the template of its ClientHello, for         *)
(* outbounds and rules (ConfigWatcher::build_state,                        *)
(* OutboundManager::new), and for the inbounds - and the inbounds that it  *)
(* starts then listen as tasks of their own.                               *)
(*                                                                         *)
(* A node is known by the position of its outbound, the implicit direct    *)
(* and block by the two positions that follow.                             *)
(***************************************************************************)
EXTENDS ConfigCheck

CONSTANTS
  StartFiles,     \* configurations that the file may have
  EditedFiles,    \* those that are put there while the process starts
  MaxStartEdits   \* bound: such edits

\* Upstreams are the server's: inbounds of other kinds have no such field.
ASSUME StartFilesAssumption ==
  \A c \in StartFiles \cup EditedFiles :
    /\ DOMAIN c.ins = 1 .. Len(c.ins)
    /\ \A n \in DOMAIN c.ins : c.ins[n].kind # "mirage_server" => c.ins[n].up = NoUpstream

NoFile == [form |-> "missing", conf |-> Config(<<>>, <<>>)]
Torn == [form |-> "torn", conf |-> Config(<<>>, <<>>)]
Whole(c) == [form |-> "whole", conf |-> c]
NoCore == [nodes |-> <<>>, rules |-> {}, upstreams |-> {}]

VARIABLES
  startFile,    \* the file at the path of the configuration
  gated,        \* whether `mirage check` passed before the process was started
  startEdits,   \* bounds the edits
  startPhase,   \* the step that comes next
  readBy,       \* the file as each step has read it
  core,         \* outbounds, rules and upstreams that were built
  engines,      \* kernel programs that could be loaded
  opened,       \* what became of each inbound, and of the console (position 0)
  relayed,      \* inbounds of the server that have an upstream
  filters       \* interfaces with a filter, by inbound; the one that is remembered

startVars == <<startFile, gated, startEdits, startPhase, readBy, core, engines, opened, relayed,
               filters>>

-----------------------------------------------------------------------------
(* The client's outbounds (OutboundManager::new).                          *)

\* Leaves come first, and the two that are always there.
Leaves(c) ==
  LET leaf == {i \in DOMAIN c.outs : c.outs[i].kind \notin GroupType /\ c.outs[i].under = NoName}
      of(t) == {i \in leaf : c.outs[i].tag = t}
  IN [table |-> [t \in {c.outs[i].tag : i \in leaf} \cup {"direct", "block"} |->
                   IF of(t) # {} THEN Max(of(t))
                   ELSE IF t = "direct" THEN Len(c.outs) + 1 ELSE Len(c.outs) + 2],
      links |-> [i \in leaf |-> {}],
      left |-> SetToSortSeq(DOMAIN c.outs \ leaf, LAMBDA i, j : i < j)]

\* A group or a chained node is built when all that it needs is there, else left for a later round.
BuildNode(c, s, i) ==
  LET needs == Needs(c, c.outs[i])
      tag == c.outs[i].tag
  IN IF needs \subseteq DOMAIN s.table
     THEN [table |-> [t \in DOMAIN s.table \cup {tag} |-> IF t = tag THEN i ELSE s.table[t]],
           links |-> [k \in DOMAIN s.links \cup {i} |->
                        IF k = i THEN {s.table[t] : t \in needs} ELSE s.links[k]],
           left |-> s.left]
     ELSE [s EXCEPT !.left = Append(@, i)]
BuildRound(c, s) ==
  FoldLeft(LAMBDA a, i : BuildNode(c, a, i), [s EXCEPT !.left = <<>>], s.left)
Nodes(c) ==
  LET after[n \in 0 .. Len(c.outs)] ==
        IF n = 0 THEN Leaves(c) ELSE BuildRound(c, after[n - 1])
  IN after[Len(c.outs)]

\* What build_upstream refuses, and what makes a WireGuard outbound one that blocks.
Unusable(u) ==
  u.bad \cap (IF u.kind = "shadowsocks" THEN {"method", "psk"}
              ELSE Wireguard \ {"endpoint", "mtu"}) # {}
Downgraded(o) == o.kind = "wireguard" /\ Unusable(o)

-----------------------------------------------------------------------------
(* The server's (build_server_router_state).                               *)

MixedServer(c) == ServerInbounds(c) # {} /\ ~ PureServer(c)
ServerRules(c) ==
  {r \in ToSet(c.rules) :
     MixedServer(c) => r.inbound \cap {i.tag : i \in ServerInbounds(c)} # {}}
ServerRefs(c) ==
  {r.outbound : r \in ServerRules(c)} \cup (IF MixedServer(c) THEN {} ELSE {DefaultOutbound(c)})
Foreign(c) == (ServerRefs(c) \cap OutTags(c)) \ {o.tag : o \in OfKind(c.outs, ServerType)}
OldServer(c) == OfKind(c.outs, {"shadowsocks", "wireguard"}) = {}
ServerRouted(c) ==
  Foreign(c) = {} /\ ~ (ServerRules(c) = {} /\ ServerRefs(c) \subseteq {"direct"})
ServerUpstreams(c) ==
  {i.up : i \in {x \in ServerInbounds(c) : x.up # NoUpstream}} \cup
  {o \in OfKind(c.outs, {"shadowsocks", "wireguard"}) :
     MixedServer(c) => \E r \in ServerRules(c) : r.outbound = o.tag}
ServerRefuses(c) ==
  /\ ServerInbounds(c) # {}
  /\ \/ \E u \in ServerUpstreams(c) : Unusable(u)
     \/ ~ ServerRefs(c) \subseteq OutTags(c)
     \/ \E r \in ServerRules(c) : r.bad \cap NetField # {}
     \/ Foreign(c) # {} /\ ~ OldServer(c)
     \/ ServerRouted(c) /\ \E r \in ServerRules(c) : "domain_regex" \in r.bad

-----------------------------------------------------------------------------
(* The state that the watcher starts with (build_state).                   *)

\* Rules of the client: those of a device's profile before the others.
ClientRules(c) ==
  IF PureServer(c) THEN {}
  ELSE ToSet(c.rules) \cup
       UNION {ToSet(c.profiles[d.profile]) :
                d \in {x \in ToSet(c.devices) : x.profile \in DOMAIN c.profiles}}

BuildFails(c) ==
  \/ ServerRefuses(c)
  \/ \E o \in ToSet(c.outs) : o.kind = "shadowsocks" /\ "method" \in o.bad
  \/ Nodes(c).left # <<>>
  \/ \E r \in ClientRules(c) : "domain_regex" \in r.bad

-----------------------------------------------------------------------------
(* Steps, in this order.                                                   *)

\* Mutant of StepAfter: the file is only made sure of once it has been scanned.
ScanFirst == [logging |-> "scan", scan |-> "ensure", ensure |-> "template",
              template |-> "watcher", watcher |-> "engines", engines |-> "inbounds",
              inbounds |-> "open"]

StepAfter == [logging |-> "ensure", ensure |-> "scan", scan |-> "template", template |-> "watcher",
              watcher |-> "engines", engines |-> "inbounds", inbounds |-> "open"]
At(p) == startPhase = p
NextStep(p) == At(p) /\ startPhase' = StepAfter[p]
Aborts(p) == At(p) /\ startPhase' = "failed"
Read(step) ==
  readBy' = [s \in DOMAIN readBy \cup {step} |-> IF s = step THEN startFile ELSE readBy[s]]

\* The process is started, after a check that has passed or without one.
Launch(check) ==
  /\ At("off")
  /\ check => startFile.form = "whole" /\ CheckPasses(startFile.conf)
  /\ gated' = check /\ startPhase' = "logging"
  /\ UNCHANGED <<startFile, startEdits, readBy, core, engines, opened, relayed, filters>>

\* init_logging
InitLogging ==
  /\ NextStep("logging") /\ Read("log")
  /\ UNCHANGED <<startFile, gated, startEdits, core, engines, opened, relayed, filters>>

\* ensure_default_config: a missing file is written.
DefaultConfig ==
  Config(<<OutboundConfig("direct", "direct"), OutboundConfig("block", "block")>>,
         <<[InboundConfig("socks-in", "socks", 1080) EXCEPT !.host = "lo"]>>)
EnsureDefaultConfig ==
  /\ IF startFile.form # "missing"
     THEN NextStep("ensure") /\ UNCHANGED startFile
     ELSE \/ NextStep("ensure") /\ startFile' = Whole(DefaultConfig)
          \/ Aborts("ensure") /\ UNCHANGED startFile
  /\ UNCHANGED <<gated, startEdits, readBy, core, engines, opened, relayed, filters>>

\* scan_runtime_config: settings of the whole process.
ScanRuntimeConfig ==
  /\ NextStep("scan") /\ Read("settings")
  /\ UNCHANGED <<startFile, gated, startEdits, core, engines, opened, relayed, filters>>

\* load_tls_fingerprint_template
LoadTemplate ==
  /\ NextStep("template") /\ Read("template")
  /\ UNCHANGED <<startFile, gated, startEdits, core, engines, opened, relayed, filters>>

\* ConfigWatcher::new
NewWatcher ==
  /\ Read("core")
  /\ LET c == startFile.conf
     IN IF startFile.form # "whole" \/ BuildFails(c)
        THEN Aborts("watcher") /\ UNCHANGED core
        ELSE /\ NextStep("watcher")
             /\ core' = [nodes |-> Nodes(c), rules |-> ClientRules(c),
                         upstreams |-> {i.tag : i \in {x \in ServerInbounds(c) :
                                                        x.up # NoUpstream}}]
  /\ UNCHANGED <<startFile, gated, startEdits, engines, opened, relayed, filters>>

\* decide_enable_ebpf, init_engines: each may fail to load.
EbpfEnabled(mode, server) == mode = "force" \/ (mode = "auto" /\ ~ server)
InitEngines(server) ==
  /\ NextStep("engines")
  /\ \E loaded \in SUBSET {"divert", "transparent"} :
        /\ ~ EbpfEnabled(readBy.settings.conf.ebpf, server) => loaded = {}
        /\ engines' = loaded
  /\ UNCHANGED <<startFile, gated, startEdits, readBy, core, opened, relayed, filters>>

\* Inbounds of the server with the tag of an earlier one.
ServersAlike(ins) ==
  Repeats(ins, LAMBDA i, j : {i.kind, j.kind} = {"mirage_server"} /\ i.tag = j.tag)

\* start_proxy reads the inbounds: two of the server with one tag are an error, and a file that
\* is no longer a configuration has none.  The console is started, too.
ReadInbounds ==
  /\ Read("inbounds")
  /\ LET console == startFile.conf.console # NoConsole
     IN IF ServersAlike(startFile.conf.ins) # {}
        THEN Aborts("inbounds") /\ UNCHANGED opened
        ELSE NextStep("inbounds") /\ opened' = [n \in {0} |-> IF console THEN "started" ELSE "off"]
  /\ UNCHANGED <<startFile, gated, startEdits, core, engines, relayed, filters>>

Ins == readBy.inbounds.conf.ins
Mapper == readBy.inbounds.conf.fakeip = "on"

ServerTable == ServerInbounds(readBy.core.conf) # {}

\* What keeps an inbound from being started.
NotStarted(i) ==
  \/ i.kind = "shadowsocks" /\ "method" \in i.bad
  \/ i.kind = "dns" /\ i.host = "name"
  \/ i.kind = "transparent" /\ ~ ("transparent" \in engines /\ Mapper)
  \/ i.kind = "mirage_server" /\ ~ ServerTable /\ Unusable(i.up)

\* An inbound of the server has the upstream that the server's table has for its tag, or
\* its own when there is no such table.
Relays(i) ==
  /\ i.kind = "mirage_server"
  /\ IF ServerTable THEN i.tag \in core.upstreams ELSE i.up # NoUpstream

\* The filter of a transparent inbound's interface; the last one is remembered.
Filter(n) ==
  \/ UNCHANGED filters
  \/ /\ Ins[n].kind = "transparent" /\ Ins[n].nic # NoName /\ "divert" \in engines
     /\ filters' = [on |-> filters.on \cup {n}, last |-> n]

\* Inbounds are started one after the other.
StartInbound ==
  /\ At("open")
  /\ LET n == Cardinality(DOMAIN opened)
     IN /\ n <= Len(Ins)
        /\ opened' = [k \in DOMAIN opened \cup {n} |->
                        IF k < n THEN opened[k]
                        ELSE IF NotStarted(Ins[n]) THEN "off" ELSE "started"]
        /\ relayed' = IF Relays(Ins[n]) THEN relayed \cup {n} ELSE relayed
        /\ Filter(n)
  /\ UNCHANGED <<startFile, gated, startEdits, startPhase, readBy, core, engines>>

\* Tasks bind their addresses in any order.
Place(n) ==
  LET gui == readBy.inbounds.conf.console
  IN IF n = 0 THEN [host |-> gui.host, port |-> gui.port, on |-> {"tcp"}]
     ELSE [host |-> Ins[n].host, port |-> Ins[n].port, on |-> Protocols(Ins[n])]
Overlap(p, q) ==
  p.port = q.port /\ p.on \cap q.on # {} /\ (p.host = q.host \/ "any" \in {p.host, q.host})
Bind(n) ==
  /\ opened[n] = "started"
  /\ opened' = [opened EXCEPT ![n] =
       IF \E k \in DOMAIN opened : opened[k] = "listening" /\ Overlap(Place(k), Place(n))
       THEN "refused" ELSE "listening"]
  /\ UNCHANGED <<startFile, gated, startEdits, startPhase, readBy, core, engines, relayed, filters>>

\* A signal, once all have been started: the remembered filter is removed.
Shutdown ==
  /\ At("open") /\ Cardinality(DOMAIN opened) > Len(Ins)
  /\ startPhase' = "stopped"
  /\ filters' = [filters EXCEPT !.on = @ \ {filters.last}]
  /\ UNCHANGED <<startFile, gated, startEdits, readBy, core, engines, opened, relayed>>

\* Somebody writes the file while the process starts.
EditWhileStarting ==
  /\ startPhase \notin {"off", "open", "failed", "stopped"}
  /\ startEdits < MaxStartEdits /\ startEdits' = startEdits + 1
  /\ startFile' \in {Torn} \cup {Whole(c) : c \in EditedFiles}
  /\ UNCHANGED <<gated, startPhase, readBy, core, engines, opened, relayed, filters>>

StartInit ==
  /\ startFile \in {NoFile, Torn} \cup {Whole(c) : c \in StartFiles}
  /\ gated = FALSE /\ startEdits = 0 /\ startPhase = "off" /\ readBy = [s \in {} |-> startFile]
  /\ core = NoCore /\ engines = {} /\ opened = [n \in {} |-> "off"]
  /\ relayed = {} /\ filters = [on |-> {}, last |-> 0]

StartNext ==
  \/ \E check \in BOOLEAN : Launch(check)
  \/ InitLogging \/ EnsureDefaultConfig \/ ScanRuntimeConfig \/ LoadTemplate \/ NewWatcher
  \/ \E server \in BOOLEAN : InitEngines(server)
  \/ ReadInbounds \/ StartInbound \/ Shutdown \/ EditWhileStarting
  \/ \E n \in DOMAIN opened : Bind(n)

StartSpec == StartInit /\ [][StartNext]_startVars

-----------------------------------------------------------------------------
(* What is promised of it.  Exceptions that the code does make are named.  *)

\* What the check does not look at: the expressions of rules; in a configuration for both ends,
\* the kind of outbound that a rule for the server's inbounds names; networks in rules of
\* profiles; and two addresses of one port, where one stands for all, or is the console's.
UncheckedRule(c) ==
  \/ \E r \in ClientRules(c) \cup ServerRules(c) : "domain_regex" \in r.bad
  \/ ServerInbounds(c) # {} /\ MixedServer(c) /\ Foreign(c) # {}
UncheckedAddress(n, k) ==
  Overlap(Place(n), Place(k)) /\ (0 \in {n, k} \/ Place(n).host # Place(k).host)

\* An outbound is built upon those that it names.  One that names "direct" or "block" may be
\* built before a group of that name is, upon the outbound that is always there.
Linked(c, i) ==
  LET named == {k \in DOMAIN c.outs : c.outs[k].tag \in Needs(c, c.outs[i])}
  IN core.nodes.links[i] = named \/ Needs(c, c.outs[i]) \cap {"direct", "block"} # {}

\* Once `mirage check` has passed, as the gate before a restart (mirage.rs:229-230), the process
\* starts, no outbound is built upon another than it names, none is turned into one that blocks,
\* no rule loses a network, and every inbound listens.
CheckedStarts ==
  gated /\ startEdits = 0 =>
    LET c == startFile.conf
    IN /\ startPhase = "failed" => UncheckedRule(c)
       /\ core # NoCore =>
            /\ \A i \in DOMAIN c.outs : Linked(c, i) /\ ~ Downgraded(c.outs[i])
            /\ \A r \in core.rules \ ProfileRules(c) : r.bad \cap NetField = {}
       /\ \A n \in DOMAIN opened :
            /\ opened[n] = "refused" => \E k \in DOMAIN opened \ {n} : UncheckedAddress(n, k)
            /\ opened[n] = "off" => n = 0 \/ Ins[n].kind \in {"dns", "transparent"}

\* All steps go by one configuration when nobody edits the file, the one that is written where
\* there was none included (lib.rs:218-221); and an inbound of the server that has an
\* upstream is not one that goes out directly (lib.rs:61-62).
OneConfiguration ==
  startEdits = 0 =>
    /\ Cardinality({readBy[s] : s \in DOMAIN readBy \ {"log"}}) <= 1
    /\ \A n \in DOMAIN opened \ {0} :
         opened[n] # "off" => (n \in relayed <=> Ins[n].up # NoUpstream)

\* A process that has stopped leaves no filter on an interface (tc_divert.rs:89-94), unless
\* there was another after it: only the last is remembered.
FiltersRemoved == startPhase = "stopped" => \A n \in filters.on : n < filters.last

StartSound == CheckedStarts /\ OneConfiguration /\ FiltersRemoved

=============================================================================
