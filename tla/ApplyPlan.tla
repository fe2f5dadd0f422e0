----------------------------- MODULE ApplyPlan ------------------------------
(***************************************************************************)
(* What `mirage config` tells of the changes that it saves                 *)
(* (run_interactive_session and classify_changes of                        *)
(* src/src/bin/mirage/config_edit.rs): that they come into force by        *)
(* themselves, or that the service has to be restarted - and what the      *)
(* watcher of a running process then takes from the file (build_state and  *)
(* apply_user_config of src/src/config_watcher.rs).                        *)
(***************************************************************************)
EXTENDS Startup

CONSTANTS
  PlanFiles,      \* configurations that a service was started with
  OtherFiles,     \* those that other programs write
  MenuUser,       \* users that are added in the menu
  MenuPassword,   \* passwords that are given there, the empty one included
  MaxPlanEdits    \* bound: edits and writes

\* All that is in a configuration; upstreams are of two kinds.
IsConfig(c) ==
  /\ DOMAIN c = DOMAIN Config(<<>>, <<>>)
  /\ DOMAIN c.ins \subseteq Nat \ {0}
  /\ \A n \in DOMAIN c.ins :
       /\ DOMAIN c.ins[n] = DOMAIN InboundConfig(NoName, NoName, 0)
       /\ c.ins[n].up = NoUpstream \/ c.ins[n].up.kind \in {"shadowsocks", "wireguard"}

ASSUME PlanFilesAssumption == \A c \in PlanFiles \cup OtherFiles : IsConfig(c)

VARIABLES
  planFile,     \* the configuration in the file
  inForce,      \* what the running service goes by
  menu,         \* the session: the file as it was read, and as it has been edited
  planTold,     \* whether a restart was called for since the last one
  othersWrote,  \* whether the file has since been written by others, or over what they wrote
  unseen,       \* whether the watcher has yet to see the last write
  planEdits     \* bounds the edits and writes

planVars == <<planFile, inForce, menu, planTold, othersWrote, unseen, planEdits>>

-----------------------------------------------------------------------------
(* What is in force.                                                       *)

\* An inbound without what its users may change while it listens.
Lasting(i) == IF i.kind = "mirage_server" THEN [i EXCEPT !.password = NoName, !.users = <<>>] ELSE i
Credentials(c) ==
  {[tag |-> i.tag, password |-> i.password, users |-> i.users] : i \in ServerInbounds(c)}
Routes(c) ==
  [default |-> DefaultOutbound(c), rules |-> c.rules, profiles |-> c.profiles,
   devices |-> c.devices]
Settings(c) == [tuning |-> c.tuning, console |-> c.console, fakeip |-> c.fakeip, ebpf |-> c.ebpf]
InForce(c) ==
  [outs |-> c.outs, ins |-> {Lasting(i) : i \in ToSet(c.ins)}, settings |-> Settings(c),
   users |-> Credentials(c), routes |-> Routes(c), geo |-> c.geo]

\* What keeps the watcher from taking a configuration: outbounds remain those of the start, so
\* that rules may only name these.
ReloadRefused(now, c) ==
  \/ ServerRefuses(c)
  \/ \E r \in ClientRules(c) : "domain_regex" \in r.bad
  \/ /\ ~ PureServer(c)
     /\ ~ {DefaultOutbound(c)} \cup {r.outbound : r \in ClientRules(c)}
            \subseteq {o.tag : o \in ToSet(now.outs)} \cup {"direct", "block"}

\* apply_user_config: inbounds that listen get their users, unless two have one tag.
Served(now, c) ==
  IF \E i, j \in DOMAIN c.ins :
       i # j /\ {c.ins[i], c.ins[j]} \subseteq ServerInbounds(c) /\ c.ins[i].tag = c.ins[j].tag
  THEN now.users
  ELSE {k \in Credentials(c) : \E i \in now.ins : i.kind = "mirage_server" /\ i.tag = k.tag}

\* The sources of rules are taken from a configuration that is refused, too.
Reloaded(now, c) ==
  IF ReloadRefused(now, c) THEN [now EXCEPT !.geo = c.geo]
  ELSE [now EXCEPT !.users = Served(now, c), !.routes = Routes(c), !.geo = c.geo]

-----------------------------------------------------------------------------
(* classify_changes                                                        *)

FirstInbound(c, t) == c.ins[Min({n \in DOMAIN c.ins : c.ins[n].tag = t})]

\* Mutant of KeepsInbounds: the parameters of connections were thought to be reloaded.
KeepsListeners(old, new) ==
  /\ InTags(old) = InTags(new)
  /\ \A t \in InTags(old) :
       [Lasting(FirstInbound(old, t)) EXCEPT !.shape = 0]
         = [Lasting(FirstInbound(new, t)) EXCEPT !.shape = 0]

KeepsInbounds(old, new) ==
  /\ InTags(old) = InTags(new)
  /\ \A t \in InTags(old) : Lasting(FirstInbound(old, t)) = Lasting(FirstInbound(new, t))

Classify(old, new) ==
  IF old = new THEN "nothing"
  ELSE IF old.outs = new.outs /\ KeepsInbounds(old, new) /\ Settings(old) = Settings(new)
       THEN "reload" ELSE "restart"

-----------------------------------------------------------------------------
(* The menu.                                                               *)

NoMenu == [open |-> FALSE]

OpenMenu ==
  /\ ~ menu.open
  /\ menu' = [open |-> TRUE, saved |-> planFile, root |-> planFile]
  /\ UNCHANGED <<planFile, inForce, planTold, othersWrote, unseen, planEdits>>

Edit(new) ==
  /\ menu.open /\ planEdits < MaxPlanEdits /\ planEdits' = planEdits + 1
  /\ menu' = [menu EXCEPT !.root = new]
  /\ UNCHANGED <<planFile, inForce, planTold, othersWrote, unseen>>

\* The first inbound of a tag, among those of some kinds.
EditInbound(kinds, new(_)) ==
  menu.open /\ \E t \in InTags(menu.root) :
    LET of == {n \in DOMAIN menu.root.ins : /\ menu.root.ins[n].tag = t
                                            /\ menu.root.ins[n].kind \in kinds}
    IN of # {} /\ Edit([menu.root EXCEPT !.ins[Min(of)] = new(@)])

\* modify_mirage_server_inbound: the port, the password, the parameters of connections.  A port
\* that is refused comes before anything is written, a rate that is refused after the others are.
WithParameters(i, port, password, shape) ==
  [i EXCEPT !.port = port, !.password = password, !.shape = shape]
ModifyServerInbound ==
  \E port \in 0 .. 2, password \in MenuPassword \ {NoName}, shape \in {0, 1} :
    /\ port # 0
    /\ EditInbound({"mirage_server"}, LAMBDA i : WithParameters(i, port, password, shape))

\* add_inbound_user, to an inbound of any kind: a name that is there, or none, is refused.
AnyKind == {i.kind : i \in ToSet(menu.root.ins)}
WithUser(i, u) ==
  IF u.name \in {v.name : v \in ToSet(i.users)} THEN i ELSE [i EXCEPT !.users = Append(i.users, u)]
AddInboundUser ==
  \E u \in MenuUser :
    /\ NoName \notin {u.name, u.password}
    /\ EditInbound(AnyKind, LAMBDA i : WithUser(i, u))

\* delete_inbound_user: all of that name.
WithoutUser(i, name) ==
  [i EXCEPT !.users = SelectSeq(i.users, LAMBDA u : u.name # name)]
DeleteInboundUser ==
  \E name \in {u.name : u \in MenuUser} :
    EditInbound(AnyKind, LAMBDA i : WithoutUser(i, name))

\* modify_inbound_user: the first of that name.
WithPassword(i, name, password) ==
  [i EXCEPT !.users = [n \in DOMAIN i.users |->
     IF i.users[n].name = name /\ \A k \in 1 .. n - 1 : i.users[k].name # name
     THEN [i.users[n] EXCEPT !.password = password] ELSE i.users[n]]]
ModifyInboundUser ==
  \E name \in {u.name : u \in MenuUser}, password \in MenuPassword \ {NoName} :
    EditInbound(AnyKind, LAMBDA i : WithPassword(i, name, password))

\* modify_tuning
ModifyTuning == \E v \in {0, 1} : Edit([menu.root EXCEPT !.tuning = v])

\* set_default_outbound, add_mirage_outbound_manual
SetDefaultOutbound ==
  /\ menu.open /\ OfKind(menu.root.outs, {"mirage"}) # {}
  /\ \E t \in OutTags(menu.root) : Edit([menu.root EXCEPT !.default = t])
AddMirageOutbound ==
  /\ menu.open /\ "new" \notin OutTags(menu.root)
  /\ Edit([menu.root EXCEPT !.outs = Append(@, OutboundConfig("new", "mirage"))])

\* Changes are saved if nothing is found to be wrong with them, and the file can be written, over
\* what is there; then it is told what they take, by the file as it was read.
SaveMenu ==
  /\ menu.open /\ menu.root # menu.saved /\ CheckPasses(menu.root)
  /\ planFile' = menu.root /\ unseen' = TRUE /\ menu' = NoMenu
  /\ planTold' = (planTold \/ Classify(menu.saved, menu.root) = "restart")
  /\ othersWrote' = (othersWrote \/ menu.saved # planFile)
  /\ UNCHANGED <<inForce, planEdits>>

QuitMenu ==
  /\ menu.open /\ menu' = NoMenu
  /\ UNCHANGED <<planFile, inForce, planTold, othersWrote, unseen, planEdits>>

-----------------------------------------------------------------------------
(* The rest.                                                               *)

\* `mirage import`, an editor, or the console.
OtherWriter ==
  /\ planEdits < MaxPlanEdits /\ planEdits' = planEdits + 1
  /\ planFile' \in OtherFiles \ {planFile}
  /\ othersWrote' = TRUE /\ unseen' = TRUE
  /\ UNCHANGED <<inForce, menu, planTold>>

HotReload ==
  /\ unseen /\ unseen' = FALSE
  /\ inForce' = Reloaded(inForce, planFile)
  /\ UNCHANGED <<planFile, menu, planTold, othersWrote, planEdits>>

\* A restart; the service does not come up if the state cannot be built.
Vetted(c) == CheckPasses(c) /\ ~ UncheckedRule(c)
RestartService ==
  /\ ~ BuildFails(planFile)
  /\ inForce' = InForce(planFile) /\ planTold' = FALSE /\ unseen' = FALSE
  /\ othersWrote' = ~ Vetted(planFile)
  /\ UNCHANGED <<planFile, menu, planEdits>>

PlanInit ==
  /\ planFile \in {c \in PlanFiles : Vetted(c)} /\ inForce = InForce(planFile)
  /\ menu = NoMenu /\ planTold = FALSE /\ othersWrote = FALSE /\ unseen = FALSE
  /\ planEdits = 0

PlanNext ==
  \/ OpenMenu \/ ModifyServerInbound \/ AddInboundUser \/ DeleteInboundUser
  \/ ModifyInboundUser \/ ModifyTuning \/ SetDefaultOutbound \/ AddMirageOutbound
  \/ SaveMenu \/ QuitMenu \/ OtherWriter \/ HotReload \/ RestartService

PlanSpec == PlanInit /\ [][PlanNext]_planVars

-----------------------------------------------------------------------------
\* What the menu has saved is in force once the watcher has seen it, unless a restart was called
\* for: it rather calls for one too many than for one too few (config_edit.rs:1117-1118), and what
\* it lets be reloaded is not refused.  The menu does not see that others write the file, though.
PlanTrue == planTold \/ othersWrote \/ unseen \/ inForce = InForce(planFile)

=============================================================================
