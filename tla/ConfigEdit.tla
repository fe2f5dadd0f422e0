----------------------------- MODULE ConfigEdit -----------------------------
(***************************************************************************)
(* Who changes the configuration file: the interactive session (mirage     *)
(* config), the commands that add nodes (import, subscribe, and subscribe  *)
(* with a fragment that export has made), and the console, which writes    *)
(* rules (src/src/bin/mirage.rs and mirage/, src/src/config.rs,            *)
(* src/src/api/handlers/rules.rs).                                         *)
(*                                                                         *)
(* Of a configuration there is what names outbounds: the outbounds         *)
(* themselves, in order, with members, filters and underlying outbounds;   *)
(* the default; and which outbounds rules and profiles use.  A filter is   *)
(* the set of tags that it matches.  A tag is a name and a number, the     *)
(* number being the suffix that makes a name unique.                       *)
(***************************************************************************)
EXTENDS Naturals, Sequences, FiniteSets

LOCAL INSTANCE SequencesExt

CONSTANTS
  FirstFiles,     \* files to begin with
  NewTag,         \* tags that users think of
  Host,           \* servers of nodes: a host is also the tag that a node is given for it
  Lists,          \* subscriptions: sequences of hosts
  GroupChoices,   \* choices of groups to be made
  Exported,       \* configurations that fragments are exported from
  MaxFileEdits    \* bound: edits

NoTag == <<"", 0>>
Plain(tag) == [tag |-> tag, kind |-> "direct", members |-> {}, listed |-> FALSE,
               filter |-> {}, under |-> NoTag, host |-> ""]
Node(tag, host) == [Plain(tag) EXCEPT !.kind = "mirage", !.host = host]
Group(tag, kind, members) ==
  [Plain(tag) EXCEPT !.kind = kind, !.members = members, !.listed = TRUE]

VARIABLES
  configFile,   \* the file
  session,      \* the interactive session: what it has read, and what it has made of it
  command,      \* a command: its kind, what it has read, and what it will write
  fileEdits     \* bounds the edits

configEditVars == <<configFile, session, command, fileEdits>>

-----------------------------------------------------------------------------
(* A configuration.                                                        *)

GroupKind == {"urltest", "fallback", "selector", "load_balance"}
LeafKind == {"mirage", "shadowsocks"}
Outs(c) == {c.outs[i] : i \in DOMAIN c.outs}
Tags(c) == {o.tag : o \in Outs(c)}
NodeTags(c) == {o.tag : o \in {x \in Outs(c) : x.kind = "mirage"}}
Groups(c) == {o \in Outs(c) : o.kind \in GroupKind}

\* resolve_default_outbound: what unmatched traffic takes.
DefaultTag(c) == IF c.default # NoTag THEN c.default
              ELSE IF c.outs # <<>> THEN c.outs[1].tag ELSE <<"direct", 1>>

\* group_members: the listed ones, and the nodes that the filter matches.
MembersOf(c, g) ==
  g.members \cup {o.tag : o \in {x \in Outs(c) :
                            x.kind \in LeafKind /\ x.tag \in g.filter /\ x.tag # g.tag}}

\* Groups and chained nodes lead to others: some of them in a circle.
Circular(c) ==
  LET links == {<<o.tag, IF o.kind \in GroupKind THEN MembersOf(c, o) ELSE {o.under}>> :
                  o \in {x \in Outs(c) : x.kind \in GroupKind \/ x.under # NoTag}}
  IN \E S \in (SUBSET links) \ {{}} :
       \A l \in S : \E k \in S : k[1] \in l[2] \ {l[1]}

\* semantic_issues, as far as outbounds are concerned.
Issues(c) ==
  {i \in {"twice", "default", "rule", "profile", "empty", "member", "underlying", "circle"} :
    CASE i = "twice" -> Cardinality(Tags(c)) # Len(c.outs)
      [] i = "default" -> DefaultTag(c) \notin Tags(c)
      [] i = "rule" -> ~ c.rules \subseteq Tags(c)
      [] i = "profile" -> ~ c.profiles \subseteq Tags(c)
      [] i = "empty" -> \E g \in Groups(c) : MembersOf(c, g) = {}
      [] i = "member" -> \E g \in Groups(c) : ~ g.members \subseteq Tags(c) \ {g.tag}
      [] i = "underlying" ->
           \E o \in Outs(c) : o.under # NoTag /\ o.under \notin Tags(c) \ {o.tag}
      [] OTHER -> Circular(c)}

Accepted(c) == Issues(c) = {}

-----------------------------------------------------------------------------
(* Groups that follow the nodes (adjust_outbound_groups).                  *)

\* unique_auto_tag and generate_unique_tag
Unique(tag, taken) ==
  IF tag \notin taken THEN tag
  ELSE <<tag[1], CHOOSE n \in 2 .. Cardinality(taken) + 2 :
                   /\ <<tag[1], n>> \notin taken
                   /\ \A m \in 2 .. n - 1 : <<tag[1], m>> \in taken>>

\* The new groups in the order in which they go to the front.
InFront == <<"selector", "urltest", "fallback", "load_balance">>
NameOf == [selector |-> "select", urltest |-> "auto", fallback |-> "fallback",
           load_balance |-> "load_balance"]

\* There is no group yet: those in kinds are made of the nodes that were picked (here the same
\* for each), all nodes when none was, and the selector is offered the urltest group, too.
WithGroups(c, kinds, picked, auto) ==
  LET tagOf(k) == Unique(<<NameOf[k], 1>>, Tags(c))
      chosen(k) == picked \cup (IF k = "selector" /\ auto /\ "urltest" \in kinds
                                THEN {tagOf("urltest")} ELSE {})
      made(k) == Group(tagOf(k), k, IF chosen(k) = {} THEN NodeTags(c) ELSE chosen(k))
      order == SelectSeq(InFront, LAMBDA k : k \in kinds)
  IN [c EXCEPT !.outs = [i \in 1 .. Len(order) |-> made(order[i])] \o @]

\* A default that names a node may be turned to the first of them.
Redirected(c, made) ==
  {made} \cup (IF c.default \in NodeTags(c) THEN {[made EXCEPT !.default = made.outs[1].tag]}
               ELSE {})

\* There are groups: the new nodes join those that were chosen and have a list of members.
Joined(c, chosen, new) ==
  [c EXCEPT !.outs = [i \in DOMAIN @ |->
     IF @[i].tag \in chosen /\ @[i].listed THEN [@[i] EXCEPT !.members = @ \cup new]
     ELSE @[i]]]

\* Nothing is asked with less than two nodes; the user may choose nothing.
Adjusted(c, new) ==
  {c} \cup
  IF Cardinality(NodeTags(c)) < 2 THEN {}
  ELSE IF Groups(c) = {}
       THEN UNION {Redirected(c, WithGroups(c, k, p, a)) : k \in GroupChoices,
                     p \in SUBSET NodeTags(c), a \in BOOLEAN}
       ELSE {Joined(c, chosen, new) : chosen \in SUBSET {g.tag : g \in Groups(c)}}

-----------------------------------------------------------------------------
(* Edits.                                                                  *)

Append1(c, o) == [c EXCEPT !.outs = Append(@, o)]

\* set_default_outbound, of a tag that is there.
SetDefault(c, t) == [c EXCEPT !.default = t]

\* Mutant: profiles are forgotten.
ReferencesNoProfile(c, t) ==
  {r \in {"default", "rule", "underlying"} :
    CASE r = "default" -> DefaultTag(c) = t
      [] r = "rule" -> t \in c.rules
      [] OTHER -> \E o \in Outs(c) : o.tag # t /\ o.under = t}

\* check_outbound_references, those that forbid to delete.
References(c, t) ==
  {r \in {"default", "rule", "profile", "underlying"} :
    CASE r = "default" -> DefaultTag(c) = t
      [] r = "rule" -> t \in c.rules
      [] r = "profile" -> t \in c.profiles
      [] OTHER -> \E o \in Outs(c) : o.tag # t /\ o.under = t}

\* delete_outbound: the tag leaves the lists of all groups, and the outbound goes.
Deleted(c, t) ==
  LET left == SelectSeq(c.outs, LAMBDA o : o.tag # t)
  IN [c EXCEPT !.outs = [i \in DOMAIN left |->
        IF left[i].kind \in GroupKind THEN [left[i] EXCEPT !.members = @ \ {t}] ELSE left[i]]]

\* apply_urltest_group: the group has all nodes, and everything goes there by default.
GroupFree(c, g) == \A o \in Outs(c) : o.tag = g => o.kind = "urltest"
Grouped(c, g) ==
  LET all == [c EXCEPT !.outs = [i \in DOMAIN @ |->
                IF @[i].tag = g THEN [@[i] EXCEPT !.members = NodeTags(c), !.listed = TRUE]
                ELSE @[i]]]
  IN SetDefault(IF g \in Tags(c) THEN all
                ELSE Append1(c, Group(g, "urltest", NodeTags(c))), g)

\* A subscription's nodes whose server is not there yet, under the names of their hosts.
NewNode(c, host) ==
  IF \E o \in Outs(c) : o.kind = "mirage" /\ o.host = host THEN c
  ELSE Append1(c, Node(Unique(<<host, 1>>, Tags(c)), host))
Subscribed(c, list) == FoldLeft(NewNode, c, list)

-----------------------------------------------------------------------------
(* Fragments: build_export, and merge_fragment, which takes them in.       *)

\* The least set that has base in it, and the tag of each group that reaches it.
Reached(base, groups, reaches(_, _)) ==
  LET tags == {g.tag : g \in groups}
      closed(S) == \A g \in groups : reaches(g, base \cup S) => g.tag \in S
  IN base \cup {t \in tags : \A S \in SUBSET tags : closed(S) => t \in S}

\* Groups go with the nodes that were picked and the members that go with them.
Export(c, picked, withRules) ==
  LET base == picked \cup {o.tag : o \in {x \in Outs(c) : x.kind \in {"direct", "block"}}}
      out == Reached(base, Groups(c), LAMBDA g, S :
               g.members \cap S # {} \/ MembersOf(c, g) \cap picked \cap g.filter # {})
      groups == SelectSeq(c.outs, LAMBDA o : o.kind \in GroupKind /\ o.tag \in out)
      kept == [i \in DOMAIN groups |-> [groups[i] EXCEPT !.members = @ \cap out]]
      named == IF withRules THEN c.rules \cap out ELSE {}
      used == named \cup UNION {kept[i].members : i \in DOMAIN kept}
                    \cup (IF withRules THEN {c.default} ELSE {})
      plain(o) == o.kind \in {"direct", "block"} /\ o.tag \in used
  IN [nodes |-> SelectSeq(c.outs, LAMBDA o : o.tag \in picked),
      outs |-> kept \o SelectSeq(c.outs, plain), rules |-> named]

\* What a tag of the fragment has become; a later entry of the map hides an earlier one.
Mapped(map, t) == IF t \in DOMAIN map THEN map[t] ELSE t
Mapping(map, t, to) == [x \in DOMAIN map \cup {t} |-> IF x = t THEN to ELSE map[x]]

\* Nodes: one whose server is there already stands for the other.
MergedNode(m, n) ==
  LET same == SelectSeq(m.c.outs, LAMBDA o : o.kind = "mirage" /\ o.host = n.host)
      tag == Unique(n.tag, m.taken)
  IN IF same # <<>> THEN [m EXCEPT !.map = Mapping(@, n.tag, same[Len(same)].tag)]
     ELSE [m EXCEPT !.c = Append1(@, [n EXCEPT !.tag = tag]), !.taken = @ \cup {tag},
                    !.map = Mapping(@, n.tag, tag)]

\* Groups: a tag for each, before any is put in place.
MergedTag(m, g) ==
  LET tag == Unique(g.tag, m.taken)
  IN [m EXCEPT !.taken = @ \cup {tag}, !.map = Mapping(@, g.tag, tag),
               !.groups = Append(@, [g EXCEPT !.tag = tag])]

\* direct and block: the same one, one under another name, or a new one.
MergedPlain(before, m, o) ==
  LET same == \E x \in Outs(before) : x.tag = o.tag /\ x.kind = o.kind
      tag == Unique(o.tag, m.taken)
      map == IF tag = o.tag /\ o.tag \in DOMAIN m.map THEN m.map
             ELSE Mapping(m.map, o.tag, tag)
  IN IF same THEN (IF o.tag \in DOMAIN m.map THEN m
                   ELSE [m EXCEPT !.map = Mapping(@, o.tag, o.tag)])
     ELSE [m EXCEPT !.c = Append1(@, [o EXCEPT !.tag = tag]), !.taken = @ \cup {tag},
                    !.map = map]

\* A group gets those of its members that are there, under their new names.
Renamed(m, g, present) == [g EXCEPT !.members = {Mapped(m.map, t) : t \in @} \cap present]

\* merge_fragment, with or without the fragment's rules: what becomes of the configuration, and
\* whether a node, a group or a rule was added.
Merge(c, frag, withRules) ==
  LET start == [c |-> c, taken |-> Tags(c), groups |-> <<>>, map |-> [x \in {} |-> x]]
      plain(m, o) == MergedPlain(c, m, o)
      isGroup(o) == o.kind \in GroupKind
      isPlain(o) == o.kind \in {"direct", "block"}
      nodes == FoldLeft(MergedNode, start, frag.nodes)
      named == FoldLeft(MergedTag, nodes, SelectSeq(frag.outs, isGroup))
      m == FoldLeft(plain, named, SelectSeq(frag.outs, isPlain))
      groups == {m.groups[i] : i \in DOMAIN m.groups}
      present == Reached(m.taken \ {g.tag : g \in groups}, groups, LAMBDA g, S :
                   \E t \in g.members : Mapped(m.map, t) \in S)
      kept == SelectSeq(m.groups, LAMBDA g : g.tag \in present)
      ruled == IF withRules THEN {Mapped(m.map, t) : t \in frag.rules} \cap present ELSE {}
  IN [root |-> [m.c EXCEPT !.outs = @ \o [i \in DOMAIN kept |-> Renamed(m, kept[i], present)],
                           !.rules = @ \cup ruled],
      added |-> nodes.c # c \/ kept # <<>> \/ ruled # {}]

Fragments ==
  UNION {{Export(c, picked, withRules) : picked \in (SUBSET NodeTags(c)) \ {{}},
                                         withRules \in BOOLEAN} : c \in Exported}

-----------------------------------------------------------------------------
(* The session.                                                            *)

NoConfig == [outs |-> <<>>, default |-> NoTag, rules |-> {}, profiles |-> {}]
NoSession == [open |-> FALSE, saved |-> NoConfig, root |-> NoConfig]
NoCommand == [op |-> "none", read |-> NoConfig, root |-> NoConfig]

ConfigEditInit ==
  /\ configFile \in FirstFiles
  /\ session = NoSession /\ command = NoCommand /\ fileEdits = 0

Counts == fileEdits < MaxFileEdits /\ fileEdits' = fileEdits + 1

Open ==
  /\ ~session.open
  /\ session' = [open |-> TRUE, saved |-> configFile, root |-> configFile]
  /\ UNCHANGED <<configFile, command, fileEdits>>

\* One choice in the menu makes something else of the root.
EditSession(root) ==
  /\ Counts
  /\ session' = [session EXCEPT !.root = root]
  /\ UNCHANGED <<configFile, command>>

\* Add a node under a tag that is not taken, and let the groups follow.
Add(tag, host) ==
  /\ session.open /\ tag \notin Tags(session.root)
  /\ \E c \in Adjusted(Append1(session.root, Node(tag, host)), {tag}) : EditSession(c)

\* Modify: a node may get another server, never another tag.
Modify(tag, host) ==
  /\ session.open /\ tag \in NodeTags(session.root)
  /\ EditSession([session.root EXCEPT !.outs = [i \in DOMAIN @ |->
             IF @[i].tag = tag THEN [@[i] EXCEPT !.host = host] ELSE @[i]]])

\* Delete: a default is replaced first, by any outbound that the user names; then nothing may
\* refer to the outbound but groups, or all is as it was.
Delete(tag) ==
  /\ session.open /\ NodeTags(session.root) # {} /\ tag \in Tags(session.root)
  /\ \E c \in IF "default" \in References(session.root, tag)
              THEN {SetDefault(session.root, t) : t \in Tags(session.root)}
              ELSE {session.root} :
       References(c, tag) = {} /\ EditSession(Deleted(c, tag))

ChooseDefault(tag) ==
  /\ session.open /\ NodeTags(session.root) # {} /\ tag \in Tags(session.root)
  /\ EditSession(SetDefault(session.root, tag))

\* Save: what has no issue is written, whatever is in the file by now, and the session ends.
SaveSession ==
  /\ session.open /\ session.root # session.saved /\ Accepted(session.root)
  /\ configFile' = session.root /\ session' = NoSession
  /\ UNCHANGED <<command, fileEdits>>

Quit ==
  /\ session.open /\ session' = NoSession
  /\ UNCHANGED <<configFile, command, fileEdits>>

-----------------------------------------------------------------------------
(* Commands: one edit of what was read, written without a check.           *)

Run(op, root) ==
  /\ command.op = "none" /\ root # configFile
  /\ command' = [op |-> op, read |-> configFile, root |-> root]
  /\ Counts
  /\ UNCHANGED <<configFile, session>>

\* import asks for a tag that is not taken; the groups follow, or --group has one of them have
\* all nodes.
Import(tag, host) ==
  LET c == Append1(configFile, Node(tag, host)) IN
  /\ tag \notin Tags(configFile)
  /\ \/ \E d \in Adjusted(c, {tag}) : Run("import", d)
     \/ \E g \in NewTag : GroupFree(c, g) /\ Run("group", Grouped(c, g))

\* Tags of the nodes that a subscription has added.
Subscribe(list) ==
  LET c == Subscribed(configFile, list)
      new == Tags(c) \ Tags(configFile)
  IN \/ new # {} /\ \E d \in Adjusted(c, new) : Run("subscribe", d)
     \/ \E g \in NewTag : GroupFree(c, g) /\ NodeTags(c) # {} /\ Run("group", Grouped(c, g))

SubscribeFragment(frag) ==
  \E withRules \in BOOLEAN :
    LET merged == Merge(configFile, frag, withRules)
    IN merged.added /\ Run("fragment", merged.root)

WriteCommand ==
  /\ command.op # "none"
  /\ configFile' = command.root /\ command' = NoCommand
  /\ UNCHANGED <<session, fileEdits>>

\* The console writes rules; what is wrong with them is reported and does not keep them out.
\* It reads the file first, which no property here is about.
UpdateRules(tags) ==
  /\ Counts
  /\ configFile' = [configFile EXCEPT !.rules = tags]
  /\ UNCHANGED <<session, command>>

ConfigEditNext ==
  \/ Open \/ SaveSession \/ Quit \/ WriteCommand
  \/ \E t \in NewTag, h \in Host : Add(t, h) \/ Import(t, h)
  \/ \E t \in Tags(session.root) : Delete(t) \/ ChooseDefault(t)
  \/ \E t \in NodeTags(session.root), h \in Host : Modify(t, h)
  \/ \E l \in Lists : Subscribe(l)
  \/ \E f \in Fragments : SubscribeFragment(f)
  \/ \E r \in {{}, {CHOOSE t \in NewTag : TRUE}} : UpdateRules(r)

-----------------------------------------------------------------------------
(* Properties.                                                             *)

\* What each edit may leave to be settled: a group that has lost its last member, which Save
\* refuses; and, where a command writes without a check, a circle through a node whose
\* underlying outbound is the group that now has all nodes, and an underlying outbound that was
\* not exported with its node.
Excused == [none |-> {}, import |-> {}, subscribe |-> {}, group |-> {"circle"},
            fragment |-> {"underlying"}]

\* Every edit of an accepted file, and every sequence of edits of a session, leaves every
\* reference to an outbound with its outbound: the default, which may follow from the order,
\* rules, profiles, members and underlying outbounds, under the tags that they have by then.
\* A fragment that is taken in never changes what unmatched traffic takes.
EditsKeepReferences ==
  /\ Accepted(session.saved) => Issues(session.root) \subseteq {"empty"}
  /\ Accepted(command.read) => Issues(command.root) \subseteq Excused[command.op]
  /\ command.op = "fragment" => DefaultTag(command.root) = DefaultTag(command.read)
=============================================================================
