---------------------------- MODULE ServerRouter ----------------------------
(***************************************************************************)
(* The outlets of the server (proxy/mirage_server/server_router.rs): which *)
(* upstream tunnels a reload builds, shares and keeps, and which outlet a  *)
(* connection is given.                                                    *)
(*                                                                         *)
(* A configuration is a record [entries, mixed, refs, default, ruled]:     *)
(* entries is the sequence of [key, kind, params, udp, wanted] in the      *)
(* order they are built ("inbound" entries first), refs the outbound tags  *)
(* its rules name, ruled whether it has rules.  What the rules decide is   *)
(* in Routing; here a rule may decide for any tag it names.                *)
(***************************************************************************)
EXTENDS Integers, Sequences, FiniteSets

CONSTANTS
    ServerConfs,   \* configurations of the server
    FirstConf,     \* the one it starts with
    ServerInbound, \* the inbounds that connections come in by
    MaxTunnels     \* bound: upstream tunnels that are made in one behaviour

Upstream == {"ss", "wg"}

\* What is compared of two entries names their kind (wg_tunnel_fingerprint,
\* upstream_fingerprint)
ASSUME ServerRouterAssumption ==
    \A c, d \in ServerConfs :
        /\ c.entries \in Seq([key : STRING, kind : STRING, params : STRING, udp : STRING,
                              wanted : BOOLEAN])
        /\ \A i \in 1..Len(c.entries), j \in 1..Len(d.entries) :
              /\ c.entries[i].kind \in Upstream /\ d.entries[j].kind \in Upstream
              /\ c.entries[i].params = d.entries[j].params
              => c.entries[i].kind = d.entries[j].kind

VARIABLES
    serving,    \* the configuration in force
    outlets,    \* its upstream outlets: [key -> [params, udp, tunnel]]
    tunnels,    \* tunnels made so far
    conn        \* the connection looked at: NoConn, or [via, tag, tunnel]

serverRouterVars == <<serving, outlets, tunnels, conn>>

NoConn == [via |-> "", tag |-> "", tunnel |-> 0]

-----------------------------------------------------------------------------
(* Building a table.                                                       *)

Kind(c, key) == LET es == {i \in 1..Len(c.entries) : c.entries[i].key = key}
                IN  IF es = {} THEN "undefined" ELSE c.entries[CHOOSE i \in es : TRUE].kind

BuildsUpstream(e) == e.kind \in Upstream /\ e.wanted

Outlets(tbl) == {tbl[k] : k \in DOMAIN tbl}
Same(tbl, e) == {o \in Outlets(tbl) : o.params = e.params /\ o.udp = e.udp}
SameTunnel(tbl, e) ==
    {[o EXCEPT !.udp = e.udp] : o \in {p \in Outlets(tbl) : p.params = e.params}}

\* Mutant of Shared: only outlets of the table being built
SharedInNew(built, e) == IF e.kind # "wg" THEN {} ELSE SameTunnel(built, e)

\* outlet_for: an entry that differs from an outlet in its udp policy only shares that
\* outlet's WireGuard tunnel, of the table being built or else of the one in force
Shared(built, e) ==
    IF e.kind # "wg" THEN {}
    ELSE IF SameTunnel(built, e) # {} THEN SameTunnel(built, e) ELSE SameTunnel(outlets, e)

\* outlet_for: the outlets one entry may get, an equal one first
OutletFor(s, e) ==
    LET old == IF Same(s.built, e) # {} THEN Same(s.built, e)
               ELSE IF Same(outlets, e) # {} THEN Same(outlets, e)
               ELSE Shared(s.built, e)
        fresh == [params |-> e.params, udp |-> e.udp, tunnel |-> s.made + 1]
        with(o, n) == [made |-> n,
                       built |-> [k \in DOMAIN s.built \cup {e.key} |->
                                     IF k = e.key THEN o ELSE s.built[k]]]
    IN  IF old # {} THEN {with(o, s.made) : o \in old} ELSE {with(fresh, s.made + 1)}

\* build_server_router_state: the tables that may come out, after the first i entries
Tables0 == {[built |-> [k \in {} |-> NoConn], made |-> tunnels]}
Building(c) ==
    LET after[i \in 0..Len(c.entries)] ==
            IF i = 0 THEN Tables0
            ELSE IF ~BuildsUpstream(c.entries[i]) THEN after[i - 1]
            ELSE UNION {OutletFor(s, c.entries[i]) : s \in after[i - 1]}
    IN  after
Built(c) == Building(c)[Len(c.entries)]

Refs(c) == c.refs \cup IF c.mixed THEN {} ELSE {c.default}
InTable(c, tag) == \/ Kind(c, tag) \in {"direct", "block"}
                   \/ \E i \in 1..Len(c.entries) :
                         BuildsUpstream(c.entries[i]) /\ c.entries[i].key = tag
Legacy(c) == \A i \in 1..Len(c.entries) :
                c.entries[i].kind \in Upstream => c.entries[i].key \in ServerInbound

\* An undefined outbound is an error; so is one of a kind the server cannot use, unless
\* the configuration has no upstream outbound at all: then its routing is ignored
Invalid(c) == \/ \E t \in Refs(c) : Kind(c, t) = "undefined"
              \/ ~Legacy(c) /\ \E t \in Refs(c) : ~InTable(c, t)

\* Whether a table has a routing engine, or sends everything directly
HasRouter(c) == /\ \A t \in Refs(c) : InTable(c, t)
                /\ c.ruled \/ ~(c.mixed \/ c.default = "direct")

-----------------------------------------------------------------------------
(* Actions.                                                                *)

\* A reload; an invalid configuration is refused as a whole
Reload(c) ==
    /\ ~Invalid(c)
    /\ \E s \in Built(c) : /\ s.made <= MaxTunnels
                           /\ outlets' = s.built /\ tunnels' = s.made
    /\ serving' = c
    /\ UNCHANGED conn

Default(c) == IF c.mixed THEN "direct" ELSE c.default

\* ServerRouterState::route: the inbound's own upstream first, then the router, which
\* decides for a tag of its rules or for the default
Route(ib) ==
    /\ conn = NoConn
    /\ LET to(tag, tunnel) == conn' = [via |-> ib, tag |-> tag, tunnel |-> tunnel]
           use(tag) == to(tag, IF tag \in DOMAIN outlets THEN outlets[tag].tunnel ELSE 0)
       IN  IF ib \in DOMAIN outlets THEN to("inbound", outlets[ib].tunnel)
           ELSE IF ~HasRouter(serving) THEN to("direct", 0)
           ELSE \/ use(Default(serving))
                \/ \E tag \in serving.refs : use(tag)
    /\ UNCHANGED <<serving, outlets, tunnels>>

\* The connection ends
Close == conn # NoConn /\ conn' = NoConn /\ UNCHANGED <<serving, outlets, tunnels>>

ServerRouterInit ==
    /\ serving = FirstConf
    /\ outlets = [k \in {} |-> NoConn] /\ tunnels = 0
    /\ conn = NoConn

ServerRouterNext ==
    \/ \E c \in ServerConfs : Reload(c)
    \/ \E ib \in ServerInbound : Route(ib)
    \/ Close

ServerRouterSpec == ServerRouterInit /\ [][ServerRouterNext]_serverRouterVars

-----------------------------------------------------------------------------
(* Properties.                                                             *)

IsWg(params) == \E c \in ServerConfs : \E i \in 1..Len(c.entries) :
                    c.entries[i].kind = "wg" /\ c.entries[i].params = params

\* One WireGuard key has one session: whatever the tags, the inbounds and the udp
\* policies, equal tunnel parameters are one tunnel within a table, and still the same
\* one in the table that follows, so that a reload does not put two sessions of a key
\* against each other.
OneSession ==
    [][\A o \in Outlets(outlets) \cup Outlets(outlets'), n \in Outlets(outlets') :
          o.params = n.params /\ IsWg(n.params) => o.tunnel = n.tunnel]_serverRouterVars

=============================================================================
