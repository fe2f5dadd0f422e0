# Mirage-rs: models and proofs

TLA+ models of the concurrent core of Mirage-rs, TLC configurations that check them
on small instances, and TLAPS proofs of the main invariants. Paths are relative to
the repository; `src/src/` holds the Rust sources.

* [The system](#the-system): inventory of components, state, operations, hard behaviour
* [The modules](#the-modules): what models what, and how
* [The runs](#the-runs): every TLC run, its bounds and what it shows
* [The proofs](#the-proofs): theorems, inductive invariants, assumptions
* [What is left](#what-is-left): abstractions, parts without a model, the plan

To check a run: `tlc -config <cfg> <module>` with the pair given in `PROJECT.json`.
To check proofs: `tlapm <module>` for each of the seven `*Proofs.tla` and `PipeChain.tla`.

## The system

Mirage-rs is a proxy engine on Tokio, one binary for clients, gateways and servers.
A client (or a transparent gateway) accepts connections, routes each by rules to an
outbound or a group of outbounds, and relays it through a tunnel that looks like TLS
to a camouflage site. A server authenticates tunnels by a token in the ClientHello,
forwards everything else to the camouflage site, and relays the users' TCP and UDP.

| Component | State | Operations | Interacts with |
|---|---|---|---|
| Warm pool (`proxy/pool.rs`) | queue of idle tunnels, `in_flight`, `target_size`, failure counter, permits of four `Notify`s | `get`, builder, connect tasks, manager (resize, sweep), network watcher, Drop | outbound nodes call `get`; `net_monitor` announces path changes |
| Node health (`PoolStats` in `proxy/pool.rs`, `proxy/healthcheck.rs`) | rows of probe outcomes, penalties of real connections, RTT baseline, last use | `record_*`, `mark_active`, `check_loop` | groups read it; handlers and pools write it |
| Outbound groups (`proxy/outbound.rs`) | current member, round-robin cursor | `resolve_leaf`, `latency_ms`, `mark_active`, the console's list and select | reads node health |
| Selector choices (`proxy/selector_state.rs`) | a file shared by processes, choices in memory | select, save, clean up, restore | console, start-up |
| Fake IP (`dns/fake_ip.rs`) | two maps that are inverse of each other, the next slot, a dirty flag, a file | look up or assign, flush, load | DNS server, XDP cache, transparent proxy |
| Users and credentials (`proxy/mirage_server/mod.rs`, `api/handlers/users.rs`, `config_watcher.rs`) | credential lists and their revocation flags, registry of limits | console edits, file reloads, gates of a connection | sessions share the flags |
| Quotas (`proxy/user_limits.rs`) | usage and start of the period of each user, exhausted flag | record, roll over, reload, reset, persist | relays, console, monitor |
| Configuration watcher (`config_watcher.rs`) | last seen file, symlink state, the core state behind an `ArcSwap` | notifications, 30 s poll, rebuild, hooks | router, DNS, users, geo updater, eBPF |
| Server handshake (`mirage_server/handshake.rs`, `camouflage*.rs`, `crypto/hello_auth.rs`, `crypto/handshake_cache.rs`) | replay cache, limits per address, ServerHello templates, RTT of the camouflage site | read ClientHello, judge, authenticate, reflect | users, control |
| QUIC server (`mirage_server/mod.rs`) | two limiters with a count for each address, the tasks of connections and streams | accept, validate, authenticate, forward, revoke | users, relays |
| Server relays (`control.rs`, `tcp_relay.rs`, `udp_relay.rs`, `proxy/mod.rs`) | half-close state, idle clocks, UDP sessions | dispatch, relay, drain, expire | quotas, rate limits |
| DNS server (`dns/server.rs`) | cache, flights, learned classes | answer, refresh, serve stale, classify | fake IP, router, resolvers |
| Router (`router/*.rs`) | rules, geo tables; updater's schedule | match, reload, download | everything that routes |
| Client handlers (`handler.rs`, `mixed.rs`, `socks5.rs`, `transparent*.rs`, `udp_mux.rs`, `udp_relay.rs`) | UDP sessions, mux tables | accept, sniff, route, relay | groups, pools, DNS |
| QUIC (`quic.rs`, `quic_cc.rs`, `quic_obfs.rs`) | one connection per node, its streams, the controller | open, reconnect, migrate | groups, server |
| Start-up and shutdown (`lib.rs`, `startup.rs`, `engine/`) | the file as each step reads it, kernel programs, listeners | build, listen, attach, stop | everything |
| Configuration check (`config.rs`, `bin/mirage.rs`) | none | `semantic_issues`, `check` | the gate before a restart |
| Command line and interactive configuration (`bin/mirage/`) | the session's copy of the file | edit, classify, save | watcher, service |
| WireGuard and Shadowsocks (`wg/`, `shadowsocks.rs`, `ss_*.rs`) | lazily made tunnel, nonces, salts | connect, encrypt, receive | server's upstreams |
| Cryptography (`crypto/`) | counters of records, keys | seal, open, rekey | tunnels |
| Rate limits (`rate_limit.rs`, `api/ratelimit.rs`, `brutal.rs`) | token buckets, lockouts | consume, refill, rebuild | relays, console |
| Monitor (`monitor.rs`) | live connections, totals, history, file | register, count, flush | every relay, console |
| Console (`api/`) | sessions, samplers | read and edit | everything |
| eBPF (`ebpf/`) | kernel maps | load, update | fake IP, router |

What makes each correct, with its property where there is a model:

* **Warm pool**: stock and dials are bounded and no wait of the builder is without a signal
  (`PoolSound`); an empty pool is filled again, and a dropped one ends its tasks (`PoolLives`).
* **Node health**: a node is punished for the reasons the code names (`PenaltyEarned`), a slow
  period that is to be probed is probed (`BaselineOnItsWay`), and a node that works again is
  found (`Recovers`).
* **Outbound groups**: a usable member is not missed, and who serves is awake (`CallServed`);
  turns are taken (`Spread`).
* **Selector choices**: the last choice comes back after a restart (`ChoiceRestored`).
* **Fake IP**: the maps are inverse of each other (`MapsPaired`) and the file follows them
  (`NothingLost`). That the kernel follows them (`XdpAgrees`) the code does not keep.
* **UDP of the client**: a place in the table has its task behind it, and what is counted is
  there (`FlowsExact`). **QUIC**: one dial at a time, no waiter left behind, each refusal counted
  once (`SharedRight`).
* **Network**: answers of the resolver are recent, what may not be dialled is not, and no change
  of the path is missed (`NetworkKnown`).
* **Users**: a session stands on what is in force (`SessionsAreCurrent`), the tables agree and
  become the file's (`Converged`), with an exception that breaks `FileInForce`, a removed
  credential is left (`RemovedLeave`). **Quotas**: usage of a period is not forgotten
  (`NothingForgotten`).
* **Server handshake**: places are exact (`PlacesExact`), nothing is dialled for a client that is
  recognised or gone (`NoLateConnect`), a token is good once (`TokensOnce`), and what imitates the
  site is complete, and not of a time before the site was lost (`SiteSound`, `SiteKept`).
* **QUIC server**: a place is given back once on every way out, the counts are exact, and what
  a stream shows as an end was sent whole (`QuicSound`).
* **Relays**: either way of a connection is a pipe, at the client, at the server and through both
  (`ConnIsAPipe`, `RelayIsAPipe`); nothing passes after a stop (`NothingAfterStop`); UDP replies
  find their flows (`UdpServed`); no bucket lets more through than it may (`RateKept`).
* **Client handlers**: what is dialled is what was asked for, and a node is blamed for its own
  failures only (`ConnTrue`).
* **DNS**: one flight for a question, no abandoned mark, and an answer keeps to the path decided
  for it (`DnsSound`); everything under way ends (`AllAnswered`).
* **Start-up**: what passed the check starts, is what the file says, and leaves nothing behind
  (`StartSound`). **Interactive configuration**: what it tells of its changes is true
  (`PlanTrue`).
* **Router**: decided early or late, a connection is decided alike, but for two kinds of lists
  that it names (`LateResolutionAgrees`). **Server router**: one tunnel for a key
  (`OneSession`). **Watcher**: the running state becomes that of the file (`ReloadConverges`).
  **Geo updater**: what a round takes for the source's data is that, unless `meta.json` was left
  behind (`GeoFromSource`), and the data follow the source (`GeoFollows`). **Configuration**: no
  edit leaves a reference without its outbound (`EditsKeepReferences`).

What is hard here:

* **Interleaving.** Nearly all state is shared between tasks through atomics,
  short-lived locks and `Notify`; most operations read several of them in separate
  critical sections (`pool.rs` reads the queue and then `in_flight`; `outbound.rs` reads
  health, penalties and latencies before it takes the lock on the current member).
* **Restarts.** Five files are written in the background and read at the next start.
* **Reloads.** The configuration is replaced while sessions run on the old one.
* **Unreliable paths.** Connects fail and time out, tunnels expire, networks change.
* **Time.** Idle pauses, penalties, backoff and quota periods run on clocks that the
  events race.

`PROJECT.json` lists these hazards with the line where each bites and the properties
that would catch it.

## The modules

Every module is parameterised by constants; its actions are the atomic steps of the
code, that is what happens under one lock or in one atomic operation, or between two
points where another thread can be seen. Definitions keep the names of the source.
Mutants, small plausible bugs, stand before the definition they are a variant of and are
used by nothing in the specification.

### The client

**WarmPool** (`src/src/proxy/pool.rs`, `net_monitor.rs`). The queue of idle tunnels
with four kinds of threads around it: callers of `get`, the builder with its connect
tasks, the manager and the network watcher. Tunnels are counted by the path they were
dialled on (`current`, `old`), callers and tasks by the place where they stand, so that
any number of each is one state. A `Notify` is a permit of 0 or 1 and the set of those
who wait; `notify_one` without a waiter stores the permit. The builder reads the queue,
`in_flight` and the failure counter in three steps, as the code does. `DropPool` sets
the shutdown flags. Ages of tunnels are abstracted to "may be discarded".

**NodeHealth** (`PoolStats` in `src/src/proxy/pool.rs`, `healthcheck.rs`). The record
of one node, written by pool tasks (probes), by connections (real outcomes), by path
changes and by the checker. The clock is a `Tick` that lowers the remaining times.

**OutboundGroup** (`src/src/proxy/outbound.rs`, `api/handlers/proxies.rs`). The tree of
groups, given as constants, is resolved by a function of the node and of what the groups
keep, since resolving changes it; `Resolver[d]` goes `d` levels down, and as many as there are
groups suffice. Latencies are those of the probes (`latency_http_ms`, the default `test_type`);
a urltest by `rtt` compares other numbers in the same way. A caller's top-level call is split where the code
reads health, penalties and latencies; what the nested groups do is one step.

**FakeIp** (`src/src/dns/fake_ip.rs`, pushes in `dns/server.rs`, stop in `lib.rs`).
The two maps under one lock, `dirty`, the two flushers (periodic and final) with their
steps swap, lock, snapshot, write, rename, the file, queries that look up or assign and
then push to the XDP cache, and the end and the restart of the process. Addresses are
slots `0 .. Capacity - 1`.

**SelectorState** (`src/src/proxy/selector_state.rs`). Choices in memory, saves that wait
for a thread, the lock of each process, and one file for several processes. A save is
lock, load, rename. Processes stop anywhere and start with edited configurations.

**ClientUdp** (`src/src/proxy/transparent_udp.rs`, `udp_mux.rs`). The table of flows, the
tasks that set a flow up and serve it, the chain of guards by which each ends (one lock
after the other), and the tunnels that many flows share. **QuicMux**
(`src/src/proxy/quic.rs`). The connection that all streams of an outbound share: leaders
and those who wait for them, cancellation, refusals and the pauses after them.
**HostNetwork** (`resolver.rs`, `net_util.rs`, `net_monitor.rs`). The resolver's cache, the
addresses that may be dialled, and the epoch of the path with the task that raises it; who looks
at the epoch is in WarmPool (`net_changed`) and NodeHealth.

**ClientConn** (`socks5.rs`, `mixed.rs`, `transparent.rs`, `handler.rs`, `splice.rs`,
`copy_bidirectional_with_drain`). One TCP connection from the inbound's request to its end.
Chunks are counted. **HalfPipe** is what either way of it promises, and of the server's
relay as well: what is handed over is a beginning of what was sent, and a clean end is
shown only when the sender ended cleanly and all was handed over. **PipeChain** puts two
of them in a row.

**DnsServer** (`src/src/dns/server.rs`). Decision for a question, cache with prefetching and
stale answers, flights that merge equal questions, failover and the learned classes. A query
has one slot for itself and one for its background task.

### The server

**TokenOnce, ReplayCache** (`src/src/crypto/hello_auth.rs`). `TokenOnce` is the promise: a token
is accepted at most once, until the server forgets, which it does at a restart or where its
clock is not steady. `ReplayCache` is the code: buckets by timestamp, the high-water mark,
saturated buckets, and the time that is read before the lock is taken. The clock is steady
while no time is behind the latest one by more than `Slack`, one bucket at most.

**ServerHandshake** (`mirage_server/mod.rs`, `handshake.rs`, `camouflage.rs`). The way of a TCP
connection from the accept loop to its session or through the reflection to the camouflage
site, and the task that connects to the site in advance. `pc` is where the connection
stands, with one label between every two operations on shared counts (`fetch_add`, its
undo, the two halves of a guard's `drop`). Whether a complete ClientHello is a client's is
open here; UserSessions and ReplayCache judge it.

**CamouflageSite** (`crypto/handshake_cache.rs`, `mirage_server/camouflage_rtt.rs`). The
process-wide cache of the site's first flights (filling at start, the refresh task, lazy fetches
of handshakes that may be given up) and the estimate of the way to the site.

**Relay** (`control.rs`, `tcp_relay.rs`, `IdleClock`, `PeerDone`, `idle_timeout_drain` of
`proxy/mod.rs`). One authenticated tunnel from the first frame to its end, directly, through
Shadowsocks or in WireGuard. **ServerUdp** (`udp_relay.rs`). The plain session, with its one
socket and lazily built outlets, and the multiplexed one with a pump for each flow.
**RateLimit** (`rate_limit.rs`). Buckets that relays wait at and datagrams are dropped by, and
the table that gives an address its bucket.

**UserSessions** (`mirage_server/mod.rs`, `user_limits.rs`, `config_watcher.rs`,
`api/handlers/users.rs`, `handshake.rs`, `control.rs`). The file, the watcher, requests of
the console, the application of a configuration in its single steps (inbounds that are
gone, registry, lists), and connections at their gates. A file may also be rejected by the
watcher, define an inbound twice (then it is not applied) or not parse. Requests may carry the
version of the file they are for, or none. Revocation flags are shared
objects; each is named by the application that has made it.

**ServerQuic** (`start_quic_server`, the two limiters and `quic_pump` of `mirage_server/mod.rs`).
The way of a connection and of each of its streams past the limiters: accept loop, Retry, token,
waiting for a place, and a guard on every way out; and one stream from its target to its end,
with the pumps of both ways, the signal by which one stops the other, and the join. Whether a
token is good is open; idle times and the drain may end at any moment.

**UserQuota** (`user_limits.rs`, the user's entry in `monitor.rs`). One user: users share
nothing but the maps of their handles. A handle is a record of atomics, and a step is one
access to one of them, or several of which only the last matters. Connections count blocks
and roll the period over, the timer rolls it over too, reloads change, remove and bring
back the user, the console resets the usage, flushes copy it into the file, and the clock
goes both ways. `counted` is what was counted in the period as far as that is known; where
the code starts from zero on purpose it starts anew.

### What both reload

**Routing** (`router/mod.rs`, `router/geo.rs`). Compiling and matching of rules, with and
without the address, against the documented reading of them. **ServerRouter**
(`mirage_server/server_router.rs`). Outlets and their reuse through reloads and refused
configurations. **ConfigWatch** (`config_watcher.rs`, `ebpf/tc_divert.rs`) extends Routing:
events, the 30 s poll, links, the two readings of the file, and the kernel's table of direct
networks. **GeoUpdate** (`router/geo_updater.rs`). Wake-ups, rounds, records, and crashes
between any two writes. **ConfigEdit** (`bin/mirage.rs` and `bin/mirage/`, `config.rs`,
`api/handlers/rules.rs`). Every editor of the file, as far as outbounds are named.

### Configuration and start-up

**ConfigCheck** (`config.rs`, `run_check` of `bin/mirage.rs`). What a configuration consists of,
and `semantic_issues`: which of its faults are found. **Startup** (`lib.rs`, `startup.rs`,
`outbound.rs`, `ebpf/tc_divert.rs`) extends it: the file is read again at every step, for the log,
the settings, outbounds and rules, and inbounds, and may be edited in between; nodes are
built from outbounds in the code's order; then come engines, listeners and filters, and the
shutdown. **ApplyPlan** (`bin/mirage/config_edit.rs`) extends Startup: a session of
`mirage config` with its copy of the file, its edits, `classify_changes`, the save, other writers,
the watcher's reload and the restart.

### Composition

`ReplayCache` implements `TokenOnce`; `ClientConn` and `Relay` implement `HalfPipe` in both
directions, and two such relays in a row do. Elsewhere modules meet in variables that one
owns and the other lets change at will: what WarmPool and connections tell the health record
is free in NodeHealth; health, penalties and latencies are free in OutboundGroup; the gates
of UserSessions read a flag that UserQuota sets. Each module is therefore checked against
more than the others do.

`MC` modules give constants their values and define symmetry and constraints. `MCStart`,
`MCClient`, `MCDnsServer`, `MCServer` and `MCReload` hold several modules that
share no variables: they are checked side by side, a behaviour moving the one that `focus` names,
so that their graphs add up and do not multiply. The seven `Proofs` modules and `PipeChain` hold
the theorems.

## The runs

| Run | Configuration | Properties | Shows |
|---|---|---|---|
| `start` | `Start` | `PoolSound` `StartSound` `PlanTrue` `NothingForgotten` | what a process starts with: a caller, builder, two connect tasks, manager and Drop on a pool of two; start-up from files that are edited meanwhile; sessions of `mirage config`; and what a user may use in a month: two connections, timer, reloads, resets, flushes, restarts and the clock |
| `health` | `NodeHealth` | `BaselineOnItsWay` `PenaltyEarned` `Recovers` | probes, outcomes of connections, path changes, the checker and the clock |
| `group` | `OutboundGroup` | `Spread` `CallServed` | two callers of a urltest or a load_balance, one of nested groups, and the console |
| `client` | `Client` | `NetworkKnown` `MapsPaired` `NothingLost` `FlowsExact` `SharedRight` `ConnTrue` `ChoiceRestored` `ConnIsAPipe` | what the client keeps and does: HostNetwork, FakeIp with two queries, ClientUdp, QuicMux, SelectorState, and one connection of an application (ClientConn) |
| `kernel_answers` | `KernelAnswers` | `XdpAgrees` (violated) | two queries at once, and the kernel goes on answering a domain that lost its address |
| `udp_window` | `UdpWindow` | `IdleAfterDownlink` (violated) | a flow that was answered ends in the window for those that were not |
| `dns` | `DnsServer` | `DnsSound` `AllAnswered` `PoolLives` | two queries and their background tasks; a pool of one with path changes and fairness |
| `server` | `Server` | `PlacesExact` `NoLateConnect` `TokensOnce` `NothingAfterStop` `RelayIsAPipe` `UdpServed` `RateKept` `QuicSound` | the server's way of a connection: ServerHandshake, ReplayCache, Relay, ServerUdp, RateLimit, and ServerQuic's places and streams |
| `relay_reset` | `ServerReset` | `CloseNotifyMeansEof` (violated) | a target's reset that the client is told of as a clean end |
| `users` | `Users` | `SessionsAreCurrent` `Converged` `RemovedLeave` | edits by hand and requests of the console in any order, watcher, and a connection |
| `file_in_force` | `FileInForce` | `FileInForce` (violated) | a request whose file was replaced by an edit by hand is applied last |
| `reload` | `Reload` | `LateResolutionAgrees` `OneSession` `ReloadConverges` `GeoFromSource` `GeoFollows` `EditsKeepReferences` `SiteSound` `SiteKept` | what a configuration decides and how it is replaced: Routing, ServerRouter, ConfigWatch, GeoUpdate, ConfigEdit, CamouflageSite |

Types are proved (see the proofs) and in no run. Some properties are conjunctions of
named parts, each with a comment where it stands:

* `PoolSound` = `TunnelsBounded` (idle and building tunnels), `BuilderNeverStranded`; `PoolLives` =
  `DropStopsTasks`, `Refill`;
* `StartSound` = `CheckedStarts` (what passed the check starts), `OneConfiguration` (all steps go by
  one file unless it is edited), `FiltersRemoved`;
* `QuicSound` = `QuicPlaces` (counts are exact, who works has a place, limits hold, validated
  addresses find room), `QuicWhole`, `QuicRevoked`;
* `NetworkKnown` = `NamesRecent` (no answer outlives its limit, and a kept one only while the
  resolver fails), `DialsAllowed`, `ChangeSeen`;
* `Converged` = `TablesAgree` (between applications credentials and limits name the same users, and
  none of them is revoked), and `FileInForce` (they are the file's once all is done) unless
  `overtaken`: the last application was that of a request, and the file was another by then;
* `FlowsExact` = `NoBlackHole` (a place that takes datagrams has a task that receives them),
  `Accounted` (sockets, permits, numbers); `SharedRight` = `DialLed`, `CountedOnce`;
* `DnsSound` = `FlightsExact`, `PrefetchDue`, `RightAnswer`; `ConnTrue` = `DialsWhatWasAsked`,
  `RecordToldRight`;
* `UdpServed` = `ReplyExpected`, `FlowServed`; `RateKept` = `NeverFaster`, `OneBucket`;
* `SiteSound` = `HellosSound`, `OldAverageGone`; `SiteKept` = `ChoiceKept`, `CacheFills`.

**Bounds and why they are enough.** The proofs have no bounds.

* WarmPool: two tunnels and two tasks are what the builder's unatomic reads need to
  disagree, and one caller takes tunnels between them; `PoolSound` is of builder and tasks, callers
  only take. `FailureCap = 1` is backoff or none; `MaxLoad` bounds the
  counters of a period. Path changes come in `dns` only, where a pool of one keeps the
  graph small enough for liveness; in `start` the watcher's task just waits (`QuietNetwork`).
* Startup: every pair of outbounds from eleven that name each other, that are filled by a filter, or
  that are bad; every pair of inbounds from eleven that share an address or do not; four lists of
  rules; one edit, which is what falls between two readings. ApplyPlan: four configurations
  (a client's, a server's, both, neither), two users and two passwords, one of them in use; three
  edits and writes let an edit follow an earlier save, somebody else's write, and a restart.
* NodeHealth: three targets are the number a penalty takes, and there is one more; three slow
  ones are what a slow trigger takes. A behaviour has penalties or probes (`OneAtATime`): they
  share the clock and path changes only. `InOrder`: targets are alike. Durations are 1 or 2
  ticks, which keeps all their orders.
* OutboundGroup: two nodes and two callers let one caller switch under the other. The nested
  tree has every kind of group, a shared member and a member that is a group; `Scope` has one
  caller there, and different latencies only there.
* Client: three domains on two addresses wrap the cursor and evict, and two flushers are what
  the code has; two queries meet between the lock on the maps and the pushes to the kernel,
  which nothing else reads, so that states that differ in the kernel's table only count as one
  in `client` (`KernelLeftOut`; `kernel_answers` has it in full). Two groups, so that a save
  could lose the other group's choice, and one waiting save. Two pairs with one destination
  share a socket; two tasks, two tunnels and one number let a tunnel die under a set-up;
  `FirstWindow < Idle`. Two callers and connections let a leader be cancelled before one who
  waits, and a refusal be seen twice. Ttl 3, interval 2 and stale limit 4 keep the order of the
  code's durations; three changes of the path are one more than the listener can have pending.
* DnsServer: two queries for one name, in scenarios (`MCScenarios`): equal questions, clients of two
  sizes, two paths, probing, and questions answered at once; a cache of one entry evicts.
  The pool of one has its loops, a task, path changes, failures and Drop; nobody takes its tunnel.
* ClientConn: two chunks downwards, so that a second can be lost where the first arrived.
* Server: two places for three connections of one address, one reflection, one advance
  connection: every limit is met with one waiting behind it. Two of the four tokens fill a
  bucket of cap two, the third is two buckets on, the last far enough ahead to move the mark
  past the first. Two records downwards are what a greedy read takes at once. Three
  targets and flows meet limits of two. Three blocks of sizes 1 to 3 meet a burst of two.
* UserSessions: two passwords beside the main one for removal, re-adding and re-keying, three
  edits, by hand or through the console, for a user who comes back or for edits that overlap;
  `MaxEvents` only folds notifications. One request at a time is the code's (`CONFIG_WRITE_LOCK`).
* UserQuota: a quota of two blocks, a month of two days, two periods, two handles (the user is
  removed and comes back) and three events. `OneJob`, `TimerRolls`, `OneEdit`, `LastEvent` and
  `EarlyPeriod` (explained in `MCStart`) keep the graph small; the proof has none of them.
* ServerQuic: two connections of one address with a stream each; two places of each kind but one
  for streams, and one connection for an address: there is a limit of each kind that is met, and a
  soft limit below the hard one. Two pieces of data each way.
* Reload: rules of every combination of mode and dimensions, before one of a few; a list of
  sites with a network, and keywords that overlap, both beside rules that they make a difference
  to (each exception of `LateResolutionAgrees` is needed there); two good contents of the file,
  which cover the same addresses by different networks, and a refused one; two mirrors and three
  days; two edits one after the other, from files that have each kind of group; a batch of two
  templates in a cache of three.

**Fairness.** Weak fairness for each loop and task: Tokio polls every task that is ready, and
timers fire. The environment (callers, network changes, edits, failures, stops) promises
nothing. A step that can end in success or failure is fair as a whole, never in one
outcome. `Refill` states its further assumption itself, strong fairness of successful dials:
an upstream that refuses every dial for ever leaves nothing to show.

* `health`: the checker's loop and the probe that a trigger starts. `dns`: the steps of queries
  and background tasks, whose upstream exchanges have time-outs, and the pool's builder, connect
  tasks, manager and watcher. `users`: the application of a configuration, a request that has
  been received, the watcher, and a session that is told to stop. `reload`: the watcher (its
  poll included), the kernel's first load, the updater's task, and handshakes and starters at
  the site.

**Deadlock** is checked except where the system may stop: a dropped pool, and behaviours
whose bounded number of edits, events, chunks or seconds is used up.

**Violations.** `udp_window`, `relay_reset`, `kernel_answers` and `file_in_force` are the four
findings of `PROJECT.json`: each run checks what a comment says, and TLC finds the behaviour that
the code allows instead.

### Met while modelling

Where the code does not do what a comment of it says, or less than one might expect, the
properties are stated for what it does. Most of these show with a small change of a
configuration or a property; some have a definition of their own that no run checks
(`SpareOnlySlows`, `ResetWhenCut`, `KernelDirectAgrees`, `ReloadAlwaysConverges`).

* `get` takes its notification before it looks into the queue, to avoid a race (comment at
  `pool.rs:1411`), but does not enable it, so it is no waiter until first polled. Two callers
  find the queue empty; two connect tasks push a tunnel each and call `notify_one`, and since
  nobody waits yet the two store one permit; the first caller's wait uses it up, and the second
  waits for the next push, up to ten seconds, beside an idle tunnel. `get` is modelled as it is
  (`popping`, `parking`, `parked`), with any number of callers; no property says that this
  cannot happen.
* The last flush of the fake IP table returns at once when the periodic one has cleared
  `dirty` and is still writing (`fake_ip.rs:145`); the exit cuts that one off, and the
  assignments that the comment at `lib.rs:713` wants to keep are lost.
* Look-up, removal and push of a query are three critical sections (`dns/server.rs:1311`): of two
  queries one may give the other's slot to its own domain before the other has pushed, and the
  kernel goes on answering the evicted domain, which `ebpf/mod.rs:252` wants to avoid
  (`kernel_answers`).
* A request of the console applies the configuration it wrote, possibly after the watcher has
  applied a newer file of an editor's; the older credentials then stay, although
  `config_watcher.rs:348` promises that everything converges (`file_in_force`).
* A connection that crosses the quota sets the flag after its addition (`user_limits.rs:160`);
  a rollover or reset in between has just cleared it, and the user is shut out with an
  unused quota until something evaluates the flag again, against the comments at lines
  167 and 392.
* A reload that starts a new period sets its start before it clears the usage
  (`user_limits.rs:299`): what is counted between the two is lost.
* A clock that is set back by more than a bucket lets a token at the old edge of the
  tolerance clear the replay cache under tokens that are still within it; the comment at
  `hello_auth.rs:122` takes all of them for refused. Up to one bucket the promise holds, with
  the time a check takes counted as part of the setback.
* The site's first bytes are read without a timeout (`camouflage.rs:138`): a site that accepts
  and says nothing keeps the connection and its places.
* Two processes that share a state directory (`Proc = {p, q}`) lose each
  other's choices: the lock is one of threads, the file is read and renamed
  (`selector_state.rs:48`).
* A load_balance group below a urltest is resolved three times for one connection, each
  time taking a turn (`outbound.rs:280` and `146`): with three members every connection
  gets the same one, and `Spread` does not hold of it.
* Idle and building tunnels can exceed `pool_size` (`pool.rs:1014`), by no more than
  `TunnelsBounded` says.
* A tunnel dialled on the old path can enter the queue after the flush (`pool.rs:872`).
* A wait that ends in a later period than it began in counts as a period without gets,
  and the target shrinks although a caller starved (`pool.rs:454`).
* Two rollovers of different reset days at once (one thread is between its exchange and its
  subtraction while a reload moves the reset day and another thread rolls into the later
  period; `user_limits.rs:193` to `200`) subtract the usage twice, and count less than was used.
  `counted` is void from there until the next period.
* A relay whose application resets its side may end its tunnel cleanly (`handler.rs:646`, against
  the comment at `handler.rs:659`); the abort of a QUIC upload would read as an end of file and
  finish the stream, although `handler.rs:522` says that the server sees an error.
* `classify_changes` and `config_watcher.rs:144` differ in what they say of the fake IP ranges.
* Writers of the configuration overwrite each other (known: `brain/pages/config-write-race.md`), and
  the command line (`mirage.rs:511`) and the console (`api/handlers/mod.rs:29`) share
  `<path>.tmp` without a common lock.
* A fragment keeps its `underlying` outbound and its rules' `inbound` as they were, loses groups
  that only a filter fills, although `export` keeps them (`CHANGELOG.md:54`), and is written
  without validation; `import` and `subscribe` with `--group` can make a circle of groups.
* `add_inbound_user` takes reset days 1 to 31 where `semantic_issues` wants 1 to 28; the
  session's `modify_*` keep half an edit when they fail.
* A sing-box list of sites with `ip_cidr` (`router/mod.rs:367`) gives its rule networks that
  `has_ip_filters` (`mod.rs:53`) does not know of: such a rule is decided early without them. And
  keywords are searched for without overlaps (`find_iter`, `mod.rs:603`): one that begins within
  another one's match is missed, and its rule with it. `LateResolutionAgrees` says which decisions
  either can change, and that no other changes.
* A file replaced in a round that is interrupted before `meta.json` is written, or cannot write
  it, passes for the source's that `meta.json` still names: when the configuration goes from A
  to B and back to A, B's data stay for the update interval, and on while A answers that nothing
  is new, although `geo_updater.rs:113-114` and `167` take a lost `meta.json` for harmless.
  `GeoFromSource` has this exception and no other.
* An answer that came over a tunnel or TCP can be longer than the client accepts
  (`dns/server.rs:928`, against line 912).
* In the mixed inbound all requests of a plain-HTTP connection that is kept alive go to the first
  one's host.
* The cache of templates is one for the process, also for inbounds with different
  `camouflage_host`; lazy fetches that race may put in a second batch, or a synthetic template
  beside fetched ones; records that the end of the connection cuts off are kept, filled with
  zeroes, against the comment at `handshake_cache.rs:316`.
* The task that seeds the estimate observes a connect time again that was measured before
  (`mirage_server/mod.rs:696` and `755`), before the site was lost perhaps, and an observer that
  was under way when it was lost stores its sample afterwards; `camouflage_rtt.rs:121-122` wants
  what follows a loss to go by what is measured after it. `OldAverageGone` promises only that
  the old average does not come back. A failure to resolve (`camouflage.rs:53`) does not reset
  the estimates as a failure to connect does.
* `mirage check` says that what it passes will start (`bin/mirage.rs:229`, `config.rs:2510`). It
  does not look at `domain_regex` of rules, nor, where Shadowsocks or WireGuard outbounds are
  there, at whether a server's rule names an outbound of the server, nor at inbounds (or
  `gui.listen`) whose addresses meet only through a wildcard. A DNS inbound at a host name, or a
  transparent one without engine or fake IP, does not start; networks of a profile's rule that
  cannot be parsed are dropped. `CheckedStarts` names each of these.
* A group or a chained outbound with the tag `direct` or `block` is built, and those built before
  it that name it go to the implicit one.
* Only the filter of the last transparent inbound is removed at the exit (`ebpf/tc_divert.rs:89`).
* A file that is edited between the watcher's reading and the last one at start lets an inbound
  that is new in it, and has an upstream, relay directly (`lib.rs:61`); `OneConfiguration` assumes
  that nobody edits.
* The menu does not look at the file again before it saves: what others wrote since is lost, and
  what it says of a restart is by the file it had read (`PlanTrue` excepts this). A rate of `00` is
  refused after other fields of the edit were written.
* A QUIC stream whose target is missing, too late or unreachable is merely dropped, and a dropped
  stream is finished: the client sees an empty answer that ends cleanly, although the comment at
  `mirage_server/mod.rs:1240` tells a drop from a reset. `QuicWhole` speaks of relayed streams. The
  stop signal is looked at between two pieces only; a pump that is in a write goes on with it.
* The process's own addresses are up to 60 s old when a dial is judged by them.

## The proofs

Eight modules hold proofs, for every value of the constants that their assumptions allow.
Five of them hold those of several components each. The assumptions are typing, the smallest
sizes the code has (a pool of at least one, a range of at least one address, names that
differ from the placeholder for none), and the few that are named below. TLC evaluates them
in every run. Most arguments are an inductive invariant, checked by TLC before it was
proved, with one step per action.

**OutboundProofs.** *WarmPool*: `TypeCorrect` needs that nothing is taken from an empty counter,
which `SlotsExact` (`in_flight` is the number of tasks that have not given their slot back) gives
for the slot counter. `ConcurrencyBounded` and `StockBounded` rest on `BuilderRoom`: what the
builder has read of the queue and of `in_flight` still bounds what there is, whatever tasks moved
between its reads, since only the builder adds to either sum. `NeverStranded` rests on
`SignalDue`: a builder in its wait without a timer has started a task that still has to signal.
`PoolAlwaysSound` joins these for the run's property.

*OutboundGroup*: the walk through nested groups is a recursive function of the depth, so what
holds of it at every depth is shown by a least counterexample (`ResolverSound`, `UpTo`): from
nodes that are closed under the members of groups and the selectors' choices it does not leave
them, and it changes no selection (`Sound`, `Closed`, `Keeping`). `GroupTypes` follows, with
`ChoicesOK` (a selector's choice is a member). The nodes that `mark_active_at` marks are closed in
this way, so `CallsAwake` needs only that none of them fell asleep during the call (`AwakeInv`).
`CallsUsable` rests on `SinceInv`: a node that was fit all through the call is among the healthy
ones that were read, and as long as there is one the candidates were all healthy and all without
penalty at some time of the call. `CallsServed` joins the two. `CallsSpread` rests on `SpreadInv`:
the last nodes served are those that consecutive turns of the cursor lead to among the members
that are healthy now; a change of their number begins a new row. Assumed of the tree: names
differ, no group is empty, and the cursor wraps at a multiple of the number of members
(`TreeAssumption`; for another number the row that spans the wrap of 2^64 connections is skewed).

**NodeHealthProofs.** `PenaltyIsEarned` rests on `FailuresCounted`: the targets that are
counted have failed since the last penalty or success. `BaselineNotStranded` rests on
`WakeUpDue`: with a baseline put aside the checker has its permit or is past its wait.
`DeathAndRecovery` rests on `RowCounted`.

**ClientProofs**, one section for each module.
*FakeIp*: the two maps are inverse of each other (`MapsInverse`); after a restart they come from
the file, so the invariant says as much of every copy on its way there (`CopiesInjective`).
`FlushLosesNothing` rests on `LockHeld` (who writes has the lock) and `OnItsWay` (with `dirty`
clear, the flusher that cleared it has the present map, or will still copy it), both for any
number of queries. *SelectorState*: `CurrentStaysMember`, `SavesSettle`, `WritesKeepOthers`,
`RestartKeepsChoice`, where each group belongs to one process (`OneOwner`): only who has the
lock is in a save, what it has loaded is still in the file, a choice that the file does
not have has a save waiting that will read it. *QuicMux*: `SharedAlwaysRight` from what a leader
owes (a dial under way has a leader; who waits does so for one that will tell). *ClientUdp*:
`FlowsAlwaysExact` from `PlaceHeld` and `PlaceFilled` (who holds a place and that it is there, over
all steps of the guards), `Tallied` and `SidsHeld` (each count is the cardinality of those who
have not given back). *HostNetwork*: `NetworkAlwaysKnown` joins three invariants.

**AppProofs.** *DnsServer*: `DnsAlwaysSound` rests on `DnsInv`: every job
carries the path that was decided for its question (`JobsFit`), there is one task for a
flight (`OneTask`), who leads a flight is in the table and who waits has a leader
(`FlightsFit`), and what is cached fits its key (`CacheFits`). *ClientConn*: `ConnAlwaysTrue`, and
`ConnIsPipe`, the refinement of HalfPipe in both directions, which rests on `LegsFit` (what is
between the sides), `Complete` (all was handed over when an end is shown as clean),
`ShownInTime`, `KnowsTheEnd` and `Told`. The
mapping names what HalfPipe does not cover: outlets that are no tunnel and promise nothing of
a cut (direct, copied), an application that has ended its own side, its reset, which a
TCP tunnel may pass on as an end (see above), and a stream that the application itself gave up.

**PipeChain.** `ChainIsAPipe`: two HalfPipes in a row, the first one's receiver being the second
one's sender, are a HalfPipe, from `Beginning` and `MiddleWhole`. Client and server together
therefore keep the promise that each keeps.

**ServerProofs.** *ReplayCache*: `OldTokensNeverClear` and `CacheIsTokenOnce` (every behaviour of
`ReplayCache` is one of `TokenOnce`). An accepted token is in the cache or so old that it would
step the mark back (`Remembered`); what waits for the lock was within the tolerance at a time
that has been; with a steady clock the mark is at most a tolerance ahead of the latest time
(`Steady`). `Margin` is the arithmetic: two timestamps at most two tolerances and the slack apart
are within `RetainBuckets` of each other, with all three divisions rounded down.
*ServerHandshake*: a count is compared with a cardinality, so the argument is in two
halves: `GotoCounts` says how the number of connections at a set of labels changes when one
moves, and `StepMoves`, one step per action, that every action changes the counts by the
same. `Armed` (a task that may still begin a connection has a handshake that is not over)
gives `NeverConnectsLate`, and `LimitsAlwaysKept` follows from the exact counts. *Relay*:
`StopIsTheEnd` and `RelayIsPipe`, a refinement like the client's, from `RelayInv`; here a target's
reset may pass for its end unless Shadowsocks forwards (the `relay_reset` run), and a tunnel that
was never relayed promises nothing.
*ServerUdp*: `UdpAlwaysServed`, from one invariant for each of the two sessions. *RateLimit*:
`RateAlwaysKept`: what a bucket has let through and what it holds never exceed the burst and
what has flowed in, waiting blocks included; an address in use is in the table.

**UserProofs.** *UserSessions*: a connection at any gate has an entry that is in force or whose
flag is set (`EntryCurrent`); one that runs has the handle of the registry, or its flag is set
(`LimitCurrent`); between the two steps of a swap the flags of those who go are set
(`MidRevoked`), and a registry that is made but not stored has every handle that is not revoked
(`RegistryKept`). Setting the flags before the swap is what the last two need; in the other
order a connection could pass a gate in between. `AlwaysConverges` has no assumption
on who edits when. Its invariant is `Settles`: a file that is not in force has a notice or a look of
the watcher or its application on its way, or a request was applied last that the file had
overtaken (`FileOnItsWay`), which is the exception of `Converged`; and the tables settle whatever is
applied (`TablesSettle`): what is done of an application is its configuration's, flags of entries
that are made are not set, and the registry made has the users of the configuration
(`RegistryAgrees`).
*UserQuota*: `NothingEverForgotten`. A count can be in more places than the handle, so the
invariant follows every copy: what connections have counted is in the handle, and every
copy on its way (a removal's, a flush's, the file's, a restart's) holds what had been
counted when it was made (`CopiesFit`, `CountFits`); a snapshot taken in the present period
is part of the usage (`SnapshotsFit`); and while the count is known one thread at most is
about to subtract (`OneSubtracts`). `PeriodStart` is the calendar: a period starts today or
before. `UsageInRange` is its type invariant; usage never wraps.
*ServerQuic*: `QuicAlwaysSound` joins `QuicPlacesAlwaysKept` and `QuicStreamsAlwaysTrue`. The places
(`GateInv`): a count is the number of those who hold a place or have counted and not yet undone it
(`NumbersFit`), since each step moves one owner and changes one count (`ClaimCounts`,
`DifferByOne`); who holds what follows from where the tasks stand (`TasksFit`); and the room for
validated addresses rests on there being one connection at a time in the accept loop, so that the
count does not grow between the look at it and the place (`SoftRoom`). The streams
(`StreamInv`): what was given is handed over, in a pump's hand, or waiting; an end is shown only
after the sender's, with an empty hand.

**ReloadProofs.** *Routing*: `LateResolutionAlwaysAgrees`, for all tables and lists of sites, with
networks in them and keywords that overlap: from `VerdictStands` for a rule and `DecisionStands` for a
table (a decision without the address is the one with it, unless a rule of such a list comes
first), the first rule that matches being a least number, which exists by well-founded induction
(`LeastNumber`).
*ServerRouter*: `SessionAlwaysOne`. The table is built by a function that is recursive in the
entries; `BuildingStep` proves its equation by a least counterexample, and `OneTunnel` goes
through the entries the same way. Assumed: fingerprints name the kind of an outlet
(`ServerRouterAssumption`; they begin with `ss|` and `wg|`). *GeoUpdate*: `GeoAlwaysFromSource`
from what the round holds at each of its steps (`GeoSound`), with `meta.json` left behind as its
exception. *CamouflageSite*: `SiteAlwaysSound`,
from one invariant for templates and one for times; `ChoiceAlwaysKept`, the half of `SiteKept` that
needs no fairness. *ConfigCheck*, *Startup*: `CheckedServes`: a configuration that the check passes
has outbounds, rules and inbounds of which the server's side can be built. It goes through the
references that were found sound (`CheckedReferences`); assumed is what the check does not look at
(`UncheckedRule`). `StartsAsOne` is `OneConfiguration` and `FiltersRemoved`, from `StartInv`: what was
read is the file unless that was edited, inbounds are started in order, and those that
relay are those whose tag has an upstream in the watcher's table, which is their own since no
two inbounds of the server share a tag. Assumed: only they have upstreams
(`StartFilesAssumption`; the other kinds have no such field). *ApplyPlan*: `PlanAlwaysTrue`. By `PlanInv` a session
leaves the rules of the file as they were, and unless a restart was called for or others wrote the
file, what is in force has the outbounds, inbounds and settings of the file (the parts that
only a start takes, `Started`), and a reload does not refuse it (`Vetted`). `classify_changes` lets
through to a reload only what differs in neither.

**Only model-checked.** Liveness is out of the prover's reach, as is `ENABLED`: `PoolLives`,
`Recovers`, `RemovedLeave`, `AllAnswered`, `ReloadConverges`, `GeoFollows` and the half
`CacheFills` of `SiteKept`. `EditsKeepReferences` and the part
`CheckedStarts` of `StartSound` have no proof: edits and the building of nodes fold over sequences
of outbounds, and what a fold computes for every sequence is induction over data.
`CheckedServes` is what `CheckedStarts` says of the server's side, where nothing is folded.

## What is left

**Abstractions in the modules.** Ages of tunnels, tokens and times of day are left out or
cut to a few ticks. A selector file that cannot be parsed counts as empty in the code; the
model's file always parses. In UserSessions a configuration has no password twice (the
code rejects it), a client authenticates with a password it had when it connected, the rates
and quotas of a user are left out, and an edit by hand that falls between the last look of
a request at the file and its rename is overwritten, as it is in the code. Relaxed atomics are read and written in some global order.

In UserQuota a month has a fixed number of days, and a block is one unit. In ReplayCache the
match of a token's tag is an open choice. In ServerHandshake the connection in advance is one
for each connection, which waits with its next life until the task of the last one is gone;
the pace of the answers is left out, and the template is in CamouflageSite.

In ClientConn and Relay chunks and records are counted, writes do not block for ever, and the
fallback of `abort_socket` for a socket that cannot be reset is left out. In ClientUdp the
slots of a set of shared tunnels are alike and one is modelled. In QuicMux the uplink's queue
has room, and a refusal is seen within its window. In ConfigEdit a group that is made gets
members that were picked from the file at the time, and the console's reading and
writing of the file are one step, as for its own requests under `CONFIG_WRITE_LOCK`; what other
writers do in between is lost (see above).

In ServerQuic there is one endpoint, and a token is good or not at will. In Startup and ApplyPlan
warnings are left out, and what an inbound does once it listens is in the other modules.

**Parts without a model**, with the reason for each, are in `PROJECT.json`. Byte formats,
ciphers, congestion control, parsing and system calls will stay without one.

**Plan.**

1. `EditsKeepReferences` and `CheckedStarts`: that default, rules and profiles keep their outbounds,
   and nodes are built upon what they name, with the folds replaced by positions and sets.
2. Compositions: NodeHealth under OutboundGroup, UserQuota under UserSessions, ReplayCache under
   ServerHandshake.
3. More of the code under the existing modules: SOCKS associations of `udp_relay.rs`, the
   monitor's history and its file.
