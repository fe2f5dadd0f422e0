------------------------------- MODULE FakeIp -------------------------------
(***************************************************************************)
(* The fake-IP mapper (src/src/dns/fake_ip.rs), its persistence, and the   *)
(* XDP answer cache that the DNS server keeps in step with it              *)
(* (src/src/dns/server.rs, src/src/ebpf/mod.rs).                           *)
(*                                                                         *)
(* DNS queries run concurrently: each takes the mapper's locks once, then  *)
(* tells the XDP layer about the evicted and the new domain in two more    *)
(* steps.  Two threads may write the mapping to disk: the periodic flusher *)
(* and the last flush before the process exits.  The process may crash     *)
(* between any two steps and is started again from the file.               *)
(*                                                                         *)
(* The host part of an address is a slot 0..Capacity-1, for the hosts 2 up *)
(* to the one before broadcast; domains are already in lower case.         *)
(***************************************************************************)
EXTENDS Integers

CONSTANTS
  Domain,       \* domain names that may be asked for
  None,         \* no domain, or no slot
  Capacity,     \* usable hosts of the range
  Query,        \* DNS queries that may be in progress at once
  DiskMayFail,  \* bound: whether a write or rename may fail
  Stops         \* bound: the ways in which the process may stop

ASSUME DomainAssumption   == None \notin Domain \cup Nat \cup {"periodic", "exit"}
ASSUME CapacityAssumption == Capacity \in Nat \ {0}  \* the code has 6 or more
ASSUME SwitchAssumption   == /\ DiskMayFail \in BOOLEAN
                           /\ Stops \subseteq {"exit", "crash"}

Flusher == {"periodic", "exit"}

VARIABLES
  next_ip, domain_to_ip, ip_to_domain,  \* the mapper, each under its own lock
  dirty,            \* an assignment is not on its way to disk yet
  flush_lock,       \* the flusher holding flush_lock, or None
  fpc,              \* where each flusher is
  snapshot, next,   \* each flusher's copy of the forward map, and of next_ip
  tmp,              \* what the .tmp file holds
  disk,             \* what the cache file holds
  answer,           \* each query's assigned [domain, ip, evicted] still to be pushed
  qpc,              \* where each query is
  xdp,              \* mirage_dns_cache: the address the kernel answers a domain with
  phase             \* "up", "exiting" (SIGTERM taken) or "down"

mapVars   == <<next_ip, domain_to_ip, ip_to_domain>>
flushVars == <<flush_lock, fpc, snapshot, next, tmp>>
queryVars == <<answer, qpc>>
vars == <<mapVars, dirty, flushVars, disk, queryVars, xdp, phase>>

Slot == 0 .. Capacity - 1
ForwardMap == [Domain -> Slot \cup {None}]
NoAnswer == [domain |-> None, ip |-> None, evicted |-> None]

Unassigned == [d \in Domain |-> None]
NoFile     == [map |-> Unassigned, next |-> 0]  \* loads like an absent file
Free       == [s \in Slot |-> None]

Init ==
  /\ next_ip = 0 /\ domain_to_ip = Unassigned /\ ip_to_domain = Free
  /\ dirty = FALSE
  /\ flush_lock = None
  /\ fpc = [f \in Flusher |-> "idle"]
  /\ snapshot = [f \in Flusher |-> Unassigned]
  /\ next = [f \in Flusher |-> 0]
  /\ tmp = NoFile /\ disk = NoFile
  /\ answer = [q \in Query |-> NoAnswer]
  /\ qpc = [q \in Query |-> "idle"]
  /\ xdp = Unassigned
  /\ phase = "up"

Running == phase # "down"

-----------------------------------------------------------------------------
(* A DNS query for an address record of a proxied domain.                  *)

\* The host after the last usable one wraps to the first.
Advance(s) == IF s + 1 = Capacity THEN 0 ELSE s + 1

\* Mutant: the evicted domain keeps its forward entry.
ForwardKept(d, s) == [domain_to_ip EXCEPT ![d] = s]

\* The forward map once slot s belongs to d: the domain that had it loses its entry.
Forward(d, s) ==
  [e \in Domain |-> IF e = d THEN s
                    ELSE IF e = ip_to_domain[s] THEN None ELSE domain_to_ip[e]]

\* lookup_or_assign_with_eviction found the domain.
LookupHit(q, d) ==
  /\ Running /\ qpc[q] = "idle" /\ domain_to_ip[d] # None
  /\ answer' = [answer EXCEPT ![q] =
                  [domain |-> d, ip |-> domain_to_ip[d], evicted |-> None]]
  /\ qpc' = [qpc EXCEPT ![q] = "remove"]
  /\ UNCHANGED <<mapVars, dirty, flushVars, disk, xdp, phase>>

\* It did not: the next slot is taken over from whoever has it.
LookupAssign(q, d) ==
  /\ Running /\ qpc[q] = "idle" /\ domain_to_ip[d] = None
  /\ next_ip' = Advance(next_ip)
  /\ ip_to_domain' = [ip_to_domain EXCEPT ![next_ip] = d]
  /\ domain_to_ip' = Forward(d, next_ip)
  /\ dirty' = TRUE
  /\ answer' = [answer EXCEPT ![q] =
                  [domain |-> d, ip |-> next_ip, evicted |-> ip_to_domain[next_ip]]]
  /\ qpc' = [qpc EXCEPT ![q] = "remove"]
  /\ UNCHANGED <<flushVars, disk, xdp, phase>>

\* The cache c after remove_dns_cache(d), which is only called for an evicted domain.
Without(c, d) == [e \in Domain |-> IF e = d THEN None ELSE c[e]]

XdpRemove(q) ==
  /\ Running /\ qpc[q] = "remove"
  /\ xdp' = Without(xdp, answer[q].evicted)
  /\ qpc' = [qpc EXCEPT ![q] = "update"]
  /\ UNCHANGED <<mapVars, dirty, flushVars, disk, answer, phase>>

\* update_dns_cache; the map is an LRU and may drop an entry for the new one.
XdpUpdate(q) ==
  /\ Running /\ qpc[q] = "update"
  /\ \E lost \in Domain \cup {None} :
       xdp' = [Without(xdp, lost) EXCEPT ![answer[q].domain] = answer[q].ip]
  /\ answer' = [answer EXCEPT ![q] = NoAnswer]
  /\ qpc' = [qpc EXCEPT ![q] = "idle"]
  /\ UNCHANGED <<mapVars, dirty, flushVars, disk, phase>>

\* A configuration reload empties the XDP cache.
XdpClear ==
  /\ Running
  /\ xdp' = Unassigned
  /\ UNCHANGED <<mapVars, dirty, flushVars, disk, queryVars, phase>>

-----------------------------------------------------------------------------
(* flush(), run by the periodic task every 60 s and once on exit.          *)

MayFlush(f) == IF f = "exit" THEN phase = "exiting" ELSE Running

\* What a flusher does when flush() returns: the exiting one ends the process.
Returned(f) == IF f = "exit" THEN "exit" ELSE "idle"

\* dirty.swap(false): nothing new, nothing to do.
FlushClean(f) ==
  /\ MayFlush(f) /\ fpc[f] = "idle" /\ ~dirty
  /\ fpc' = [fpc EXCEPT ![f] = Returned(f)]
  /\ UNCHANGED <<mapVars, dirty, flush_lock, snapshot, next, tmp, disk, queryVars,
                 xdp, phase>>

FlushDirty(f) ==
  /\ MayFlush(f) /\ fpc[f] = "idle" /\ dirty
  /\ dirty' = FALSE
  /\ fpc' = [fpc EXCEPT ![f] = "lock"]
  /\ UNCHANGED <<mapVars, flush_lock, snapshot, next, tmp, disk, queryVars, xdp,
                 phase>>

LockFree == flush_lock = None

\* The forward map is copied under its lock once flush_lock is held.
FlushSnapshot(f) ==
  /\ Running /\ fpc[f] = "lock" /\ LockFree
  /\ flush_lock' = f
  /\ snapshot' = [snapshot EXCEPT ![f] = domain_to_ip]
  /\ fpc' = [fpc EXCEPT ![f] = "next"]
  /\ UNCHANGED <<mapVars, dirty, next, tmp, disk, queryVars, xdp, phase>>

FlushNext(f) ==
  /\ Running /\ fpc[f] = "next"
  /\ next' = [next EXCEPT ![f] = next_ip]
  /\ fpc' = [fpc EXCEPT ![f] = "write"]
  /\ UNCHANGED <<mapVars, dirty, flush_lock, snapshot, tmp, disk, queryVars, xdp,
                 phase>>

FlushWrite(f) ==
  /\ Running /\ fpc[f] = "write"
  /\ tmp' = [map |-> snapshot[f], next |-> next[f]]
  /\ fpc' = [fpc EXCEPT ![f] = "rename"]
  /\ UNCHANGED <<mapVars, dirty, flush_lock, snapshot, next, disk, queryVars, xdp,
                 phase>>

FlushRename(f) ==
  /\ Running /\ fpc[f] = "rename"
  /\ disk' = tmp
  /\ fpc' = [fpc EXCEPT ![f] = Returned(f)]
  /\ snapshot' = [snapshot EXCEPT ![f] = Unassigned]
  /\ next' = [next EXCEPT ![f] = 0]
  /\ tmp' = NoFile
  /\ flush_lock' = None
  /\ UNCHANGED <<mapVars, dirty, queryVars, xdp, phase>>

\* Mutant: a failed flush is forgotten.
RetryForgotten == UNCHANGED dirty

\* The next flush has to try again.
Retry == dirty' = TRUE

FlushFail(f) ==
  /\ DiskMayFail /\ Running /\ fpc[f] \in {"write", "rename"}
  /\ Retry
  /\ fpc' = [fpc EXCEPT ![f] = Returned(f)]
  /\ snapshot' = [snapshot EXCEPT ![f] = Unassigned]
  /\ next' = [next EXCEPT ![f] = 0]
  /\ tmp' = NoFile
  /\ flush_lock' = None
  /\ UNCHANGED <<mapVars, disk, queryVars, xdp, phase>>

-----------------------------------------------------------------------------
(* The process.                                                            *)

SigTerm ==
  /\ "exit" \in Stops /\ phase = "up"
  /\ phase' = "exiting"
  /\ UNCHANGED <<mapVars, dirty, flushVars, disk, queryVars, xdp>>

\* What is left of the process when it ends: the files.
Stop ==
  /\ phase' = "down"
  /\ next_ip' = 0 /\ domain_to_ip' = Unassigned /\ ip_to_domain' = Free
  /\ dirty' = FALSE
  /\ flush_lock' = None
  /\ fpc' = [f \in Flusher |-> "idle"]
  /\ snapshot' = [f \in Flusher |-> Unassigned]
  /\ next' = [f \in Flusher |-> 0]
  /\ answer' = [q \in Query |-> NoAnswer]
  /\ qpc' = [q \in Query |-> "idle"]
  /\ xdp' = Unassigned
  /\ tmp' = NoFile  \* a left-over .tmp is overwritten, never read
  /\ UNCHANGED disk

\* process::exit(0) ends every thread where it stands.
Exit ==
  /\ phase = "exiting" /\ fpc["exit"] = "exit"
  /\ Stop

Crash ==
  /\ "crash" \in Stops /\ Running
  /\ Stop

\* with_persist and load: both maps are rebuilt from the file's lines.
Restart ==
  /\ phase = "down"
  /\ phase' = "up"
  /\ domain_to_ip' = disk.map
  /\ ip_to_domain' = [s \in Slot |-> IF \E d \in Domain : disk.map[d] = s
                                     THEN CHOOSE d \in Domain : disk.map[d] = s
                                     ELSE None]
  /\ next_ip' = disk.next
  /\ UNCHANGED <<dirty, flushVars, disk, queryVars, xdp>>

-----------------------------------------------------------------------------
Resolve(q) == \/ \E d \in Domain : LookupHit(q, d) \/ LookupAssign(q, d)
              \/ XdpRemove(q) \/ XdpUpdate(q)

Flush(f) == \/ FlushClean(f) \/ FlushDirty(f) \/ FlushSnapshot(f) \/ FlushNext(f)
            \/ FlushWrite(f) \/ FlushRename(f) \/ FlushFail(f)

Next == \/ \E q \in Query : Resolve(q)
        \/ \E f \in Flusher : Flush(f)
        \/ XdpClear \/ SigTerm \/ Exit \/ Crash \/ Restart

Spec == Init /\ [][Next]_vars

-----------------------------------------------------------------------------
(* Properties.                                                             *)

File == [map : ForwardMap, next : Slot]

\* Every map maps domains to slots of the range and back, in memory, on disk and in
\* the kernel.
TypeOK ==
  /\ next_ip \in Slot
  /\ domain_to_ip \in ForwardMap
  /\ ip_to_domain \in [Slot -> Domain \cup {None}]
  /\ dirty \in BOOLEAN
  /\ flush_lock \in Flusher \cup {None}
  /\ fpc \in [Flusher -> {"idle", "lock", "next", "write", "rename", "exit"}]
  /\ snapshot \in [Flusher -> ForwardMap]
  /\ next \in [Flusher -> Slot]
  /\ tmp \in File /\ disk \in File
  /\ answer \in [Query -> [domain : Domain \cup {None}, ip : Slot \cup {None},
                           evicted : Domain \cup {None}]]
  /\ qpc \in [Query -> {"idle", "remove", "update"}]
  /\ xdp \in ForwardMap
  /\ phase \in {"up", "exiting", "down"}

\* The two maps are inverse to each other: the address answered for a domain leads
\* back to that domain and no other, through evictions, crashes and restarts.
MapsPaired ==
  \A d \in Domain, s \in Slot : domain_to_ip[d] = s <=> ip_to_domain[s] = d

\* While the process runs, with nothing dirty and no flush under way, the file holds the
\* mapping, in whatever order two flushes took their snapshots and whichever of them failed.
NothingLost ==
  Running /\ ~dirty /\ (\A f \in Flusher : fpc[f] \in {"idle", "exit"})
    => disk.map = domain_to_ip

\* While no query is between its lookup and its last XDP call, the kernel answers a
\* domain only with the address the mapper leads back to that domain: a domain that lost its
\* address is no longer answered with it.
XdpAgrees ==
  (\A q \in Query : qpc[q] = "idle")
    => \A d \in Domain : xdp[d] # None => xdp[d] = domain_to_ip[d]
=============================================================================
