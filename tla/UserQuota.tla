------------------------------ MODULE UserQuota ------------------------------
(***************************************************************************)
(* The monthly quota of a user of the server: the handle that all of the   *)
(* user's connections share, its rollover into a new period, hot reloads,  *)
(* the console's reset, and the copy in the statistics file                *)
(* (src/src/proxy/user_limits.rs, src/src/monitor.rs).                     *)
(*                                                                         *)
(* One user is modelled: users share nothing but the maps their handles    *)
(* are in.  Fields of a handle are atomics that threads read and write one *)
(* at a time; each step below is one such access, or several of which only *)
(* the last one matters.  Reloads exclude each other by the lock of        *)
(* apply_user_config, and flushes by STATS_FLUSH_LOCK.                     *)
(***************************************************************************)
EXTENDS Integers, FiniteSets

CONSTANTS
  UserConn,     \* connections of the user
  Timer,        \* the task of start_rollover_task
  Quota,        \* quotas that may be configured, 0 for none
  Day,          \* days of the month that may be configured as reset_day
  Month,        \* days in a month
  LastDay, MaxHandles, MaxUsed,  \* bounds: the last day, handles made, blocks counted by one
  MaxQuotaEvents     \* bound: reloads, resets, flushes, restarts and changes of the day

Thread == UserConn \cup {Timer}
Now == 0 .. LastDay
Void == -1

ASSUME QuotaAssumption ==
  /\ Timer \notin UserConn /\ IsFiniteSet(UserConn)
  /\ Quota \subseteq Nat /\ Day \subseteq 0 .. Month - 1 /\ Day # {}
  /\ {Month, LastDay, MaxHandles, MaxUsed, MaxQuotaEvents} \subseteq Nat \ {0}

VARIABLES
  today,        \* the day
  config,       \* what the configuration file says of the user
  handles,      \* the handles, by number
  issued,       \* how many were made since the start
  registered,   \* the number of the handle in USER_LIMITS, 0 for none
  restored,     \* the user's entry in RESTORED_QUOTAS
  stats,        \* the user's entry in the statistics file
  upc, local,   \* of the connections and the timer
  reload, reset, flush,   \* a reload, a reset and a flush in progress
  happened,     \* how many of the events that MaxQuotaEvents bounds
  counted,      \* history: blocks counted in this period, Void where that is not known
  stale         \* history: threads with a snapshot that usage has fallen below since

quotaVars == <<today, config, handles, issued, registered, restored, stats, upc, local, reload,
               reset, flush, happened, counted, stale>>
jobs == <<reload, reset, flush>>
history == <<counted, stale>>

NoEntry == [bytes |-> 0, start |-> Void, counted |-> Void]
NoLocal == [h |-> 0, cur_start |-> 0, expected |-> 0, old_used |-> 0, exh |-> FALSE, quota |-> 0,
            next |-> "off"]
NoJob == [pc |-> "idle", h |-> 0, expected |-> 0, exh |-> FALSE, bytes |-> 0, counted |-> Void]

-----------------------------------------------------------------------------
\* The last day up to n that has the number reset_day in its month, or day 0.
compute_period_start(n, reset_day) ==
  LET start == (IF n % Month >= reset_day THEN n \div Month ELSE n \div Month - 1) * Month
                 + reset_day
  IN  IF start < 0 THEN 0 ELSE start

Over(quota, used) == quota # 0 /\ used >= quota

NewHandle(cfg, start, used) ==
  [quota |-> cfg.quota, reset_day |-> cfg.reset_day, start |-> start, used |-> used,
   exhausted |-> Over(cfg.quota, used), revoked |-> FALSE]

is_exhausted(h) == handles[h].revoked \/ handles[h].exhausted

Put(h, field, v) == handles' = [handles EXCEPT ![h][field] = v]
\* One of the bounded events happens.
Event == happened < MaxQuotaEvents /\ happened' = happened + 1

ThreadTo(t, label) == upc' = [upc EXCEPT ![t] = label]

Limits == [present : BOOLEAN, quota : Quota, reset_day : Day]
Expected(cfg) == compute_period_start(today, cfg.reset_day)

QuotaInit ==
  /\ today = 0
  /\ config \in {c \in Limits : c.present /\ c.quota # 0}
  /\ handles = [i \in 1 .. MaxHandles |-> NewHandle(config, Expected(config), 0)]
  /\ issued = 1 /\ registered = 1
  /\ restored = NoEntry /\ stats = NoEntry
  /\ upc = [t \in Thread |-> "off"] /\ local = [t \in Thread |-> NoLocal]
  /\ reload = NoJob /\ reset = NoJob /\ flush = NoJob
  /\ happened = 0 /\ counted = 0 /\ stale = {}

-----------------------------------------------------------------------------
(* maybe_rollover, called by a thread with the handle it holds.            *)

\* Threads that hold a snapshot which they may still subtract.
Rolling == {t \in Thread : upc[t] \in {"cas", "sub"}}

\* The reset day is read before anything else; a reload may change it next.
Enter(t, h, next) ==
  /\ ThreadTo(t, "read")
  /\ local' = [local EXCEPT ![t] = [NoLocal EXCEPT !.h = h, !.next = next,
                 !.expected = compute_period_start(today, handles[h].reset_day)]]

\* maybe_rollover returns.
RollDone(t) ==
  /\ ThreadTo(t, local[t].next)
  /\ local' = [local EXCEPT ![t] = [NoLocal EXCEPT !.h = local[t].h]]

\* check_period_rollover, and the console's get_user_period_stats
TimerTick ==
  /\ upc[Timer] = "off" /\ registered # 0
  /\ Enter(Timer, registered, "off")
  /\ UNCHANGED <<happened, today, config, handles, issued, registered, restored, stats, jobs,
                 history>>

\* period_start and then period_used are read: where the former changes between, the exchange
\* that follows fails, as it does when it changes later.
Snapshot(t) ==
  LET l == local[t] IN
  /\ upc[t] = "read"
  /\ \/ l.expected <= handles[l.h].start /\ RollDone(t)
     \/ /\ l.expected > handles[l.h].start
        /\ ThreadTo(t, "cas")
        /\ local' = [local EXCEPT ![t].cur_start = handles[l.h].start,
                                  ![t].old_used = handles[l.h].used]
  /\ UNCHANGED <<happened, today, config, handles, issued, registered, restored, stats, jobs,
                 history>>

\* Threads at a subtraction of their snapshot from the usage of h: one of them takes off what
\* another one has taken off, where the reset day was changed between their exchanges.
Subtracting(h) == {t \in Thread : upc[t] = "sub" /\ local[t].h = h}

\* A period begins: nothing has been counted in it, unless somebody still changes the usage by
\* what was before.
CompareExchange(t) ==
  LET l == local[t] IN
  /\ upc[t] = "cas"
  /\ \/ /\ handles[l.h].start = l.cur_start
        /\ Put(l.h, "start", l.expected)
        /\ ThreadTo(t, "sub")
        /\ counted' = IF l.h # registered THEN counted
                      ELSE IF stale = {} /\ reload.pc # "zero" /\ Subtracting(l.h) = {} THEN 0
                      ELSE Void
        /\ UNCHANGED <<local, stale>>
     \/ /\ handles[l.h].start # l.cur_start
        /\ RollDone(t)
        /\ stale' = stale \ {t}
        /\ UNCHANGED <<handles, counted>>
  /\ UNCHANGED <<happened, today, config, issued, registered, restored, stats, jobs>>

\* Mutant: the winner clears the usage.
RolledUsedZero(used, old_used) == 0

\* What is left of the usage is what came after the snapshot.
RolledUsed(used, old_used) == IF used > old_used THEN used - old_used ELSE 0

Subtract(t) ==
  LET l == local[t] IN
  /\ upc[t] = "sub"
  /\ Put(l.h, "used", RolledUsed(handles[l.h].used, l.old_used))
  /\ ThreadTo(t, "eval")
  /\ stale' = (stale \cup Rolling) \ {t}
  /\ UNCHANGED <<happened, today, config, issued, registered, restored, stats, local, jobs,
                 counted>>

\* reevaluate_exhausted reads, and stores what it has found.
Evaluate(t) ==
  LET l == local[t] IN
  /\ upc[t] = "eval"
  /\ local' = [local EXCEPT ![t].exh = Over(handles[l.h].quota, handles[l.h].used)]
  /\ ThreadTo(t, "store")
  /\ UNCHANGED <<happened, today, config, handles, issued, registered, restored, stats, jobs,
                 history>>

StoreFlag(t) ==
  /\ upc[t] = "store"
  /\ Put(local[t].h, "exhausted", local[t].exh)
  /\ RollDone(t)
  /\ UNCHANGED <<happened, today, config, issued, registered, restored, stats, jobs, history>>

Roll(t) == Snapshot(t) \/ CompareExchange(t) \/ Subtract(t) \/ Evaluate(t) \/ StoreFlag(t)

-----------------------------------------------------------------------------
(* A connection of the user.                                               *)

\* is_user_exhausted, of a handshake whose token is the user's
Knock(c) ==
  /\ upc[c] = "off" /\ registered # 0
  /\ Enter(c, registered, "gate")
  /\ UNCHANGED <<happened, today, config, handles, issued, registered, restored, stats, jobs,
                 history>>

\* An exhausted user's handshake fails like one with a wrong token.
LetIn(c) == ~is_exhausted(local[c].h)

Gate(c) ==
  /\ upc[c] = "gate"
  /\ ThreadTo(c, IF LetIn(c) THEN "get" ELSE "off")
  /\ local' = [local EXCEPT ![c] = NoLocal]
  /\ UNCHANGED <<happened, today, config, handles, issued, registered, restored, stats, jobs,
                 history>>

Disconnect(c) == ThreadTo(c, "off") /\ local' = [local EXCEPT ![c] = NoLocal]

\* get_user_limit: the connection keeps the handle of this moment; without one it is closed.
GetUserLimit(c) ==
  /\ upc[c] = "get"
  /\ \/ registered # 0 /\ Enter(c, registered, "open")
     \/ registered = 0 /\ Disconnect(c)
  /\ UNCHANGED <<happened, today, config, handles, issued, registered, restored, stats, jobs,
                 history>>

\* charge, and record_bytes up to the addition.  The flag is tested before and after the wait
\* for the rate limit: the last test, or an earlier one that stops the connection, is here.
ChargeBlock(c) ==
  LET h == local[c].h IN
  /\ upc[c] = "open"
  /\ \/ is_exhausted(h) /\ Disconnect(c)
     \/ /\ ~is_exhausted(h) /\ handles[h].quota # 0
        /\ ThreadTo(c, "adding")
        /\ local' = [local EXCEPT ![c].quota = handles[h].quota]
  /\ UNCHANGED <<happened, today, config, handles, issued, registered, restored, stats, jobs,
                 history>>

\* A block is one unit.
Crosses(prev, quota) == prev + 1 >= quota

\* The usage of a user who is being removed has been read; connections that are still at work
\* on the handle count for nothing.
Leaving == reload.pc \in {"remember", "revoke", "drop"}

\* fetch_add; the last test of the flag is the first one of the next block.
FetchAdd(c) ==
  LET l == local[c] IN
  /\ upc[c] = "adding" /\ handles[l.h].used < MaxUsed
  /\ Put(l.h, "used", handles[l.h].used + 1)
  /\ ThreadTo(c, IF Crosses(handles[l.h].used, l.quota) THEN "flag" ELSE "open")
  /\ local' = [local EXCEPT ![c] = [NoLocal EXCEPT !.h = l.h]]
  /\ counted' = IF counted = Void \/ l.h # registered \/ Leaving THEN counted ELSE counted + 1
  /\ UNCHANGED <<happened, today, config, issued, registered, restored, stats, jobs, stale>>

SetExhausted(c) ==
  /\ upc[c] = "flag"
  /\ Put(local[c].h, "exhausted", TRUE)
  /\ Disconnect(c)
  /\ UNCHANGED <<happened, today, config, issued, registered, restored, stats, jobs, history>>

\* The client leaves.
Close(c) ==
  /\ upc[c] = "open"
  /\ Disconnect(c)
  /\ UNCHANGED <<happened, today, config, handles, issued, registered, restored, stats, jobs,
                 history>>

-----------------------------------------------------------------------------
(* reload_user_limits, after any edit of the configuration.                *)

\* The usage is set to zero: whoever holds a snapshot of it will subtract too much.
Zeroed == counted' = (IF Rolling = {} THEN 0 ELSE Void) /\ stale' = stale \cup Rolling

Reload(cfg) ==
  /\ Event
  /\ reload.pc = "idle"
  /\ config' = cfg
  /\ reload' = [NoJob EXCEPT !.h = registered,
                  !.expected = compute_period_start(today, cfg.reset_day),
                  !.pc = CASE registered # 0 /\ cfg.present -> "quota"
                           [] registered # 0 /\ ~cfg.present -> "loadUsed"
                           [] registered = 0 /\ cfg.present -> "new"
                           [] OTHER -> "idle"]
  /\ UNCHANGED <<today, handles, issued, registered, restored, stats, upc, local, reset, flush,
                 history>>

\* The handle stays and gets the new limits.
ReloadQuota ==
  /\ reload.pc = "quota"
  /\ Put(reload.h, "quota", config.quota)
  /\ reload' = [reload EXCEPT !.pc = "day"]
  /\ UNCHANGED <<happened, today, config, issued, registered, restored, stats, upc, local, reset,
                 flush, history>>

\* The reset day changed, or its period is over.
NewPeriod(old, reset_day, expected) == old.reset_day # reset_day \/ expected > old.start

ReloadDay ==
  LET old == handles[reload.h] IN
  /\ reload.pc = "day"
  /\ Put(reload.h, "reset_day", config.reset_day)
  /\ reload' = [reload EXCEPT !.pc = IF NewPeriod(old, config.reset_day, reload.expected)
                                     THEN "start" ELSE "eval"]
  /\ UNCHANGED <<happened, today, config, issued, registered, restored, stats, upc, local, reset,
                 flush, history>>

\* What is counted before the next step is lost with the old usage.
ReloadStart ==
  /\ reload.pc = "start"
  /\ Put(reload.h, "start", reload.expected)
  /\ reload' = [reload EXCEPT !.pc = "zero"]
  /\ counted' = Void /\ stale' = stale \cup Rolling
  /\ UNCHANGED <<happened, today, config, issued, registered, restored, stats, upc, local, reset,
                 flush>>

ReloadZero ==
  /\ reload.pc = "zero"
  /\ Put(reload.h, "used", 0)
  /\ reload' = [reload EXCEPT !.pc = "eval"]
  /\ Zeroed
  /\ UNCHANGED <<happened, today, config, issued, registered, restored, stats, upc, local, reset,
                 flush>>

ReloadEvaluate ==
  /\ reload.pc = "eval"
  /\ reload' = [reload EXCEPT !.pc = "store",
                  !.exh = Over(handles[reload.h].quota, handles[reload.h].used)]
  /\ UNCHANGED <<happened, today, config, handles, issued, registered, restored, stats, upc,
                 local, reset, flush, history>>

ReloadStore ==
  /\ reload.pc = "store"
  /\ Put(reload.h, "exhausted", reload.exh)
  /\ reload' = NoJob
  /\ UNCHANGED <<happened, today, config, issued, registered, restored, stats, upc, local, reset,
                 flush, history>>

\* A user who is gone: the usage is kept for a return, the handle revoked, and the registry
\* without it stored.
ReloadLoadUsed ==
  /\ reload.pc = "loadUsed"
  /\ reload' = [reload EXCEPT !.pc = "remember", !.bytes = handles[reload.h].used]
  /\ UNCHANGED <<happened, today, config, handles, issued, registered, restored, stats, upc,
                 local, reset, flush, history>>

ReloadRemember ==
  /\ reload.pc = "remember"
  /\ restored' = [NoEntry EXCEPT !.bytes = reload.bytes, !.start = handles[reload.h].start]
  /\ reload' = [reload EXCEPT !.pc = "revoke"]
  /\ UNCHANGED <<happened, today, config, handles, issued, registered, stats, upc, local, reset,
                 flush, history>>

ReloadRevoke ==
  /\ reload.pc = "revoke"
  /\ Put(reload.h, "revoked", TRUE)
  /\ reload' = [reload EXCEPT !.pc = "drop"]
  /\ UNCHANGED <<happened, today, config, issued, registered, restored, stats, upc, local, reset,
                 flush, history>>

ReloadDrop ==
  /\ reload.pc = "drop"
  /\ registered' = 0
  /\ reload' = NoJob
  /\ UNCHANGED <<happened, today, config, handles, issued, restored, stats, upc, local, reset,
                 flush, history>>

\* The usage of the same period, kept since the user was removed or read at the start.
CarriedOver(entry, expected) == IF entry.start = expected THEN entry.bytes ELSE 0

\* A user who is new or back gets a new handle.  That the registry still holds a revoked one
\* takes two reloads at a time.
ReloadNew ==
  /\ reload.pc = "new" /\ issued < MaxHandles
  /\ issued' = issued + 1
  /\ handles' = [handles EXCEPT ![issued + 1] =
                   NewHandle(config, reload.expected, CarriedOver(restored, reload.expected))]
  /\ restored' = NoEntry
  /\ counted' = IF restored.start = reload.expected THEN counted ELSE 0
  /\ reload' = [reload EXCEPT !.pc = "add"]
  /\ UNCHANGED <<happened, today, config, registered, stats, upc, local, reset, flush, stale>>

ReloadAdd ==
  /\ reload.pc = "add"
  /\ registered' = issued
  /\ reload' = NoJob
  /\ UNCHANGED <<happened, today, config, handles, issued, restored, stats, upc, local, reset,
                 flush, history>>

ReloadStep ==
  \/ ReloadQuota \/ ReloadDay \/ ReloadStart \/ ReloadZero \/ ReloadEvaluate \/ ReloadStore
  \/ ReloadLoadUsed \/ ReloadRemember \/ ReloadRevoke \/ ReloadDrop \/ ReloadNew \/ ReloadAdd

-----------------------------------------------------------------------------
(* reset_user_quota, which the console calls outside the lock of reloads,  *)
(* and the flush with which it ends.                                       *)

ResetZero ==
  /\ Event
  /\ reset.pc = "idle" /\ registered # 0
  /\ Put(registered, "used", 0)
  /\ reset' = [NoJob EXCEPT !.pc = "clear", !.h = registered]
  /\ Zeroed
  /\ UNCHANGED <<today, config, issued, registered, restored, stats, upc, local, reload, flush>>

ResetClear ==
  /\ reset.pc = "clear"
  /\ Put(reset.h, "exhausted", FALSE)
  /\ reset' = [reset EXCEPT !.pc = "restored"]
  /\ UNCHANGED <<happened, today, config, issued, registered, restored, stats, upc, local,
                 reload, flush, history>>

\* The entry that a removed user has left is cleared as well; that is all there is to do for
\* a user who is not in the registry, or is about to leave it.
ResetRestored ==
  /\ \/ reset.pc = "restored" /\ UNCHANGED happened
     \/ reset.pc = "idle" /\ registered = 0 /\ restored.bytes # 0 /\ Event
  /\ restored' = [restored EXCEPT !.bytes = 0]
  /\ counted' = IF \/ registered = 0 /\ restored.start # Void
                   \/ reload.pc \in {"revoke", "drop"} /\ counted # Void
                THEN 0 ELSE counted
  /\ reset' = [NoJob EXCEPT !.pc = "flush"]
  /\ UNCHANGED <<today, config, handles, issued, registered, stats, upc, local, reload, flush,
                 stale>>

-----------------------------------------------------------------------------
(* The statistics file, the clock and restarts.                            *)

\* A flush is the timer's, one at the exit, or the end of a reset.
FlushBegins ==
  /\ flush.pc = "idle"
  /\ \/ reset.pc = "flush" /\ reset' = NoJob /\ UNCHANGED happened
     \/ Event /\ UNCHANGED reset

\* export_persisted_quotas reads the usage and then the start of the period; the entry of a
\* user who is not in the registry is not exported.
FlushUsed ==
  /\ registered # 0
  /\ FlushBegins
  /\ flush' = [NoJob EXCEPT !.pc = "start", !.h = registered, !.bytes = handles[registered].used,
                 !.counted = counted]
  /\ UNCHANGED <<today, config, handles, issued, registered, restored, stats, upc, local, reload,
                 history>>

\* The file is replaced by a rename, or left as it was where the write fails.
FlushStart ==
  /\ flush.pc = "start"
  /\ \/ stats' = [bytes |-> flush.bytes, start |-> handles[flush.h].start,
                 counted |-> flush.counted]
     \/ UNCHANGED stats
  /\ flush' = NoJob
  /\ UNCHANGED <<happened, today, config, handles, issued, registered, restored, upc, local,
                 reload, reset, history>>

FlushWithout ==
  /\ registered = 0
  /\ FlushBegins
  /\ stats' \in {NoEntry, stats}
  /\ UNCHANGED <<today, config, handles, issued, registered, restored, upc, local, reload, flush,
                 history>>

\* The clock goes on, or is set back.  A rollover and a reload are short
\* against a period.
Tick(n) ==
  /\ Event
  /\ \A t \in Thread : upc[t] \notin {"read", "cas", "sub", "eval", "store"}
  /\ reload.pc = "idle"
  /\ n # today /\ today' = n
  /\ UNCHANGED <<config, handles, issued, registered, restored, stats, upc, local, jobs,
                 history>>

SamePeriod(entry, expected) == entry.start = expected

\* The process ends at any point and starts again: init_user_limits, then
\* restore_persisted_quotas, before the first connection.
StartAgain ==
  LET kept == config.present /\ SamePeriod(stats, Expected(config)) IN
  /\ Event
  /\ handles' = [i \in 1 .. MaxHandles |->
                   NewHandle(config, Expected(config), IF kept THEN stats.bytes ELSE 0)]
  /\ issued' = 1
  /\ registered' = IF config.present THEN 1 ELSE 0
  /\ restored' = IF config.present THEN NoEntry ELSE stats
  /\ upc' = [t \in Thread |-> "off"] /\ local' = [t \in Thread |-> NoLocal]
  /\ reload' = NoJob /\ reset' = NoJob /\ flush' = NoJob
  /\ counted' = IF stats.start = Expected(config) THEN stats.counted ELSE 0
  /\ stale' = {}
  /\ UNCHANGED <<today, config, stats>>

QuotaNext ==
  \/ \E t \in Thread : Roll(t)
  \/ TimerTick
  \/ \E c \in UserConn : Knock(c) \/ Close(c) \/ Gate(c) \/ GetUserLimit(c) \/ ChargeBlock(c)
                       \/ FetchAdd(c) \/ SetExhausted(c)
  \/ \E cfg \in Limits : Reload(cfg)
  \/ ReloadStep
  \/ ResetZero \/ ResetClear \/ ResetRestored
  \/ FlushUsed \/ FlushStart \/ FlushWithout
  \/ \E n \in Now : Tick(n)
  \/ StartAgain

QuotaSpec == QuotaInit /\ [][QuotaNext]_quotaVars

-----------------------------------------------------------------------------
Used == 0 .. MaxUsed
QuotaEntry == [bytes : Used, start : Now \cup {Void}, counted : Nat \cup {Void}]
Handle == [quota : Quota, reset_day : Day, start : Now, used : Used, exhausted : BOOLEAN,
           revoked : BOOLEAN]
HandleId == 1 .. MaxHandles

\* Usage never leaves its range, whatever is subtracted when, and every number of a handle is
\* one that was made.
QuotaTypeOK ==
  /\ today \in Now /\ config \in Limits
  /\ handles \in [HandleId -> Handle] /\ issued \in HandleId /\ registered \in 0 .. issued
  /\ restored \in QuotaEntry /\ stats \in QuotaEntry
  /\ \A t \in Thread : local[t].h \in 0 .. issued
  /\ counted \in Nat \cup {Void} /\ stale \subseteq Rolling

\* A period's usage is never forgotten: what the connections of a user have counted since the
\* period began is in the user's handle, through rollovers that compete with each other and
\* with the connections, through reloads, removal and return of the user, a clock set back
\* and, up to the last flush, through restarts.
NothingForgotten ==
  registered # 0 /\ counted # Void => counted <= handles[registered].used

=============================================================================
