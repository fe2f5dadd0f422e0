------------------------------ MODULE GeoUpdate ------------------------------
(***************************************************************************)
(* The updater of the rules' data (router/geo_updater.rs): when it runs,   *)
(* what it asks for, what it keeps on disk and in meta.json.  One source,  *)
(* whose list of mirrors is one value of Url; NoSource and Duplicate stand *)
(* for configurations without a source and with two of one name.           *)
(***************************************************************************)
EXTENDS Integers, FiniteSets

CONSTANTS
    Url,        \* mirror lists that may be configured
    MaxAge,     \* update_days
    MaxDay,     \* bound: days that pass
    MaxEvents   \* bound: configurations, upstream versions, crashes and deletions

VARIABLES
    want,     \* UpdaterState: the source configured
    permit,   \* a wake-up is stored in the Notify
    task,     \* what the updater task does
    snap,     \* the configuration its round goes by
    dat,      \* the .dat file: [url, ver, day], or NoDat
    meta,     \* meta.json: [url, tag, day], or NoMeta
    mem,      \* meta as the round has it in memory
    body,     \* what was downloaded: [url, ver], or NoBody
    ok,       \* the round has a file it takes for the configured one
    up,       \* [Url -> Nat]: the version each upstream serves
    today,
    seen,     \* events so far
    torn      \* ghost: the file was replaced and meta.json has not followed

geoVars == <<want, permit, task, snap, dat, meta, mem, body, ok, up, today, seen, torn>>

NoSource == "none"
Duplicate == "duplicate"
NoDat == [url |-> NoSource, ver |-> 0, day |-> 0]
NoMeta == [url |-> NoSource, tag |-> 0, day |-> 0]
NoBody == [url |-> NoSource, ver |-> 0]

-----------------------------------------------------------------------------
(* The world: configurations, upstreams, days, crashes.                    *)

Event == seen < MaxEvents /\ seen' = seen + 1

\* Mutant of Wake: only a task that waits already is woken
WakeWaiting == permit' = (permit \/ task \in {"idle", "retry", "sleep"})
\* notify_one: the wake-up is kept until somebody waits
Wake == permit' = TRUE

\* UpdaterHandle::update
Configure(s) ==
    /\ Event /\ want' = s /\ Wake
    /\ UNCHANGED <<task, snap, dat, meta, mem, body, ok, up, today, torn>>

Release(u) ==
    /\ Event /\ up' = [up EXCEPT ![u] = @ + 1]
    /\ UNCHANGED <<want, permit, task, snap, dat, meta, mem, body, ok, today, torn>>

DeleteDat ==
    /\ Event /\ dat # NoDat /\ dat' = NoDat
    /\ UNCHANGED <<want, permit, task, snap, meta, mem, body, ok, up, today, torn>>

Day == /\ today < MaxDay /\ today' = today + 1
       /\ UNCHANGED <<want, permit, task, snap, dat, meta, mem, body, ok, up, seen, torn>>

\* The process ends and starts again: files and configuration stay
Restart ==
    /\ Event
    /\ task' = "boot" /\ permit' = FALSE
    /\ snap' = NoSource /\ mem' = NoMeta /\ body' = NoBody /\ ok' = FALSE
    /\ UNCHANGED <<want, dat, meta, up, today, torn>>

-----------------------------------------------------------------------------
(* spawn_updater.                                                          *)

Goto(t) == task' = t
Load ==
    /\ task \in {"boot", "top"}
    /\ Goto("check") /\ snap' = want
    /\ UNCHANGED <<want, permit, dat, meta, mem, body, ok, up, today, seen, torn>>

Check ==
    /\ task = "check"
    /\ ok' = FALSE
    /\ \/ snap = NoSource /\ Goto("idle") /\ UNCHANGED mem
       \/ snap = Duplicate /\ Goto("retry") /\ UNCHANGED mem
       \/ snap \in Url /\ Goto("source") /\ mem' = meta
    /\ UNCHANGED <<want, permit, snap, dat, meta, body, up, today, seen, torn>>

Woken ==
    /\ task \in {"idle", "retry", "sleep"} /\ permit
    /\ permit' = FALSE /\ Goto("top")
    /\ UNCHANGED <<want, snap, dat, meta, mem, body, ok, up, today, seen, torn>>

TimesUp ==
    /\ task \in {"retry", "sleep"} /\ Goto("top")
    /\ UNCHANGED <<want, permit, snap, dat, meta, mem, body, ok, up, today, seen, torn>>

-----------------------------------------------------------------------------
(* update_one.                                                             *)

\* Mutant of UrlChanged: a change of the mirrors is not noticed
UrlIgnored == FALSE
UrlChanged == mem # NoMeta /\ mem.url # snap

Age == today - (IF mem # NoMeta THEN mem.day ELSE dat.day)
Fresh == dat # NoDat /\ ~UrlChanged /\ Age < MaxAge

\* The validators of the file, when there is a file and it is from this source
Condition == IF dat # NoDat /\ ~UrlChanged /\ mem # NoMeta THEN mem.tag ELSE 0

Skip ==
    /\ task = "source" /\ Fresh
    /\ Goto("save") /\ ok' = TRUE
    /\ UNCHANGED <<want, permit, snap, dat, meta, mem, body, up, today, seen, torn>>

\* One try over all mirrors and both channels: nothing usable, not modified, or a body
Fetch ==
    /\ task = "source" /\ ~Fresh
    /\ \/ Goto("save") /\ UNCHANGED <<mem, body, ok>>
       \/ /\ Condition # 0 /\ Condition = up[snap]
          /\ mem' = [mem EXCEPT !.url = snap, !.day = today]
          /\ Goto("save") /\ ok' = TRUE /\ UNCHANGED body
       \/ /\ Condition # up[snap]
          /\ body' = [url |-> snap, ver |-> up[snap]]
          /\ Goto("rename") /\ UNCHANGED <<mem, ok>>
    /\ UNCHANGED <<want, permit, snap, dat, meta, up, today, seen, torn>>

\* The file is written, validated and moved into place; any of this may fail
Rename ==
    /\ task = "rename"
    /\ body' = NoBody
    /\ \/ /\ dat' = [url |-> body.url, ver |-> body.ver, day |-> today]
          /\ mem' = [url |-> snap, tag |-> body.ver, day |-> today]
          /\ ok' = TRUE /\ torn' = TRUE
       \/ UNCHANGED <<dat, mem, ok, torn>>
    /\ Goto("save")
    /\ UNCHANGED <<want, permit, snap, meta, up, today, seen>>

\* End of the round: meta.json is replaced, or that fails
Save ==
    /\ task = "save"
    /\ \/ meta' = mem /\ torn' = (torn /\ (mem = NoMeta \/ mem.url # dat.url))
       \/ UNCHANGED <<meta, torn>>
    /\ Goto("sleep")
    /\ UNCHANGED <<want, permit, snap, dat, mem, body, ok, up, today, seen>>

GeoInit ==
    /\ want \in Url \cup {NoSource} /\ permit = FALSE
    /\ task = "boot" /\ snap = NoSource
    /\ dat = NoDat /\ meta = NoMeta /\ mem = NoMeta /\ body = NoBody /\ ok = FALSE
    /\ up = [u \in Url |-> 1] /\ today = 1 /\ seen = 0 /\ torn = FALSE

GeoTask == Load \/ Check \/ Woken \/ TimesUp \/ Skip \/ Fetch \/ Rename \/ Save
GeoNext ==
    \/ \E s \in Url \cup {NoSource, Duplicate} : Configure(s)
    \/ \E u \in Url : Release(u)
    \/ DeleteDat \/ Day \/ Restart
    \/ GeoTask

GeoSpec == GeoInit /\ [][GeoNext]_geoVars /\ WF_geoVars(GeoTask)

-----------------------------------------------------------------------------
(* Properties.                                                             *)

\* A file that a round takes for the configured source's is that source's, whether it was
\* downloaded, not modified or still new enough, and whatever was interrupted or could not be
\* written before.  The exception: meta.json did not follow a replaced file, and what it says is
\* of the source that is configured now, to which the configuration has returned, or nothing at
\* all; it is then taken for what the file is (geo_updater.rs:113-114 claims no such exception).
GeoFromSource ==
    task = "save" /\ ok /\ dat # NoDat =>
        dat.url = snap \/ (torn /\ meta.url \in {snap, NoSource})

\* A change of the sources is not lost, whatever the updater is doing when it comes: it
\* always gets to a round that goes by the sources configured.
GeoFollows == []<>(want \in Url => snap = want)

=============================================================================
