----------------------------- MODULE ConfigWatch -----------------------------
(***************************************************************************)
(* The configuration watcher (config_watcher.rs): the file and its links,  *)
(* file events, the 30 s poll, the reload and what it replaces, and the    *)
(* kernel's table of direct networks that a reload refreshes               *)
(* (ebpf/tc_divert.rs), with its first load at start-up (lib.rs).          *)
(*                                                                         *)
(* The file the configuration path leads to is a record [dir, content,     *)
(* ver]: the directory it is in ("conf" for the configured one itself), a  *)
(* content, Missing when a link dangles, and a number for its modification *)
(* time and length.  The routing table a content stands for is a constant; *)
(* Routing!DirectV4Cidrs says which networks of it are direct.             *)
(***************************************************************************)
EXTENDS Routing

CONSTANTS
    RealDir,     \* directories a link may lead to, other than the configured one
    Content,     \* contents of the file
    Unparsable,  \* ... those that no reload accepts
    Refused,     \* ... those that parse but build no state (say, a new outbound)
    TableOf,     \* [Content -> rule table]
    FirstContent,
    MaxEdits,    \* bound: changes made to the files
    MapSize      \* entries that the kernel's table holds

Missing == "missing"
Dir == {"conf"} \cup RealDir
Direct == [c \in Content |-> DirectV4Cidrs(TableOf[c])]

VARIABLES
    disk,     \* [dir, content, ver]
    geo,      \* version of the .dat files in the geodata directory
    events,   \* queue of file events: [kind, dir], kind "name", "file" or "dat"
    link,     \* SymlinkWatchState: the directory the watcher takes the file to be in
    watched,  \* real directories that are watched besides the configured one
    record,   \* last_record: <<dir, ver>>, or NoRecord when the file was not there
    watcher,  \* what the watcher thread does
    job,      \* [conf, poll, record]: the reload under way
    built,    \* [content, geo]: the state that is being built
    state,    \* [content, geo]: the state in force
    creds,    \* content whose users are in force
    updater,  \* content whose sources the geo updater has
    kernel,   \* networks in the kernel's table
    loaded,   \* networks that the engine takes to be in it
    target,   \* networks that the synchronisation under way wants
    starter,  \* what lib.rs has done about the kernel's table
    edits,
    missed    \* ghost: "quiet" a change without an event that no reload has read, "file"
              \* one that the poll does not see either, "kernel" a table that was not loaded

configVars == <<disk, geo, events, link, watched, record, watcher, job, built, state,
                creds, updater, kernel, loaded, target, starter, edits, missed>>
fileVars == <<disk, geo, events, edits>>
loadedVars == <<state, creds, updater>>
kernelVars == <<kernel, loaded, target, starter>>
watchVars == <<link, watched, record>>

NoRecord == <<"none", 0>>
Inspect == IF disk.content = Missing THEN NoRecord ELSE <<disk.dir, disk.ver>>
Parses(c) == c \notin Unparsable \cup {Missing}
Builds(c) == Parses(c) /\ c \notin Refused

-----------------------------------------------------------------------------
(* The files.                                                              *)

\* Whether a change in a directory makes an event now
Heard(d) == watcher # "boot" /\ d \in watched \cup {"conf"}

Edit(new, es) ==
    /\ edits < MaxEdits
    /\ edits' = edits + 1
    /\ disk' = [new EXCEPT !.ver = edits + 1]
    /\ events' = IF watcher = "boot" THEN events ELSE events \o es
    /\ missed' = IF events' = events /\ new.content # Missing THEN missed \cup {"quiet"} ELSE missed
    /\ UNCHANGED <<geo, watchVars, watcher, job, built, loadedVars, kernelVars>>

\* The file is written, moved into its place or removed (which nobody is told about)
Write(c) == Edit([disk EXCEPT !.content = c],
                 IF Heard(disk.dir) /\ c # Missing
                 THEN <<[kind |-> "file", dir |-> disk.dir]>> ELSE <<>>)

\* The name in the configured directory now leads elsewhere
Relink(d, c) == d # disk.dir /\ Edit([disk EXCEPT !.dir = d, !.content = c],
                                     <<[kind |-> "name", dir |-> "conf"]>>)

\* A link further down now leads elsewhere: none of the watched directories changes
DeepRelink(d, c) == /\ disk.dir # "conf" /\ d \in RealDir \ {disk.dir}
                    /\ Edit([disk EXCEPT !.dir = d, !.content = c], <<>>)

\* The geo updater moves a new .dat file into its place
DatFile ==
    /\ edits < MaxEdits
    /\ edits' = edits + 1 /\ geo' = geo + 1
    /\ events' = IF watcher = "boot" THEN events
                 ELSE Append(events, [kind |-> "dat", dir |-> "geo"])
    /\ missed' = IF watcher = "boot" THEN missed \cup {"file"} ELSE missed
    /\ UNCHANGED <<disk, watchVars, watcher, job, built, loadedVars, kernelVars>>

-----------------------------------------------------------------------------
(* The watcher thread.                                                     *)

\* The record moves past a silent change that no reload of the configuration has read
Past == IF "quiet" \in missed THEN missed \cup {"file"} ELSE missed

Follow(d) == IF d = "conf" THEN {} ELSE {d}

\* The watches are set up; the first state was built from FirstContent before
StartWatch ==
    /\ watcher = "boot"
    /\ watcher' = "wait"
    /\ link' = IF disk.content = Missing THEN "conf" ELSE disk.dir
    /\ watched' = Follow(link')
    /\ record' = Inspect
    /\ missed' = Past
    /\ UNCHANGED <<fileVars, job, built, loadedVars, kernelVars>>

\* SymlinkWatchState::update: follow the path, unless it leads nowhere
Relocate == /\ link' = IF disk.content = Missing THEN link ELSE disk.dir
            /\ watched' = IF link' = link THEN watched ELSE Follow(link')

\* An event: is it about the configuration, the rules' data, or nothing
Receive ==
    /\ watcher = "wait" /\ events # <<>>
    /\ events' = Tail(events)
    /\ LET e == Head(events)
           ours == e.kind = "name" \/ (e.kind = "file" /\ e.dir \in {"conf", link'})
           changed == link' # link
       IN  /\ IF e.kind = "dat" THEN UNCHANGED <<link, watched>> ELSE Relocate
           /\ IF ours \/ changed \/ e.kind = "dat"
              THEN /\ watcher' = "build"
                   /\ job' = [conf |-> ours \/ changed, poll |-> FALSE, record |-> NoRecord]
              ELSE UNCHANGED <<watcher, job>>
    /\ UNCHANGED <<disk, geo, edits, record, built, loadedVars, kernelVars, missed>>

\* 30 s without an event, and the file is not the one on record
Poll ==
    /\ watcher = "wait" /\ events = <<>>
    /\ Inspect \notin {NoRecord, record}
    /\ Relocate
    /\ watcher' = "build"
    /\ job' = [conf |-> TRUE, poll |-> TRUE, record |-> Inspect]
    /\ UNCHANGED <<fileVars, record, built, loadedVars, kernelVars, missed>>

\* build_state, first reading; a state that cannot be built keeps the old one
BuildState ==
    /\ watcher = "build"
    /\ IF Builds(disk.content)
       THEN watcher' = "users" /\ built' = [content |-> disk.content, geo |-> geo]
       ELSE watcher' = "updater" /\ UNCHANGED built
    /\ missed' = IF job.conf THEN missed \ {"file", "quiet"} ELSE missed
    /\ UNCHANGED <<fileVars, watchVars, job, loadedVars, kernelVars>>

\* build_state, second reading: the users of what the file holds by now
ApplyUsers ==
    /\ watcher = "users"
    /\ creds' = IF Parses(disk.content) THEN disk.content ELSE creds
    /\ watcher' = "store"
    /\ UNCHANGED <<fileVars, watchVars, job, built, state, updater, kernelVars, missed>>

Store ==
    /\ watcher = "store"
    /\ state' = built
    /\ IF starter = "hooked"
       THEN watcher' = "sync" /\ target' = Direct[built.content]
       ELSE watcher' = "updater" /\ UNCHANGED target
    /\ missed' = IF starter \in {"read", "synced"} /\ target # Direct[built.content]
                 THEN missed \cup {"kernel"} ELSE missed
    /\ UNCHANGED <<fileVars, watchVars, job, built, creds, updater, kernel, loaded, starter>>

Updater ==
    /\ watcher = "updater"
    /\ updater' = IF job.conf /\ Parses(disk.content) THEN disk.content ELSE updater
    /\ watcher' = "inspect"
    /\ UNCHANGED <<fileVars, watchVars, job, built, state, creds, kernelVars, missed>>

\* Mutant of TakeRecord: the record is taken afterwards on both ways
RecordAfter == record' = Inspect
\* After an event the record is taken now, after a poll it is the one that was compared
TakeRecord == record' = IF job.poll THEN job.record ELSE Inspect

Done ==
    /\ watcher = "inspect"
    /\ TakeRecord
    /\ watcher' = "wait"
    /\ missed' = IF job.poll THEN missed ELSE Past
    /\ UNCHANGED <<fileVars, link, watched, job, built, loadedVars, kernelVars>>

-----------------------------------------------------------------------------
(* sync_direct_cidrs: add what is new, then remove what is old, one network *)
(* at a time.  The first entry that does not fit ends it, and what the      *)
(* engine takes to be in the table stays as it was.                         *)

ToInsert == (target \ loaded) \ kernel
ToRemove == (loaded \ target) \cap kernel

Insert(n) ==
    /\ n \in ToInsert
    /\ Cardinality(kernel) < MapSize
    /\ kernel' = kernel \cup {n}

MayRemove == ToInsert = {}

Remove(n) ==
    /\ MayRemove
    /\ n \in ToRemove
    /\ kernel' = kernel \ {n}

SyncStep ==
    /\ watcher = "sync"
    /\ \E n \in Addr \X (0..AddrBits) : Insert(n) \/ Remove(n)
    /\ UNCHANGED <<fileVars, watchVars, watcher, job, built, loadedVars, loaded, target, starter,
                   missed>>

SyncEnds ==
    /\ watcher = "sync"
    /\ \/ /\ ToInsert = {} /\ ToRemove = {}
          /\ loaded' = target
          /\ missed' = IF kernel = target THEN missed \ {"kernel"} ELSE missed
       \/ /\ ToInsert # {} /\ Cardinality(kernel) >= MapSize
          /\ missed' = missed \cup {"kernel"}
          /\ UNCHANGED loaded
    /\ watcher' = "updater"
    /\ UNCHANGED <<fileVars, watchVars, job, built, loadedVars, kernel, target, starter>>

\* lib.rs at start-up: read the direct networks, load them, hang the hook in
StartKernel ==
    /\ \/ /\ starter = "off" /\ starter' = "read"
          /\ target' = Direct[state.content]
          /\ UNCHANGED <<kernel, loaded>>
       \/ /\ starter = "read" /\ starter' = "synced"
          /\ IF Cardinality(target) <= MapSize
             THEN kernel' = target /\ loaded' = target
             ELSE /\ kernel' \in {s \in SUBSET target : Cardinality(s) = MapSize}
                  /\ UNCHANGED loaded
          /\ UNCHANGED target
       \/ starter = "synced" /\ starter' = "hooked" /\ UNCHANGED <<kernel, loaded, target>>
    /\ missed' = IF Cardinality(target) > MapSize THEN missed \cup {"kernel"} ELSE missed
    /\ UNCHANGED <<fileVars, watchVars, watcher, job, built, loadedVars>>

-----------------------------------------------------------------------------
ConfigInit ==
    /\ disk \in [dir : Dir, content : {FirstContent}, ver : {0}]
    /\ geo = 0 /\ events = <<>>
    /\ link = "conf" /\ watched = {} /\ record = NoRecord
    /\ watcher = "boot"
    /\ job = [conf |-> FALSE, poll |-> FALSE, record |-> NoRecord]
    /\ built = [content |-> FirstContent, geo |-> 0]
    /\ state = built /\ creds = FirstContent /\ updater = FirstContent
    /\ kernel = {} /\ loaded = {} /\ target = {} /\ starter = "off"
    /\ edits = 0 /\ missed = {}

WatcherNext == StartWatch \/ Receive \/ Poll \/ BuildState \/ ApplyUsers \/ Store
                 \/ Updater \/ Done \/ SyncStep \/ SyncEnds

ConfigNext ==
    \/ \E c \in Content \cup {Missing} :
          \/ Write(c)
          \/ \E d \in Dir : Relink(d, c) \/ DeepRelink(d, c)
    \/ DatFile
    \/ WatcherNext
    \/ StartKernel

ConfigSpec == /\ ConfigInit /\ [][ConfigNext]_configVars
              /\ WF_configVars(WatcherNext) /\ WF_configVars(StartKernel)

-----------------------------------------------------------------------------
(* Properties.                                                             *)

Agreed ==
    Builds(disk.content) => /\ state = [content |-> disk.content, geo |-> geo]
                            /\ creds = disk.content
                            /\ updater = disk.content

KernelAgrees == starter = "hooked" => kernel = Direct[state.content]

\* Whatever is edited, moved, linked or downloaded, in any order with the reloads: once
\* the edits end, the state, the users and the geo updater's sources are those of the
\* file, if it is one that can be loaded, and the kernel forwards directly what the rules
\* in force do.  Excepted are changes without an event that the record has moved past (see
\* Past), a reload while lib.rs loads the kernel's table, and a table that is full.
ReloadConverges == <>[](/\ "file" \notin missed => Agreed
                        /\ "kernel" \notin missed => KernelAgrees)

\* The comment on the two readings in build_state: a change between them makes an event
\* or is seen by the poll, so that file, state and users agree in the end.
ReloadAlwaysConverges == <>[]Agreed

=============================================================================
