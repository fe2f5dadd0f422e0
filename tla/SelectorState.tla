---------------------------- MODULE SelectorState ----------------------------
(***************************************************************************)
(* The choices that users make in selector groups, and the file that keeps *)
(* them over restarts (src/src/proxy/selector_state.rs, select_proxy in    *)
(* src/src/api/handlers/proxies.rs, OutboundManager::new in                *)
(* src/src/proxy/outbound.rs).                                             *)
(*                                                                         *)
(* A choice is made in memory at once and saved by a task of a thread pool *)
(* later, in no particular order.  SELECTOR_PERSIST_LOCK serialises the    *)
(* saves of one process; several processes of one machine may share a file.*)
(* The file is replaced by renaming a complete one over it.                *)
(***************************************************************************)
EXTENDS Integers

CONSTANTS
  Proc,      \* processes that share the file
  Group, Tag, NoTag,
  Owner,     \* the process whose configuration has the group
  First,     \* the first member of each group
  MaxTasks   \* bound: saves of one request that wait

ASSUME TagAssumption ==
  /\ NoTag \notin Tag /\ MaxTasks \in Nat
  /\ Owner \in [Group -> Proc] /\ First \in [Group -> Tag]

VARIABLES
  file,       \* the record of each group
  members,    \* of each group, in the configuration as it is
  up,         \* the processes that run
  current,    \* the choices in memory
  queued,     \* saves that wait for a thread, by group and by the tag asked for
  holder,     \* of each process: what the holder of the lock is about
  selected,   \* history: the user has chosen while the process runs
  failed,     \* history: the last save could not write
  chosen      \* history: choices that were saved when the process stopped

choiceVars == <<file, members, up, current, queued, holder, selected, failed, chosen>>

NoRecords == [g \in Group |-> NoTag]
Unheld == [pc |-> "free", groups |-> {}, value |-> NoTag, map |-> NoRecords]

ChoiceInit ==
  /\ file = NoRecords /\ members = [g \in Group |-> Tag]
  /\ up = {} /\ current = First
  /\ queued = [g \in Group |-> [t \in Tag |-> 0]]
  /\ holder = [p \in Proc |-> Unheld]
  /\ selected = [g \in Group |-> FALSE] /\ failed = [g \in Group |-> FALSE]
  /\ chosen = NoRecords

Owned(p) == {g \in Group : Owner[g] = p}

-----------------------------------------------------------------------------
(* OutboundManager::new                                                    *)

Stale(p) == {g \in Owned(p) : file[g] # NoTag /\ file[g] \notin members[g]}

\* Mutant: a process starts with the first member.
RestoredFirst(g) == First[g]

\* The recorded choice, if it is still a member.
Restored(g) == IF file[g] \in members[g] THEN file[g] ELSE First[g]

\* The records are read and, if some are stale, the lock is taken to remove those.
Boot(p) ==
  /\ p \notin up
  /\ up' = up \cup {p}
  /\ current' = [g \in Group |-> IF g \in Owned(p) THEN Restored(g) ELSE current[g]]
  /\ holder' = [holder EXCEPT ![p] =
       IF Stale(p) = {} THEN Unheld
       ELSE [pc |-> "load", groups |-> Stale(p), value |-> NoTag, map |-> NoRecords]]
  /\ UNCHANGED <<file, members, queued, selected, failed, chosen>>

Booting(p) == holder[p].pc # "free" /\ holder[p].value = NoTag

\* A save of g waits or is under way.
Saving(g) == \/ \E t \in Tag : queued[g][t] > 0
             \/ holder[Owner[g]].pc # "free" /\ g \in holder[Owner[g]].groups

Settled(g) == selected[g] /\ ~failed[g] /\ ~Saving(g)

\* The process stops, with what it has not saved; its configuration may be edited.
StopProc(p) ==
  /\ p \in up
  /\ up' = up \ {p}
  /\ holder' = [holder EXCEPT ![p] = Unheld]
  /\ queued' = [g \in Group |-> IF g \in Owned(p) THEN [t \in Tag |-> 0] ELSE queued[g]]
  /\ chosen' = [g \in Group |-> IF g \notin Owned(p) THEN chosen[g]
                                ELSE IF Settled(g) THEN current[g] ELSE NoTag]
  /\ \E new \in [Group -> SUBSET Tag] :
       /\ \A g \in Group : IF g \in Owned(p) THEN First[g] \in new[g] ELSE new[g] = members[g]
       /\ members' = new
  /\ selected' = [g \in Group |-> IF g \in Owned(p) THEN FALSE ELSE selected[g]]
  /\ failed' = [g \in Group |-> IF g \in Owned(p) THEN FALSE ELSE failed[g]]
  /\ UNCHANGED <<file, current>>

-----------------------------------------------------------------------------
(* select_proxy and its task.                                              *)

Select(g, t) ==
  /\ Owner[g] \in up /\ ~Booting(Owner[g])
  /\ t \in members[g]
  /\ queued[g][t] < MaxTasks
  /\ current' = [current EXCEPT ![g] = t]
  /\ queued' = [queued EXCEPT ![g][t] = @ + 1]
  /\ selected' = [selected EXCEPT ![g] = TRUE]
  /\ failed' = [failed EXCEPT ![g] = FALSE]
  /\ UNCHANGED <<file, members, up, holder, chosen>>

\* The choice is read once the lock is held.
ToSave(g, t) == current[g]

\* save_selector_current gets the lock.
SaveBegin(g, t) ==
  /\ queued[g][t] > 0
  /\ holder[Owner[g]].pc = "free"
  /\ queued' = [queued EXCEPT ![g][t] = @ - 1]
  /\ holder' = [holder EXCEPT ![Owner[g]] =
       [pc |-> "load", groups |-> {g}, value |-> ToSave(g, t), map |-> NoRecords]]
  /\ UNCHANGED <<file, members, up, current, selected, failed, chosen>>

\* The records that are to be: what is in the file, changed for the holder's groups.
Merged(h) == [g \in Group |-> IF g \in h.groups THEN h.value ELSE file[g]]

\* The file is read; nothing is written if nothing is to change.
Load(p) ==
  /\ holder[p].pc = "load"
  /\ holder' = [holder EXCEPT ![p] =
       IF Merged(holder[p]) = file THEN Unheld
       ELSE [pc |-> "write", groups |-> holder[p].groups, value |-> holder[p].value,
             map |-> Merged(holder[p])]]
  /\ UNCHANGED <<file, members, up, current, queued, selected, failed, chosen>>

\* write_selector_choices_locked: the rename.
Write(p) ==
  /\ holder[p].pc = "write"
  /\ file' = holder[p].map
  /\ holder' = [holder EXCEPT ![p] = Unheld]
  /\ UNCHANGED <<members, up, current, queued, selected, failed, chosen>>

\* It does not get that far: a warning.
WriteFails(p) ==
  /\ holder[p].pc = "write"
  /\ holder' = [holder EXCEPT ![p] = Unheld]
  /\ failed' = [g \in Group |-> failed[g] \/ g \in holder[p].groups]
  /\ UNCHANGED <<file, members, up, current, queued, selected, chosen>>

-----------------------------------------------------------------------------
ChoiceNext == \/ \E p \in Proc : Boot(p) \/ StopProc(p) \/ Load(p) \/ Write(p) \/ WriteFails(p)
        \/ \E g \in Group, t \in Tag : Select(g, t) \/ SaveBegin(g, t)

ChoiceSpec == ChoiceInit /\ [][ChoiceNext]_choiceVars

-----------------------------------------------------------------------------
(* Properties.                                                             *)

Records == [Group -> Tag \cup {NoTag}]

ChoiceType ==
  /\ file \in Records /\ chosen \in Records
  /\ members \in [Group -> SUBSET Tag]
  /\ up \subseteq Proc
  /\ current \in [Group -> Tag]
  /\ queued \in [Group -> [Tag -> Nat]]
  /\ holder \in [Proc -> [pc : {"free", "load", "write"}, groups : SUBSET Group,
                          value : Tag \cup {NoTag}, map : Records]]
  /\ selected \in [Group -> BOOLEAN] /\ failed \in [Group -> BOOLEAN]

\* Only members of a group are current in it, whatever the file says of a group whose
\* configuration has changed.
CurrentIsMember == \A g \in Group : Owner[g] \in up => current[g] \in members[g]

\* Once no save is waiting or under way, the file has the last choice, in whatever order
\* the saves of quick choices have run.
ChoiceSaved == \A g \in Group : Settled(g) => file[g] = current[g]

\* A choice that was saved when a process stopped is the choice it starts with, if it is
\* still a member.
ChoiceRestored ==
  [][\A g \in Group :
       /\ Owner[g] \notin up /\ Owner[g] \in up'
       /\ chosen[g] \in members[g]
       => current'[g] = chosen[g]]_choiceVars

\* A write changes the records of the groups it is about and of no other.
OthersKept ==
  [][\A g \in Group : file'[g] # file[g] =>
       \E p \in Proc : Write(p) /\ g \in holder[p].groups]_choiceVars
=============================================================================
