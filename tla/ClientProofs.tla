---------------------------- MODULE ClientProofs ----------------------------
(***************************************************************************)
(* Proofs about what the client keeps for its users: fake addresses (FakeIp),*)
(* choices (SelectorState), the shared QUIC connection (QuicMux), UDP flows*)
(* (ClientUdp), and what a process knows of the network (HostNetwork).     *)
(***************************************************************************)
EXTENDS FakeIp, SelectorState, ClientUdp, QuicMux, HostNetwork, FiniteSetTheorems, TLAPS

-----------------------------------------------------------------------------
(* Fake addresses.                                                         *)

\* No two domains share a slot.
Injective(m) ==
  \A d, e \in Domain : m[d] # None /\ m[d] = m[e] => d = e

\* Every copy of the mapping that may be read back keeps domains apart.
CopiesInjective ==
  /\ Injective(disk.map) /\ Injective(tmp.map)
  /\ \A f \in Flusher : Injective(snapshot[f])

\* The holder of flush_lock is the flusher between its snapshot and its rename, and
\* what it is about to rename is its own snapshot.  A process that is down holds none.
LockHeld ==
  /\ phase = "down" => flush_lock = None
  /\ \A f \in Flusher : fpc[f] \in {"next", "write", "rename"} <=> flush_lock = f
  /\ \A f \in Flusher : fpc[f] = "rename" => tmp.map = snapshot[f]

\* When nothing is dirty and nobody is about to take a snapshot, the current mapping
\* is in the file or in the hands of the one flusher that is writing it.
OnItsWay ==
  Running /\ ~dirty /\ (\A f \in Flusher : fpc[f] # "lock")
    => IF flush_lock = None THEN disk.map = domain_to_ip
       ELSE snapshot[flush_lock] = domain_to_ip

\* The placeholder is neither a name nor an address, and the cursor stays within the range.
LEMMA NoneFacts == /\ None \notin Domain /\ None \notin Slot
                   /\ 0 \in Slot
                   /\ \A s \in Slot : Advance(s) \in Slot
  BY DomainAssumption, CapacityAssumption DEF Slot, Advance

\* An empty mapping has its type.
LEMMA TypeInit == Init => TypeOK
  <1> SUFFICES ASSUME Init PROVE TypeOK
    OBVIOUS
  <1>1. Unassigned \in ForwardMap /\ Free \in [Slot -> Domain \cup {None}]
    BY DEF Unassigned, Free, ForwardMap
  <1>2. NoFile \in File
    BY <1>1, NoneFacts DEF NoFile, File
  <1>3. dirty \in BOOLEAN
    BY DEF Init
  <1> QED BY <1>1, <1>2, <1>3, NoneFacts DEF Init, TypeOK, NoAnswer

\* Every action keeps every variable in its type.
LEMMA TypeStep == TypeOK /\ [Next]_vars => TypeOK'
  <1> SUFFICES ASSUME TypeOK, [Next]_vars PROVE TypeOK'
    OBVIOUS
  <1> USE NoneFacts DEF TypeOK, vars, mapVars, flushVars, queryVars
  <1>0. /\ Unassigned \in ForwardMap /\ Free \in [Slot -> Domain \cup {None}]
        /\ NoFile \in File
    BY DEF Unassigned, Free, ForwardMap, NoFile, File
  <1>1. ASSUME NEW q \in Query, NEW d \in Domain, LookupHit(q, d) PROVE TypeOK'
    BY <1>1 DEF LookupHit, ForwardMap
  <1>2. ASSUME NEW q \in Query, NEW d \in Domain, LookupAssign(q, d) PROVE TypeOK'
    <2>1. domain_to_ip' \in ForwardMap
      BY <1>2 DEF LookupAssign, Forward, ForwardMap
    <2>2. dirty' \in BOOLEAN
      BY <1>2 DEF LookupAssign
    <2> QED BY <1>2, <2>1, <2>2 DEF LookupAssign
  <1>3. ASSUME NEW q \in Query, XdpRemove(q) PROVE TypeOK'
    BY <1>3 DEF XdpRemove, Without, ForwardMap
  <1>4. ASSUME NEW q \in Query, XdpUpdate(q) PROVE TypeOK'
    <2>1. xdp' \in ForwardMap
      BY <1>4 DEF XdpUpdate, Without, ForwardMap
    <2> QED BY <1>4, <2>1 DEF XdpUpdate, NoAnswer
  <1>5. CASE XdpClear BY <1>0, <1>5 DEF XdpClear
  <1>6. ASSUME NEW f \in Flusher, FlushClean(f) PROVE TypeOK'
    BY <1>6 DEF FlushClean, Returned
  <1>7. ASSUME NEW f \in Flusher, FlushDirty(f) PROVE TypeOK'
    <2>1. dirty' \in BOOLEAN BY <1>7 DEF FlushDirty
    <2> QED BY <1>7, <2>1 DEF FlushDirty
  <1>8. ASSUME NEW f \in Flusher, FlushSnapshot(f) PROVE TypeOK'
    BY <1>8 DEF FlushSnapshot
  <1>9. ASSUME NEW f \in Flusher, FlushNext(f) PROVE TypeOK'
    BY <1>9 DEF FlushNext
  <1>10. ASSUME NEW f \in Flusher, FlushWrite(f) PROVE TypeOK'
    BY <1>10 DEF FlushWrite, File
  <1>11. ASSUME NEW f \in Flusher, FlushRename(f) PROVE TypeOK'
    BY <1>0, <1>11 DEF FlushRename, Returned
  <1>12. ASSUME NEW f \in Flusher, FlushFail(f) PROVE TypeOK'
    <2>1. dirty' \in BOOLEAN BY <1>12 DEF FlushFail, Retry
    <2> QED BY <1>0, <1>12, <2>1 DEF FlushFail, Returned
  <1>13. CASE SigTerm BY <1>13 DEF SigTerm
  <1>14. ASSUME Stop PROVE TypeOK'
    <2>1. dirty' \in BOOLEAN BY <1>14 DEF Stop
    <2> QED BY <1>0, <1>14, <2>1 DEF Stop, NoAnswer
  <1>15. CASE Exit BY <1>14, <1>15 DEF Exit
  <1>16. CASE Crash BY <1>14, <1>16 DEF Crash
  <1>17. CASE Restart
    <2>1. ip_to_domain' \in [Slot -> Domain \cup {None}]
      BY <1>17 DEF Restart
    <2> QED BY <1>0, <1>17, <2>1 DEF Restart, File
  <1>18. CASE UNCHANGED vars BY <1>18
  <1> QED
    BY <1>1, <1>2, <1>3, <1>4, <1>5, <1>6, <1>7, <1>8, <1>9, <1>10, <1>11, <1>12,
       <1>13, <1>15, <1>16, <1>17, <1>18 DEF Next, Resolve, Flush

\* The steps that touch neither map of the mapper.
LEMMA MapUntouched ==
  ASSUME [Next]_vars,
         \A q \in Query, d \in Domain : ~LookupAssign(q, d),
         ~Exit, ~Crash, ~Restart
  PROVE  UNCHANGED <<next_ip, domain_to_ip, ip_to_domain>>
  BY DEF Next, Resolve, Flush, vars, mapVars, LookupHit, XdpRemove, XdpUpdate, XdpClear,
         FlushClean, FlushDirty, FlushSnapshot, FlushNext, FlushWrite, FlushRename,
         FlushFail, SigTerm

\* An empty mapping is a bijection between nothing and nothing.
LEMMA EmptyBijective ==
  ASSUME domain_to_ip' = Unassigned, ip_to_domain' = Free
  PROVE  MapsPaired'
  BY NoneFacts DEF MapsPaired, Unassigned, Free

\* The two maps stay inverse to each other.
LEMMA BijectionStep ==
  TypeOK /\ CopiesInjective /\ MapsPaired /\ [Next]_vars => MapsPaired'
  <1> SUFFICES ASSUME TypeOK, CopiesInjective, MapsPaired, [Next]_vars PROVE MapsPaired'
    OBVIOUS
  <1>1. ASSUME NEW q \in Query, NEW d \in Domain, LookupAssign(q, d) PROVE MapsPaired'
    <2> SUFFICES ASSUME NEW e \in Domain, NEW s \in Slot
                 PROVE  domain_to_ip'[e] = s <=> ip_to_domain'[s] = e
      BY DEF MapsPaired
    <2>1. /\ domain_to_ip'[e] = IF e = d THEN next_ip
                                ELSE IF e = ip_to_domain[next_ip] THEN None
                                ELSE domain_to_ip[e]
          /\ ip_to_domain'[s] = IF s = next_ip THEN d ELSE ip_to_domain[s]
      BY <1>1 DEF LookupAssign, Forward, TypeOK
    <2>2. domain_to_ip[e] = s <=> ip_to_domain[s] = e
      BY DEF MapsPaired
    <2>3. domain_to_ip[e] = next_ip <=> ip_to_domain[next_ip] = e
      BY DEF MapsPaired, TypeOK
    <2>4. domain_to_ip[d] = None
      BY <1>1 DEF LookupAssign
    <2>5. domain_to_ip[d] = s <=> ip_to_domain[s] = d
      BY DEF MapsPaired
    <2> QED BY <2>1, <2>2, <2>3, <2>4, <2>5, NoneFacts DEF TypeOK
  <1>2. CASE Exit BY <1>2, EmptyBijective DEF Exit, Stop
  <1>3. CASE Crash BY <1>3, EmptyBijective DEF Crash, Stop
  <1>4. CASE Restart
    <2> SUFFICES ASSUME NEW e \in Domain, NEW s \in Slot
                 PROVE  domain_to_ip'[e] = s <=> ip_to_domain'[s] = e
      BY DEF MapsPaired
    <2> DEFINE HasSlot == CHOOSE d \in Domain : disk.map[d] = s
    <2>1. /\ domain_to_ip' = disk.map
          /\ ip_to_domain'[s] = IF \E d \in Domain : disk.map[d] = s THEN HasSlot ELSE None
      BY <1>4 DEF Restart
    <2>2. CASE \E d \in Domain : disk.map[d] = s
      <3>1. HasSlot \in Domain /\ disk.map[HasSlot] = s
        BY <2>2
      <3>2. disk.map[e] = s => e = HasSlot
        BY <3>1, NoneFacts DEF CopiesInjective, Injective
      <3> QED BY <2>1, <2>2, <3>1, <3>2
    <2>3. CASE ~\E d \in Domain : disk.map[d] = s
      BY <2>1, <2>3, NoneFacts
    <2> QED BY <2>2, <2>3
  <1>5. CASE UNCHANGED <<next_ip, domain_to_ip, ip_to_domain>>
    BY <1>5 DEF MapsPaired
  <1> QED BY <1>1, <1>2, <1>3, <1>4, <1>5, MapUntouched

\* A bijection has an injective forward map.
LEMMA BijectionInjective == TypeOK /\ MapsPaired => Injective(domain_to_ip)
  BY DEF TypeOK, ForwardMap, MapsPaired, Injective

\* Snapshots are taken of an injective map and only copied from there.
LEMMA CopiesStep ==
  TypeOK /\ MapsPaired /\ CopiesInjective /\ [Next]_vars => CopiesInjective'
  <1> SUFFICES ASSUME TypeOK, MapsPaired, CopiesInjective, [Next]_vars
               PROVE  CopiesInjective'
    OBVIOUS
  <1>1. Injective(domain_to_ip) /\ Injective(Unassigned)
    BY BijectionInjective DEF Injective, Unassigned
  <1>2. Injective(NoFile.map)
    BY <1>1 DEF NoFile
  <1> USE DEF CopiesInjective, TypeOK, vars, mapVars, flushVars, queryVars
  <1>3. ASSUME NEW f \in Flusher, FlushSnapshot(f) PROVE CopiesInjective'
    BY <1>1, <1>3 DEF FlushSnapshot
  <1>4. ASSUME NEW f \in Flusher, FlushWrite(f) PROVE CopiesInjective'
    BY <1>4 DEF FlushWrite
  <1>5. ASSUME NEW f \in Flusher, FlushRename(f) PROVE CopiesInjective'
    BY <1>1, <1>2, <1>5 DEF FlushRename
  <1>6. ASSUME NEW f \in Flusher, FlushFail(f) PROVE CopiesInjective'
    BY <1>1, <1>2, <1>6 DEF FlushFail
  <1>7. CASE Exit BY <1>1, <1>2, <1>7 DEF Exit, Stop
  <1>8. CASE Crash BY <1>1, <1>2, <1>8 DEF Crash, Stop
  <1>9. CASE UNCHANGED <<disk, tmp, snapshot>>
    BY <1>9
  <1>10. \/ UNCHANGED <<disk, tmp, snapshot>> \/ Exit \/ Crash
         \/ \E f \in Flusher : \/ FlushSnapshot(f) \/ FlushWrite(f)
                               \/ FlushRename(f) \/ FlushFail(f)
    BY DEF Next, Resolve, Flush, LookupHit, LookupAssign, XdpRemove, XdpUpdate,
           XdpClear, FlushClean, FlushDirty, FlushNext, SigTerm, Restart
  <1> QED BY <1>3, <1>4, <1>5, <1>6, <1>7, <1>8, <1>9, <1>10

\* The lock is held exactly from the snapshot to the rename.
LEMMA LockStep == TypeOK /\ LockHeld /\ [Next]_vars => LockHeld'
  <1> SUFFICES ASSUME TypeOK, LockHeld, [Next]_vars PROVE LockHeld'
    OBVIOUS
  <1>0. None \notin Flusher
    BY DomainAssumption DEF Flusher
  <1> USE <1>0 DEF LockHeld, TypeOK, Running, vars, mapVars, flushVars, queryVars
  <1>1. ASSUME NEW f \in Flusher, FlushClean(f) PROVE LockHeld'
    BY <1>1 DEF FlushClean, Returned
  <1>2. ASSUME NEW f \in Flusher, FlushDirty(f) PROVE LockHeld'
    BY <1>2 DEF FlushDirty
  <1>3. ASSUME NEW f \in Flusher, FlushSnapshot(f) PROVE LockHeld'
    BY <1>3 DEF FlushSnapshot, LockFree
  <1>4. ASSUME NEW f \in Flusher, FlushNext(f) PROVE LockHeld'
    BY <1>4 DEF FlushNext
  <1>5. ASSUME NEW f \in Flusher, FlushWrite(f) PROVE LockHeld'
    BY <1>5 DEF FlushWrite
  <1>6. ASSUME NEW f \in Flusher, FlushRename(f) PROVE LockHeld'
    BY <1>6 DEF FlushRename, Returned
  <1>7. ASSUME NEW f \in Flusher, FlushFail(f) PROVE LockHeld'
    BY <1>7 DEF FlushFail, Returned
  <1>8. CASE Exit BY <1>8 DEF Exit, Stop
  <1>9. CASE Crash BY <1>9 DEF Crash, Stop
  <1>10. CASE SigTerm BY <1>10 DEF SigTerm
  <1>11. CASE Restart BY <1>11 DEF Restart
  <1>12. CASE UNCHANGED <<flush_lock, fpc, tmp, snapshot, phase>>
    BY <1>12
  <1>13. \/ UNCHANGED <<flush_lock, fpc, tmp, snapshot, phase>>
         \/ SigTerm \/ Exit \/ Crash \/ Restart
         \/ \E f \in Flusher : Flush(f)
    BY DEF Next, Resolve, LookupHit, LookupAssign, XdpRemove, XdpUpdate, XdpClear
  <1> QED
    BY <1>1, <1>2, <1>3, <1>4, <1>5, <1>6, <1>7, <1>8, <1>9, <1>10, <1>11, <1>12,
       <1>13 DEF Flush

\* The current mapping stays in the file or on its way there.
LEMMA OnItsWayStep ==
  TypeOK /\ LockHeld /\ OnItsWay /\ [Next]_vars => OnItsWay'
  <1> SUFFICES ASSUME TypeOK, LockHeld, OnItsWay, [Next]_vars PROVE OnItsWay'
    OBVIOUS
  <1>0. None \notin Flusher
    BY DomainAssumption DEF Flusher
  <1> USE <1>0 DEF LockHeld, OnItsWay, TypeOK, Running, vars, mapVars, flushVars,
                   queryVars
  <1>1. ASSUME NEW q \in Query, NEW d \in Domain, LookupAssign(q, d) PROVE OnItsWay'
    BY <1>1 DEF LookupAssign
  <1>2. ASSUME NEW f \in Flusher, FlushClean(f) PROVE OnItsWay'
    BY <1>2 DEF FlushClean, Returned
  <1>3. ASSUME NEW f \in Flusher, FlushDirty(f) PROVE OnItsWay'
    BY <1>3 DEF FlushDirty
  <1>4. ASSUME NEW f \in Flusher, FlushSnapshot(f) PROVE OnItsWay'
    BY <1>4 DEF FlushSnapshot, LockFree
  <1>5. ASSUME NEW f \in Flusher, FlushNext(f) PROVE OnItsWay'
    BY <1>5 DEF FlushNext
  <1>6. ASSUME NEW f \in Flusher, FlushWrite(f) PROVE OnItsWay'
    BY <1>6 DEF FlushWrite
  <1>7. ASSUME NEW f \in Flusher, FlushRename(f) PROVE OnItsWay'
    BY <1>7 DEF FlushRename, Returned
  <1>8. ASSUME NEW f \in Flusher, FlushFail(f) PROVE OnItsWay'
    BY <1>8 DEF FlushFail, Retry
  <1>9. CASE Exit BY <1>9 DEF Exit, Stop
  <1>10. CASE Crash BY <1>10 DEF Crash, Stop
  <1>11. CASE Restart
    <2>1. disk'.map = domain_to_ip' /\ flush_lock' = None
      BY <1>11 DEF Restart
    <2> QED BY <2>1
  <1>12. CASE SigTerm BY <1>12 DEF SigTerm
  <1>13. CASE UNCHANGED <<domain_to_ip, dirty, flush_lock, fpc, snapshot, disk, phase>>
    BY <1>13
  <1>14. \/ UNCHANGED <<domain_to_ip, dirty, flush_lock, fpc, snapshot, disk, phase>>
         \/ SigTerm \/ Exit \/ Crash \/ Restart
         \/ \E f \in Flusher : Flush(f)
         \/ \E q \in Query, d \in Domain : LookupAssign(q, d)
    BY DEF Next, Resolve, LookupHit, XdpRemove, XdpUpdate, XdpClear
  <1> QED
    BY <1>1, <1>2, <1>3, <1>4, <1>5, <1>6, <1>7, <1>8, <1>9, <1>10, <1>11, <1>12,
       <1>13, <1>14 DEF Flush

\* The inductive invariant.
FakeIpInv == TypeOK /\ MapsPaired /\ CopiesInjective /\ LockHeld /\ OnItsWay

\* Nothing is mapped, dirty or on its way at the start.
LEMMA FakeIpInvInit == Init => FakeIpInv
  <1> SUFFICES ASSUME Init PROVE FakeIpInv
    OBVIOUS
  <1>1. TypeOK BY TypeInit
  <1>2. MapsPaired
    BY NoneFacts DEF Init, MapsPaired, Unassigned, Free
  <1>3. Injective(Unassigned) /\ NoFile.map = Unassigned
    BY DEF Injective, Unassigned, NoFile
  <1>4. CopiesInjective
    BY <1>3 DEF Init, CopiesInjective
  <1>5. LockHeld
    BY DomainAssumption DEF Init, LockHeld, Flusher
  <1>6. OnItsWay
    BY <1>3 DEF Init, OnItsWay
  <1> QED BY <1>1, <1>2, <1>4, <1>5, <1>6 DEF FakeIpInv

\* The invariant is inductive.
LEMMA FakeIpInvStep == FakeIpInv /\ [Next]_vars => FakeIpInv'
  BY TypeStep, BijectionStep, CopiesStep, LockStep, OnItsWayStep DEF FakeIpInv

\* Every reachable state satisfies the inductive invariant.
THEOREM FakeIpInvariance == Spec => []FakeIpInv
  BY FakeIpInvInit, FakeIpInvStep, PTL DEF Spec

\* next_ip and every address handed out, stored or pushed to the kernel stay inside
\* the range, across wrap-around and restarts.
THEOREM FakeIpTypeCorrect == Spec => []TypeOK
  <1>1. FakeIpInv => TypeOK BY DEF FakeIpInv
  <1> QED BY FakeIpInvariance, <1>1, PTL

\* domain_to_ip and ip_to_domain are inverse in every reachable state: an address
\* never leads to a domain other than the one it was answered for most recently.
THEOREM MapsInverse == Spec => []MapsPaired
  <1>1. FakeIpInv => MapsPaired BY DEF FakeIpInv
  <1> QED BY FakeIpInvariance, <1>1, PTL

\* No interleaving of the two flushers, of assignments and of disk failures loses an
\* assignment for good: once nothing is dirty or in progress, it is in the file.
THEOREM FlushLosesNothing == Spec => []NothingLost
  <1>1. FakeIpInv => NothingLost
    BY DomainAssumption
       DEF FakeIpInv, TypeOK, LockHeld, OnItsWay, NothingLost, Flusher
  <1> QED BY FakeIpInvariance, <1>1, PTL

-----------------------------------------------------------------------------
(* Choices in selector groups.                                             *)

\* One process has all the groups.
OneOwner == \A g, h \in Group : Owner[g] = Owner[h]

\* The steps, sorted by whom they are of.
LEMMA ChoiceCases ==
  ASSUME [ChoiceNext]_choiceVars
  PROVE  \/ UNCHANGED choiceVars
         \/ \E p \in Proc : Boot(p) \/ StopProc(p) \/ Load(p) \/ Write(p) \/ WriteFails(p)
         \/ \E g \in Group, t \in Tag : Select(g, t) \/ SaveBegin(g, t)
  BY DEF ChoiceNext

-----------------------------------------------------------------------------
HolderType == [pc : {"free", "load", "write"}, groups : SUBSET Group,
               value : Tag \cup {NoTag}, map : Records]

\* Whoever holds no lock has a record of the type.
LEMMA FreeType == Unheld \in HolderType
  BY DEF Unheld, HolderType, NoRecords, Records

\* What a save makes of the file it has loaded are records.
LEMMA MergedType ==
  ASSUME ChoiceType, NEW p \in Proc PROVE Merged(holder[p]) \in Records
  BY DEF ChoiceType, Merged, Records

\* The state keeps its types.
THEOREM ChoiceTypeCorrect == ChoiceSpec => []ChoiceType
  <1>1. ChoiceInit => ChoiceType
    BY FreeType, TagAssumption DEF ChoiceInit, ChoiceType, Records, NoRecords, HolderType
  <1>2. ChoiceType /\ [ChoiceNext]_choiceVars => ChoiceType'
    <2> SUFFICES ASSUME ChoiceType, [ChoiceNext]_choiceVars PROVE ChoiceType'
      OBVIOUS
    <2> USE TagAssumption DEF ChoiceType
    <2>1. CASE UNCHANGED choiceVars
      BY <2>1 DEF choiceVars
    <2>2. ASSUME NEW p \in Proc, Boot(p) PROVE ChoiceType'
      <3>1. [pc |-> "load", groups |-> Stale(p), value |-> NoTag, map |-> NoRecords]
              \in HolderType
        BY DEF HolderType, Stale, Owned, Records, NoRecords
      <3>2. holder' \in [Proc -> HolderType]
        BY <2>2, <3>1, FreeType DEF Boot, HolderType
      <3>3. current' \in [Group -> Tag]
        BY <2>2 DEF Boot, Restored
      <3> QED BY <2>2, <3>2, <3>3 DEF Boot, HolderType
    <2>3. ASSUME NEW p \in Proc, StopProc(p) PROVE ChoiceType'
      <3>1. holder' \in [Proc -> HolderType]
        BY <2>3, FreeType DEF StopProc, HolderType
      <3>2. members' \in [Group -> SUBSET Tag]
        BY <2>3 DEF StopProc
      <3>3. queued' \in [Group -> [Tag -> Nat]]
        BY <2>3 DEF StopProc
      <3>4. chosen' \in Records
        BY <2>3 DEF StopProc, Records
      <3>5. selected' \in [Group -> BOOLEAN] /\ failed' \in [Group -> BOOLEAN]
        BY <2>3 DEF StopProc
      <3> QED BY <2>3, <3>1, <3>2, <3>3, <3>4, <3>5 DEF StopProc, HolderType
    <2>4. ASSUME NEW p \in Proc, Load(p) PROVE ChoiceType'
      <3>1. [pc |-> "write", groups |-> holder[p].groups, value |-> holder[p].value,
             map |-> Merged(holder[p])] \in HolderType
        BY MergedType DEF HolderType
      <3>2. holder' \in [Proc -> HolderType]
        BY <2>4, <3>1, FreeType DEF Load, HolderType
      <3> QED BY <2>4, <3>2 DEF Load, HolderType
    <2>5. ASSUME NEW p \in Proc, Write(p) PROVE ChoiceType'
      <3>1. holder' \in [Proc -> HolderType]
        BY <2>5, FreeType DEF Write, HolderType
      <3> QED BY <2>5, <3>1 DEF Write, HolderType
    <2>6. ASSUME NEW p \in Proc, WriteFails(p) PROVE ChoiceType'
      <3>1. holder' \in [Proc -> HolderType]
        BY <2>6, FreeType DEF WriteFails, HolderType
      <3>2. failed' \in [Group -> BOOLEAN]
        BY <2>6 DEF WriteFails
      <3> QED BY <2>6, <3>1, <3>2 DEF WriteFails, HolderType
    <2>7. ASSUME NEW g \in Group, NEW t \in Tag, Select(g, t) PROVE ChoiceType'
      BY <2>7 DEF Select
    <2>8. ASSUME NEW g \in Group, NEW t \in Tag, SaveBegin(g, t) PROVE ChoiceType'
      <3>1. [pc |-> "load", groups |-> {g}, value |-> current[g], map |-> NoRecords]
              \in HolderType
        BY DEF HolderType, Records, NoRecords
      <3>2. holder' \in [Proc -> HolderType]
        BY <2>8, <3>1 DEF SaveBegin, HolderType, ToSave
      <3>3. queued' \in [Group -> [Tag -> Nat]]
        BY <2>8 DEF SaveBegin
      <3> QED BY <2>8, <3>2, <3>3 DEF SaveBegin, HolderType
    <2> QED BY <2>1, <2>2, <2>3, <2>4, <2>5, <2>6, <2>7, <2>8, ChoiceCases
  <1> QED BY <1>1, <1>2, PTL DEF ChoiceSpec

-----------------------------------------------------------------------------
(* The members that may be current.                                        *)

MembersKept == /\ CurrentIsMember
               /\ \A g \in Group : First[g] \in members[g]

\* What is current in a group is a member of it.
THEOREM CurrentStaysMember == ChoiceSpec => []CurrentIsMember
  <1>1. ChoiceInit => MembersKept
    BY TagAssumption DEF ChoiceInit, MembersKept, CurrentIsMember
  <1>2. ChoiceType /\ MembersKept /\ [ChoiceNext]_choiceVars => MembersKept'
    <2> SUFFICES ASSUME ChoiceType, MembersKept, [ChoiceNext]_choiceVars PROVE MembersKept'
      OBVIOUS
    <2> USE DEF MembersKept, CurrentIsMember, ChoiceType
    <2>1. CASE UNCHANGED <<members, up, current>>
      BY <2>1
    <2>2. ASSUME NEW p \in Proc, Boot(p) PROVE MembersKept'
      BY <2>2 DEF Boot, Restored, Owned
    <2>3. ASSUME NEW p \in Proc, StopProc(p) PROVE MembersKept'
      <3>1. \A g \in Group : IF g \in Owned(p) THEN First[g] \in members'[g]
                             ELSE members'[g] = members[g]
        BY <2>3 DEF StopProc
      <3>2. up' = up \ {p} /\ current' = current
        BY <2>3 DEF StopProc
      <3> QED BY <3>1, <3>2 DEF Owned
    <2>4. ASSUME NEW g \in Group, NEW t \in Tag, Select(g, t) PROVE MembersKept'
      BY <2>4 DEF Select
    <2>5. \/ UNCHANGED <<members, up, current>>
          \/ \E p \in Proc : Boot(p) \/ StopProc(p)
          \/ \E g \in Group, t \in Tag : Select(g, t)
      BY ChoiceCases DEF choiceVars, Load, Write, WriteFails, SaveBegin
    <2> QED BY <2>1, <2>2, <2>3, <2>4, <2>5
  <1> QED BY <1>1, <1>2, ChoiceTypeCorrect, PTL DEF ChoiceSpec, MembersKept

-----------------------------------------------------------------------------
(* The lock and the saves.                                                 *)

\* The lock is held for groups of the process, and a process that is down has no saves.
HolderOwns ==
  /\ \A g \in Group, t \in Tag : queued[g][t] > 0 => Owner[g] \in up
  /\ \A p \in Proc : holder[p].pc # "free" =>
       /\ p \in up
       /\ holder[p].groups # {} /\ \A g \in holder[p].groups : Owner[g] = p

\* What is about to be written is the file with the holder's groups changed.
MapFresh == \A p \in Proc : holder[p].pc = "write" => holder[p].map = Merged(holder[p])

Waits(g) == \E t \in Tag : queued[g][t] > 0
Holds(g) == holder[Owner[g]].pc # "free" /\ g \in holder[Owner[g]].groups

\* A choice that the file does not have is going to be saved, and what is being saved in
\* its place is not the last thing to be.
SaveDueAt(g) ==
  /\ Owner[g] \in up
  /\ Holds(g) /\ holder[Owner[g]].value # current[g] => Waits(g)
  /\ ~failed[g] /\ file[g] # current[g] => Waits(g) \/ Holds(g)
SaveDue == \A g \in Group : selected[g] => SaveDueAt(g)

\* What was saved when the process stopped stays in the file while it is down.
StillSaved == \A g \in Group : Owner[g] \notin up /\ chosen[g] # NoTag => file[g] = chosen[g]

ChoiceInv == HolderOwns /\ MapFresh /\ SaveDue /\ StillSaved

\* Where every group has one owner, two processes are never in a save at once.
LEMMA OneHolder ==
  ASSUME OneOwner, ChoiceType, HolderOwns, NEW p \in Proc, NEW q \in Proc,
         holder[p].pc # "free", holder[q].pc # "free"
  PROVE  p = q
  <1>1. PICK g \in holder[p].groups : Owner[g] = p
    BY DEF HolderOwns
  <1>2. PICK h \in holder[q].groups : Owner[h] = q
    BY DEF HolderOwns
  <1>3. g \in Group /\ h \in Group
    BY DEF ChoiceType
  <1> QED BY <1>1, <1>2, <1>3 DEF OneOwner

\* A save is of groups of its own process: from its beginning to its rename.
LEMMA HolderOwnsStep == ChoiceType /\ HolderOwns /\ [ChoiceNext]_choiceVars => HolderOwns'
  <1> SUFFICES ASSUME ChoiceType, HolderOwns, [ChoiceNext]_choiceVars PROVE HolderOwns'
    OBVIOUS
  <1> USE DEF HolderOwns, ChoiceType, Unheld
  <1>1. CASE UNCHANGED choiceVars
    BY <1>1 DEF choiceVars
  <1>2. ASSUME NEW p \in Proc, Boot(p) PROVE HolderOwns'
    BY <1>2 DEF Boot, Stale, Owned
  <1>3. ASSUME NEW p \in Proc, StopProc(p) PROVE HolderOwns'
    <2>1. /\ up' = up \ {p} /\ holder' = [holder EXCEPT ![p] = Unheld]
          /\ \A g \in Group : IF Owner[g] = p THEN \A t \in Tag : queued'[g][t] = 0
                              ELSE queued'[g] = queued[g]
      BY <1>3 DEF StopProc, Owned
    <2> QED BY <2>1
  <1>4. ASSUME NEW p \in Proc, Load(p) \/ Write(p) \/ WriteFails(p) PROVE HolderOwns'
    BY <1>4 DEF Load, Write, WriteFails
  <1>5. ASSUME NEW g \in Group, NEW t \in Tag, Select(g, t) PROVE HolderOwns'
    BY <1>5 DEF Select
  <1>6. ASSUME NEW g \in Group, NEW t \in Tag, SaveBegin(g, t) PROVE HolderOwns'
    <2>1. /\ up' = up /\ Owner[g] \in up
          /\ \A h \in Group, u \in Tag : queued'[h][u] > 0 => queued[h][u] > 0
      BY <1>6 DEF SaveBegin
    <2>2. \A p \in Proc : holder'[p] = IF p = Owner[g]
            THEN [pc |-> "load", groups |-> {g}, value |-> current[g], map |-> NoRecords]
            ELSE holder[p]
      BY <1>6, TagAssumption DEF SaveBegin, ToSave
    <2>3. ASSUME NEW p \in Proc, holder'[p].pc # "free"
          PROVE  /\ p \in up' /\ holder'[p].groups # {}
                 /\ \A h \in holder'[p].groups : Owner[h] = p
      <3>1. CASE p = Owner[g]
        <4>1. holder'[p].groups = {g}
          BY <2>2, <3>1
        <4> QED BY <2>1, <3>1, <4>1
      <3>2. CASE p # Owner[g]
        BY <2>1, <2>2, <2>3, <3>2
      <3> QED BY <3>1, <3>2
    <2>4. \A h \in Group, u \in Tag : queued'[h][u] > 0 => Owner[h] \in up'
      BY <2>1
    <2> QED BY <2>3, <2>4
  <1> QED BY <1>1, <1>2, <1>3, <1>4, <1>5, <1>6, ChoiceCases

\* Between loading and renaming nobody else writes the file.
LEMMA MapFreshStep ==
  ASSUME OneOwner, ChoiceType, HolderOwns, MapFresh, [ChoiceNext]_choiceVars PROVE MapFresh'
  <1> USE DEF MapFresh, ChoiceType, Unheld, Merged
  <1>1. CASE UNCHANGED <<file, holder>>
    BY <1>1
  <1>2. ASSUME NEW p \in Proc, Boot(p) \/ StopProc(p) \/ WriteFails(p) PROVE MapFresh'
    <2>1. CASE Boot(p)
      BY <2>1 DEF Boot
    <2>2. CASE StopProc(p)
      BY <2>2 DEF StopProc
    <2>3. CASE WriteFails(p)
      BY <2>3 DEF WriteFails
    <2> QED BY <1>2, <2>1, <2>2, <2>3
  <1>5. ASSUME NEW p \in Proc, Load(p) PROVE MapFresh'
    <2>1. /\ file' = file
          /\ \A q \in Proc : q # p => holder'[q] = holder[q]
          /\ holder'[p].pc = "write" =>
               /\ holder'[p].groups = holder[p].groups /\ holder'[p].value = holder[p].value
               /\ holder'[p].map = Merged(holder[p])
      BY <1>5 DEF Load
    <2>2. ASSUME NEW q \in Proc, holder'[q].pc = "write"
          PROVE  holder'[q].map = [g \in Group |-> IF g \in holder'[q].groups
                                                  THEN holder'[q].value ELSE file'[g]]
      <3>1. CASE q = p
        BY <2>1, <2>2, <3>1
      <3>2. CASE q # p
        BY <2>1, <2>2, <3>2
      <3> QED BY <3>1, <3>2
    <2> QED BY <2>2
  <1>3. ASSUME NEW p \in Proc, Write(p) PROVE MapFresh'
    <2>1. \A q \in Proc : q # p => holder[q].pc = "free"
      BY <1>3, OneHolder DEF Write
    <2> QED BY <1>3, <2>1 DEF Write
  <1>4. ASSUME NEW g \in Group, NEW t \in Tag, SaveBegin(g, t) PROVE MapFresh'
    BY <1>4 DEF SaveBegin
  <1> QED BY <1>1, <1>2, <1>3, <1>4, <1>5, ChoiceCases DEF choiceVars, Select

\* A choice that the file does not have is going to be saved, as the last of its group.
LEMMA SaveDueStep ==
  ASSUME OneOwner, ChoiceType, HolderOwns, MapFresh, SaveDue, [ChoiceNext]_choiceVars PROVE SaveDue'
  <1> USE TagAssumption DEF ChoiceType, Unheld
  <1> SUFFICES ASSUME NEW g \in Group, selected'[g] PROVE SaveDueAt(g)'
    BY DEF SaveDue
  <1>0. selected[g] => SaveDueAt(g)
    BY DEF SaveDue
  <1> USE DEF SaveDueAt
  <1>1. CASE UNCHANGED choiceVars
    BY <1>0, <1>1 DEF choiceVars, Holds, Waits
  <1>2. ASSUME NEW p \in Proc, Boot(p) PROVE SaveDueAt(g)'
    <2>1. Owner[g] # p /\ selected[g]
      BY <1>0, <1>2 DEF Boot
    <2>2. /\ current'[g] = current[g] /\ up' = up \cup {p} /\ UNCHANGED <<file, queued, failed>>
          /\ holder'[Owner[g]] = holder[Owner[g]]
      BY <1>2, <2>1 DEF Boot, Owned
    <2> QED BY <1>0, <2>1, <2>2 DEF Holds, Waits
  <1>3. ASSUME NEW p \in Proc, StopProc(p) PROVE SaveDueAt(g)'
    <2>1. Owner[g] # p /\ selected[g]
      BY <1>3 DEF StopProc, Owned
    <2>2. /\ UNCHANGED <<file, current>> /\ up' = up \ {p}
          /\ failed'[g] = failed[g] /\ queued'[g] = queued[g]
          /\ holder'[Owner[g]] = holder[Owner[g]]
      BY <1>3, <2>1 DEF StopProc, Owned
    <2> QED BY <1>0, <2>1, <2>2 DEF Holds, Waits
  <1>4. ASSUME NEW p \in Proc, Load(p) PROVE SaveDueAt(g)'
    <2>1. UNCHANGED <<file, members, up, current, queued, selected, failed, chosen>>
      BY <1>4 DEF Load
    <2>2. CASE Owner[g] # p
      <3>1. holder'[Owner[g]] = holder[Owner[g]]
        BY <1>4, <2>2 DEF Load
      <3> QED BY <1>0, <2>1, <3>1 DEF Holds, Waits
    <2>3. CASE Owner[g] = p /\ Merged(holder[p]) = file
      <3>1. holder'[p] = Unheld
        BY <1>4, <2>3 DEF Load
      <3>2. Holds(g) => file[g] = holder[p].value
        BY <2>3 DEF Holds, Merged
      <3>3. ~failed[g] /\ file[g] # current[g] => Waits(g)
        BY <1>0, <2>1, <2>3, <3>2
      <3>4. ~Holds(g)' /\ Waits(g)' = Waits(g)
        BY <2>1, <2>3, <3>1 DEF Holds, Waits
      <3> QED BY <1>0, <2>1, <3>3, <3>4
    <2>4. CASE Owner[g] = p /\ Merged(holder[p]) # file
      <3>1. /\ holder'[p].pc = "write" /\ holder'[p].groups = holder[p].groups
            /\ holder'[p].value = holder[p].value
        BY <1>4, <2>4 DEF Load
      <3>2. Holds(g)' = Holds(g) /\ Waits(g)' = Waits(g)
        BY <1>4, <2>1, <2>4, <3>1 DEF Holds, Waits, Load
      <3> QED BY <1>0, <2>1, <2>4, <3>1, <3>2
    <2> QED BY <2>2, <2>3, <2>4
  <1>5. ASSUME NEW p \in Proc, Write(p) PROVE SaveDueAt(g)'
    <2>1. /\ UNCHANGED <<members, up, current, queued, selected, failed, chosen>>
          /\ file' = Merged(holder[p])
          /\ \A q \in Proc : holder'[q] = IF q = p THEN Unheld ELSE holder[q]
      BY <1>5 DEF Write, MapFresh
    <2>2. CASE g \in holder[p].groups
      <3>1. Owner[g] = p /\ Holds(g) /\ file'[g] = holder[p].value
        BY <1>5, <2>1, <2>2 DEF HolderOwns, Holds, Write, Merged
      <3>2. ~Holds(g)' /\ Waits(g)' = Waits(g)
        BY <2>1, <3>1 DEF Holds, Waits
      <3> QED BY <1>0, <2>1, <3>1, <3>2
    <2>3. CASE g \notin holder[p].groups
      <3>1. file'[g] = file[g]
        BY <2>1, <2>3 DEF Merged
      <3>2. Holds(g)' = Holds(g) /\ Waits(g)' = Waits(g)
        BY <2>1, <2>3 DEF Holds, Waits
      <3>3. Holds(g) => holder'[Owner[g]] = holder[Owner[g]]
        BY <2>1, <2>3 DEF Holds
      <3> QED BY <1>0, <2>1, <3>1, <3>2, <3>3
    <2> QED BY <2>2, <2>3
  <1>6. ASSUME NEW p \in Proc, WriteFails(p) PROVE SaveDueAt(g)'
    <2>1. /\ UNCHANGED <<file, members, up, current, queued, selected, chosen>>
          /\ failed'[g] = (failed[g] \/ g \in holder[p].groups)
          /\ \A q \in Proc : holder'[q] = IF q = p THEN Unheld ELSE holder[q]
      BY <1>6 DEF WriteFails
    <2>2. CASE g \in holder[p].groups
      <3>1. failed'[g] /\ Owner[g] = p
        BY <1>6, <2>1, <2>2 DEF HolderOwns, WriteFails
      <3> QED BY <1>0, <2>1, <3>1 DEF Holds
    <2>3. CASE g \notin holder[p].groups
      <3>1. Holds(g)' = Holds(g) /\ Waits(g)' = Waits(g)
        BY <2>1, <2>3 DEF Holds, Waits
      <3>2. Holds(g) => holder'[Owner[g]] = holder[Owner[g]]
        BY <2>1, <2>3 DEF Holds
      <3> QED BY <1>0, <2>1, <2>3, <3>1, <3>2
    <2> QED BY <2>2, <2>3
  <1>7. ASSUME NEW h \in Group, NEW t \in Tag, Select(h, t) PROVE SaveDueAt(g)'
    <2>1. UNCHANGED <<file, up, holder>>
      BY <1>7 DEF Select
    <2>2. CASE g = h
      <3>1. Owner[g] \in up /\ queued'[g][t] > 0
        BY <1>7, <2>2 DEF Select
      <3> QED BY <2>1, <3>1 DEF Waits
    <2>3. CASE g # h
      <3>1. /\ current'[g] = current[g] /\ queued'[g] = queued[g]
            /\ selected'[g] = selected[g] /\ failed'[g] = failed[g]
        BY <1>7, <2>3 DEF Select
      <3> QED BY <1>0, <2>1, <3>1 DEF Holds, Waits
    <2> QED BY <2>2, <2>3
  <1>8. ASSUME NEW h \in Group, NEW t \in Tag, SaveBegin(h, t) PROVE SaveDueAt(g)'
    <2>1. /\ UNCHANGED <<file, members, up, current, selected, failed, chosen>>
          /\ \A q \in Proc : holder'[q] = IF q = Owner[h]
               THEN [pc |-> "load", groups |-> {h}, value |-> current[h], map |-> NoRecords]
               ELSE holder[q]
      BY <1>8 DEF SaveBegin, ToSave
    <2>2. CASE g = h
      <3>1. Holds(g)' /\ holder'[Owner[g]].value = current'[g]
        BY <2>1, <2>2 DEF Holds
      <3> QED BY <1>0, <2>1, <3>1
    <2>3. CASE g # h
      <3>1. queued'[g] = queued[g] /\ Waits(g)' = Waits(g)
        BY <1>8, <2>3 DEF SaveBegin, Waits
      <3>2. CASE Owner[g] = Owner[h]
        <4>1. ~Holds(g) /\ ~Holds(g)'
          BY <1>8, <2>1, <2>3, <3>2 DEF SaveBegin, Holds
        <4> QED BY <1>0, <2>1, <3>1, <4>1
      <3>3. CASE Owner[g] # Owner[h]
        <4>1. holder'[Owner[g]] = holder[Owner[g]] /\ Holds(g)' = Holds(g)
          BY <2>1, <3>3 DEF Holds
        <4> QED BY <1>0, <2>1, <3>1, <4>1
      <3> QED BY <3>2, <3>3
    <2> QED BY <2>2, <2>3
  <1> QED BY <1>1, <1>2, <1>3, <1>4, <1>5, <1>6, <1>7, <1>8, ChoiceCases

\* What was saved when a process stopped stays in the file while it is down.
LEMMA StillSavedStep ==
  ASSUME OneOwner, ChoiceType, HolderOwns, MapFresh, SaveDue, StillSaved, [ChoiceNext]_choiceVars
  PROVE  StillSaved'
  <1> USE TagAssumption DEF StillSaved, ChoiceType
  <1>1. CASE UNCHANGED <<file, up, chosen>>
    BY <1>1
  <1>2. ASSUME NEW p \in Proc, Boot(p) PROVE StillSaved'
    BY <1>2 DEF Boot
  <1>3. ASSUME NEW p \in Proc, StopProc(p) PROVE StillSaved'
    <2>1. /\ file' = file /\ up' = up \ {p}
          /\ \A g \in Group : chosen'[g] = IF Owner[g] # p THEN chosen[g]
                                           ELSE IF Settled(g) THEN current[g] ELSE NoTag
      BY <1>3 DEF StopProc, Owned
    <2>2. \A g \in Group : Settled(g) => file[g] = current[g]
      BY DEF SaveDue, SaveDueAt, Settled, Saving, Waits, Holds
    <2> QED BY <2>1, <2>2
  <1>4. ASSUME NEW p \in Proc, Write(p) PROVE StillSaved'
    <2>1. \A g \in Group : Owner[g] = p /\ p \in up
      <3>1. p \in up /\ \E g \in Group : Owner[g] = p
        BY <1>4 DEF HolderOwns, Write
      <3> QED BY <3>1 DEF OneOwner
    <2> QED BY <1>4, <2>1 DEF Write
  <1> QED BY <1>1, <1>2, <1>3, <1>4, ChoiceCases DEF choiceVars, Load, WriteFails, Select, SaveBegin

\* The parts together are inductive, hence always hold.
LEMMA ChoiceInvHolds == OneOwner => (ChoiceSpec => []ChoiceInv)
  <1> SUFFICES ASSUME OneOwner PROVE ChoiceSpec => []ChoiceInv
    OBVIOUS
  <1>1. ChoiceInit => ChoiceInv
    BY DEF ChoiceInit, ChoiceInv, HolderOwns, MapFresh, SaveDue, StillSaved, Unheld, NoRecords
  <1>2. ChoiceType /\ ChoiceInv /\ [ChoiceNext]_choiceVars => ChoiceInv'
    BY HolderOwnsStep, MapFreshStep, SaveDueStep, StillSavedStep DEF ChoiceInv
  <1> QED BY <1>1, <1>2, ChoiceTypeCorrect, PTL DEF ChoiceSpec

\* With one process on the file, every choice that is not being saved is in the file.
THEOREM SavesSettle == OneOwner => (ChoiceSpec => []ChoiceSaved)
  <1> SUFFICES ASSUME OneOwner PROVE ChoiceSpec => []ChoiceSaved
    OBVIOUS
  <1>1. ChoiceInv => ChoiceSaved
    BY DEF ChoiceInv, ChoiceSaved, SaveDue, SaveDueAt, Settled, Saving, Waits, Holds
  <1>2. ChoiceSpec => []ChoiceInv
    BY ChoiceInvHolds
  <1> QED BY <1>1, <1>2, PTL

WriteIsOwn == \A g \in Group : file'[g] # file[g] =>
                \E p \in Proc : Write(p) /\ g \in holder[p].groups

\* With one process on the file, a write changes no other group's record.
THEOREM WritesKeepOthers == OneOwner => (ChoiceSpec => OthersKept)
  <1> SUFFICES ASSUME OneOwner PROVE ChoiceSpec => OthersKept
    OBVIOUS
  <1>1. ChoiceType /\ ChoiceInv /\ [ChoiceNext]_choiceVars => [WriteIsOwn]_choiceVars
    <2> SUFFICES ASSUME ChoiceType, ChoiceInv, [ChoiceNext]_choiceVars PROVE WriteIsOwn
      OBVIOUS
    <2>1. CASE file' = file
      BY <2>1 DEF WriteIsOwn
    <2>2. ASSUME NEW p \in Proc, Write(p) PROVE WriteIsOwn
      BY <2>2 DEF WriteIsOwn, Write, ChoiceInv, MapFresh, Merged
    <2> QED BY <2>1, <2>2, ChoiceCases
      DEF choiceVars, Boot, StopProc, Load, WriteFails, Select, SaveBegin
  <1>2. ChoiceSpec => []ChoiceInv
    BY ChoiceInvHolds
  <1> QED BY <1>1, <1>2, ChoiceTypeCorrect, PTL DEF ChoiceSpec, OthersKept, WriteIsOwn

StartsAsChosen ==
  \A g \in Group :
    /\ Owner[g] \notin up /\ Owner[g] \in up'
    /\ chosen[g] \in members[g]
    => current'[g] = chosen[g]

\* With one process on the file, a saved choice outlives a restart.
THEOREM RestartKeepsChoice == OneOwner => (ChoiceSpec => ChoiceRestored)
  <1> SUFFICES ASSUME OneOwner PROVE ChoiceSpec => ChoiceRestored
    OBVIOUS
  <1>1. ChoiceType /\ ChoiceInv /\ [ChoiceNext]_choiceVars => [StartsAsChosen]_choiceVars
    <2> SUFFICES ASSUME ChoiceType, ChoiceInv, [ChoiceNext]_choiceVars PROVE StartsAsChosen
      OBVIOUS
    <2>1. CASE up' \subseteq up
      BY <2>1 DEF StartsAsChosen
    <2>2. ASSUME NEW p \in Proc, Boot(p) PROVE StartsAsChosen
      BY <2>2, TagAssumption
        DEF StartsAsChosen, Boot, Owned, Restored, ChoiceInv, StillSaved, ChoiceType
    <2> QED BY <2>1, <2>2, ChoiceCases
      DEF choiceVars, StopProc, Load, Write, WriteFails, Select, SaveBegin
  <1>2. ChoiceSpec => []ChoiceInv
    BY ChoiceInvHolds
  <1> QED BY <1>1, <1>2, ChoiceTypeCorrect, PTL DEF ChoiceSpec, ChoiceRestored, StartsAsChosen

-----------------------------------------------------------------------------
(* The shared QUIC connection.                                             *)

MuxFields == {"conn", "dialing", "since", "streak", "cooldown", "backoff"}
LinkRecord == [state : {"none", "open", "refused", "lost"}, age : Nat, watched : BOOLEAN,
               counted : Nat]
CallRecord == [pc : {"none", "get", "follow", "dial", "tell", "open"},
               conn : Link \cup {NoOne}, cached : BOOLEAN, second : BOOLEAN,
               on : Caller \cup {NoOne}, told : {"nothing", "connected", "failed", "cancelled"}]

\* The place of the connection and of the dial, and what else has a type.
PlaceFits ==
  /\ DOMAIN inner = MuxFields
  /\ inner.conn \in Link \cup {NoOne} /\ inner.dialing \in Caller \cup {NoOne}
  /\ inner.since \in BOOLEAN
LinksFit == link \in [Link -> LinkRecord]

\* What a caller knows fits the place where it is: a leader that tells has an outcome, and
\* whoever was told of a connection, or opens a stream on one, has that connection.
CallFits(c) ==
  /\ caller[c].pc = "tell" => caller[c].told # "nothing"
  /\ caller[c].pc \in {"none", "get"} => caller[c].told = "nothing"
  /\ caller[c].pc = "open" \/ caller[c].told = "connected" => caller[c].conn \in Link
  /\ caller[c].pc = "follow" => caller[c].on \in Caller
CallsFit == caller \in [Caller -> CallRecord] /\ \A c \in Caller : CallFits(c)

\* DialLed, caller by caller.
Led ==
  /\ \A c \in Caller : caller[c].pc = "dial" <=> inner.dialing = c
  /\ inner.dialing # NoOne => inner.conn = NoOne
  /\ \A c \in Caller : caller[c].pc = "follow" /\ caller[c].told = "nothing"
       => caller[caller[c].on].pc \in {"dial", "tell"}

MuxSound == PlaceFits /\ LinksFit /\ CallsFit /\ Led /\ CountedOnce

\* The placeholder is neither a caller nor a connection.
LEMMA Numbers == NoOne \notin Link /\ NoOne \notin Caller
  BY QuicAssumption DEF Link, Caller, NoOne

\* No connection, no caller and no dial at the start.
LEMMA MuxSoundInit == QuicInit => MuxSound
  <1> SUFFICES ASSUME QuicInit PROVE MuxSound
    OBVIOUS
  <1> USE DEF QuicInit
  <1>1. PlaceFits
    BY DEF PlaceFits, MuxFields
  <1>2. LinksFit
    BY DEF LinksFit, LinkRecord, NoLink
  <1>3. CallsFit
    BY DEF CallsFit, CallFits, CallRecord, NoCall
  <1>4. Led
    BY Numbers DEF Led, NoCall
  <1>5. CountedOnce
    BY DEF CountedOnce, NoLink
  <1> QED BY <1>1, <1>2, <1>3, <1>4, <1>5 DEF MuxSound

-----------------------------------------------------------------------------
(* The connections.                                                        *)

\* The connection in place is seen closed: it leaves its place, is counted, and no other is.
Settles(l) ==
  /\ DOMAIN Settlement(l) = MuxFields
  /\ Settlement(l).conn = NoOne /\ Settlement(l).since = FALSE
  /\ Settlement(l).dialing = inner.dialing
  /\ Counted(l) \in [Link -> LinkRecord]
  /\ \A x \in Link : /\ Counted(l)[x].state = link[x].state
                     /\ Counted(l)[x].counted = IF x = l THEN 1 ELSE link[x].counted

\* The connection in place, seen closed, leaves its place and is counted once.
LEMMA SeenClosed ==
  ASSUME PlaceFits, LinksFit, CountedOnce, NEW l \in Link, inner.conn = l, Closed(l)
  PROVE  Settles(l)
  <1>1. inner.since = TRUE
    BY Numbers DEF CountedOnce, PlaceFits
  <1>2. link[l].counted = 0
    BY DEF CountedOnce, Closed
  <1>3. /\ DOMAIN Settlement(l) = MuxFields
        /\ Settlement(l).conn = NoOne /\ Settlement(l).since = FALSE
        /\ Settlement(l).dialing = inner.dialing
    BY <1>1 DEF Settlement, PlaceFits, MuxFields
  <1>4. Counted(l) = [link EXCEPT ![l].counted = @ + 1]
    BY <1>1 DEF Counted
  <1>5. /\ Counted(l) \in [Link -> LinkRecord]
        /\ \A x \in Link : /\ Counted(l)[x].state = link[x].state
                           /\ Counted(l)[x].counted = IF x = l THEN 1 ELSE link[x].counted
    BY <1>2, <1>4 DEF LinksFit, LinkRecord
  <1> QED BY <1>3, <1>5 DEF Settles

\* What settling means for the whole.
LEMMA PlaceAfterSettling ==
  ASSUME PlaceFits, CountedOnce, NEW l \in Link, inner.conn = l, Closed(l), Settles(l),
         inner' = Settlement(l), link' = Counted(l)
  PROVE  PlaceFits' /\ LinksFit' /\ CountedOnce'
  <1>1. PlaceFits' /\ LinksFit'
    BY DEF PlaceFits, LinksFit, Settles
  <1>2. CountedOnce'
    BY Numbers DEF CountedOnce, Settles, Closed
  <1> QED BY <1>1, <1>2

\* Where only callers change.
LEMMA LinksUntouched ==
  ASSUME PlaceFits, LinksFit, CountedOnce, link' = link, inner'.conn = inner.conn,
         inner'.since = inner.since, DOMAIN inner' = MuxFields,
         inner'.dialing \in Caller \cup {NoOne}
  PROVE  PlaceFits' /\ LinksFit' /\ CountedOnce'
  BY DEF PlaceFits, LinksFit, CountedOnce

\* A connection that was dialled takes the empty place, open and watched.
LEMMA LinksAfterDial ==
  ASSUME PlaceFits, LinksFit, CountedOnce, inner.conn = NoOne, NEW l \in Link,
         link[l].state = "none",
         link' = [link EXCEPT ![l] = [NoLink EXCEPT !.state = "open", !.watched = TRUE]],
         inner' = [inner EXCEPT !.conn = l, !.since = TRUE, !.backoff = 0,
                                !.dialing = NoOne]
  PROVE  PlaceFits' /\ LinksFit' /\ CountedOnce'
  <1>1. /\ DOMAIN inner' = MuxFields
        /\ inner'.conn = l /\ inner'.since = TRUE /\ inner'.dialing = NoOne
    BY DEF PlaceFits, MuxFields
  <1>2. PlaceFits'
    BY <1>1 DEF PlaceFits
  <1>3. LinksFit'
    BY DEF LinksFit, LinkRecord, NoLink
  <1>4. \A x \in Link : link'[x] = IF x = l THEN [NoLink EXCEPT !.state = "open",
                                                                !.watched = TRUE] ELSE link[x]
    BY DEF LinksFit
  <1>5. CountedOnce'
    BY <1>1, <1>4, Numbers DEF CountedOnce, NoLink
  <1> QED BY <1>2, <1>3, <1>5

\* Steps of connections, in which no caller takes part.
LEMMA LinkSteps ==
  ASSUME PlaceFits, LinksFit, CountedOnce, NEW l \in Link,
         \/ Watcher(l) \/ Forget(l) \/ CheckClosed \/ QuicTick
         \/ \E how \in {"refused", "lost"} : Close(l, how)
  PROVE  /\ PlaceFits' /\ LinksFit' /\ CountedOnce'
         /\ inner'.conn \in {inner.conn, NoOne} /\ inner'.dialing = inner.dialing
         /\ caller' = caller
  <1>1. CASE Watcher(l)
    <2>1. CASE SameConn(l)
      <3>1. inner.conn = l /\ Closed(l)
        BY <1>1, <2>1 DEF Watcher, SameConn
      <3>2. Settles(l)
        BY <3>1, SeenClosed
      <3>3. inner' = Settlement(l) /\ link' = [Counted(l) EXCEPT ![l].watched = FALSE]
        BY <1>1, <2>1 DEF Watcher
      <3>4. PlaceFits' /\ inner'.conn = NoOne /\ inner'.since = FALSE
            /\ inner'.dialing = inner.dialing
        BY <3>2, <3>3 DEF PlaceFits, Settles
      <3>5. LinksFit'
        BY <3>2, <3>3 DEF LinksFit, LinkRecord, Settles
      <3>6. \A x \in Link : /\ link'[x].state = link[x].state
                            /\ link'[x].counted = IF x = l THEN 1 ELSE link[x].counted
        BY <3>2, <3>3 DEF LinkRecord, Settles
      <3>7. CountedOnce'
        BY <3>1, <3>4, <3>6, Numbers DEF CountedOnce, Closed
      <3> QED BY <1>1, <3>4, <3>5, <3>7 DEF Watcher
    <2>2. CASE ~SameConn(l)
      <3>1. inner' = inner /\ link' = [link EXCEPT ![l].watched = FALSE]
        BY <1>1, <2>2 DEF Watcher
      <3>2. LinksFit' /\ PlaceFits'
        BY <3>1 DEF LinksFit, LinkRecord, PlaceFits
      <3>3. \A x \in Link : link'[x].state = link[x].state /\ link'[x].counted = link[x].counted
        BY <3>1 DEF LinksFit, LinkRecord
      <3>4. CountedOnce'
        BY <3>1, <3>3 DEF CountedOnce
      <3> QED BY <1>1, <3>1, <3>2, <3>4 DEF Watcher
    <2> QED BY <2>1, <2>2
  <1>2. CASE Forget(l)
    <2>1. inner' = inner /\ link' = [link EXCEPT ![l] = NoLink] /\ caller' = caller
      BY <1>2 DEF Forget
    <2>2. LinksFit' /\ PlaceFits'
      BY <2>1 DEF LinksFit, LinkRecord, NoLink, PlaceFits
    <2>3. CountedOnce'
      BY <2>1 DEF CountedOnce, LinksFit, NoLink
    <2> QED BY <2>1, <2>2, <2>3
  <1>3. CASE CheckClosed
    <2>1. inner.conn \in Link /\ Closed(inner.conn)
      BY <1>3 DEF CheckClosed, PlaceFits
    <2>2. Settles(inner.conn)
      BY <2>1, SeenClosed
    <2>3. PlaceFits' /\ LinksFit' /\ CountedOnce'
      BY <1>3, <2>1, <2>2, PlaceAfterSettling DEF CheckClosed
    <2> QED BY <1>3, <2>2, <2>3 DEF CheckClosed, Settles
  <1>4. CASE QuicTick
    <2>1. inner' = [inner EXCEPT !.cooldown = Less(@), !.backoff = Less(@)]
          /\ caller' = caller
      BY <1>4 DEF QuicTick
    <2>2. link' = [x \in Link |-> IF link[x].state = "open" /\ link[x].age < RejectWindow
                                  THEN [link[x] EXCEPT !.age = @ + 1] ELSE link[x]]
      BY <1>4 DEF QuicTick
    <2>3. /\ DOMAIN inner' = MuxFields /\ inner'.conn = inner.conn
          /\ inner'.since = inner.since /\ inner'.dialing = inner.dialing
      BY <2>1 DEF PlaceFits, MuxFields
    <2>4. LinksFit'
      BY <2>2 DEF LinksFit, LinkRecord
    <2>5. \A x \in Link : link'[x].state = link[x].state /\ link'[x].counted = link[x].counted
      BY <2>2 DEF LinksFit, LinkRecord
    <2>6. CountedOnce' /\ PlaceFits'
      BY <2>3, <2>5 DEF CountedOnce, PlaceFits
    <2> QED BY <2>1, <2>3, <2>4, <2>6
  <1>5. ASSUME NEW how \in {"refused", "lost"}, Close(l, how)
        PROVE  /\ PlaceFits' /\ LinksFit' /\ CountedOnce'
               /\ inner'.conn \in {inner.conn, NoOne} /\ inner'.dialing = inner.dialing
               /\ caller' = caller
    <2>1. /\ inner' = inner /\ caller' = caller /\ link[l].state = "open"
          /\ link' = [link EXCEPT ![l].state = how, ![l].age = 0]
      BY <1>5 DEF Close
    <2>2. LinksFit' /\ PlaceFits'
      BY <2>1 DEF LinksFit, LinkRecord, PlaceFits
    <2>3. \A x \in Link : /\ link'[x].state = IF x = l THEN how ELSE link[x].state
                          /\ link'[x].counted = link[x].counted
      BY <2>1 DEF LinksFit, LinkRecord
    <2>4. how # "open"
      OBVIOUS
    <2>5. CountedOnce'
      <3>1. \A x \in Link : link[x].state # "none" <=> link'[x].state # "none"
        BY <2>1, <2>3
      <3>2. \A x \in Link : link'[x].state = "open" => link[x].state = "open"
        BY <2>3, <2>4
      <3> QED BY <2>1, <2>3, <3>1, <3>2 DEF CountedOnce
    <2> QED BY <2>1, <2>2, <2>5
  <1> QED BY <1>1, <1>2, <1>3, <1>4, <1>5

-----------------------------------------------------------------------------
(* The callers.                                                            *)

\* Where no caller takes part.
LEMMA CallersUntouched ==
  ASSUME CallsFit, Led, caller' = caller, inner'.conn \in {inner.conn, NoOne},
         inner'.dialing = inner.dialing
  PROVE  CallsFit' /\ Led'
  BY DEF CallsFit, CallFits, Led

\* One caller that neither leads nor tells, before and after, and the others as they were.
LEMMA OneCallMoves ==
  ASSUME CallsFit, Led, NEW c \in Caller, NEW r \in CallRecord,
         caller' = [caller EXCEPT ![c] = r], CallFits(c)',
         inner'.conn \in {inner.conn, NoOne}, inner'.dialing = inner.dialing,
         caller[c].pc \notin {"dial", "tell"}, r.pc # "dial",
         r.pc = "follow" /\ r.told = "nothing" => inner.dialing = r.on
  PROVE  CallsFit' /\ Led'
  <1>1. \A x \in Caller : caller'[x] = IF x = c THEN r ELSE caller[x]
    BY DEF CallsFit
  <1>2. CallsFit'
    BY <1>1 DEF CallsFit, CallFits
  <1>3. Led'
    BY <1>1, Numbers DEF Led, CallsFit, CallFits
  <1> QED BY <1>2, <1>3

\* A caller that looks and finds no connection.
LEMMA FollowOrLeads ==
  ASSUME PlaceFits, CallsFit, Led, NEW c \in Caller, Looks(c), NEW known,
         DOMAIN known = MuxFields, known.conn = NoOne, known.dialing = inner.dialing,
         FollowOrLead(c, known)
  PROVE  /\ CallsFit' /\ Led'
         /\ DOMAIN inner' = MuxFields /\ inner'.conn = known.conn
         /\ inner'.since = known.since /\ inner'.dialing \in Caller \cup {NoOne}
  <1>0. caller[c] \in CallRecord /\ caller[c].told = "nothing"
        /\ caller[c].pc \in {"none", "get"}
    BY DEF CallsFit, CallFits, Looks, In
  <1>1. CASE known.dialing # NoOne
    <2> DEFINE r == [caller[c] EXCEPT !.pc = "follow", !.on = known.dialing]
    <2>1. inner.dialing \in Caller
      BY <1>1 DEF PlaceFits
    <2>2. /\ r \in CallRecord /\ r.pc = "follow" /\ r.on = inner.dialing
          /\ r.told = "nothing" /\ r.conn = caller[c].conn
      BY <1>0, <2>1 DEF CallRecord
    <2>3. caller' = [caller EXCEPT ![c] = r] /\ inner' = known
      BY <1>1 DEF FollowOrLead, CallsFit, CallRecord
    <2> HIDE DEF r
    <2>4. CallFits(c)'
      BY <2>1, <2>2, <2>3 DEF CallsFit, CallFits
    <2>5. CallsFit' /\ Led'
      BY <1>0, <2>2, <2>3, <2>4, OneCallMoves
    <2> QED BY <2>1, <2>3, <2>5
  <1>2. CASE known.dialing = NoOne /\ (known.cooldown > 0 \/ known.backoff > 0)
    <2>1. NoCall \in CallRecord /\ NoCall.pc = "none" /\ NoCall.told = "nothing"
      BY DEF NoCall, CallRecord
    <2>2. caller' = [caller EXCEPT ![c] = NoCall] /\ inner' = known
      BY <1>2 DEF FollowOrLead
    <2>3. CallFits(c)'
      BY <2>1, <2>2 DEF CallsFit, CallFits
    <2>4. CallsFit' /\ Led'
      BY <1>0, <2>1, <2>2, <2>3, OneCallMoves
    <2> QED BY <1>2, <2>2, <2>4
  <1>3. CASE known.dialing = NoOne /\ ~(known.cooldown > 0 \/ known.backoff > 0)
    <2>1. caller' = [caller EXCEPT ![c].pc = "dial"] /\ inner' = [known EXCEPT !.dialing = c]
      BY <1>3 DEF FollowOrLead
    <2>2. /\ DOMAIN inner' = MuxFields /\ inner'.conn = known.conn
          /\ inner'.since = known.since /\ inner'.dialing = c
      BY <2>1 DEF MuxFields
    <2>3. \A x \in Caller : /\ caller'[x] \in CallRecord
                            /\ caller'[x].pc = IF x = c THEN "dial" ELSE caller[x].pc
                            /\ caller'[x].told = caller[x].told
                            /\ caller'[x].conn = caller[x].conn
                            /\ caller'[x].on = caller[x].on
      BY <2>1 DEF CallsFit, CallRecord
    <2>4. CallsFit'
      <3>1. caller' \in [Caller -> CallRecord]
        BY <2>1, <2>3 DEF CallsFit
      <3> QED BY <1>0, <2>3, <3>1 DEF CallsFit, CallFits
    <2>5. Led'
      BY <1>0, <1>3, <2>2, <2>3, Numbers DEF Led, CallsFit, CallFits
    <2> QED BY <2>2, <2>4, <2>5
  <1> QED BY <1>1, <1>2, <1>3

\* A leader comes to an end: its place is free, and it has an outcome to tell.
LEMMA LeaderEnds ==
  ASSUME CallsFit, Led, NEW c \in Caller, caller[c].pc = "dial", inner'.dialing = NoOne,
         NEW r \in CallRecord, caller' = [caller EXCEPT ![c] = r], r.pc = "tell",
         r.told # "nothing", r.told = "connected" => r.conn \in Link
  PROVE  CallsFit' /\ Led'
  <1>1. \A x \in Caller : caller'[x] = IF x = c THEN r ELSE caller[x]
    BY DEF CallsFit
  <1>2. CallsFit'
    BY <1>1 DEF CallsFit, CallFits
  <1>3. Led'
    BY <1>1, Numbers DEF Led, CallsFit, CallFits
  <1> QED BY <1>2, <1>3

\* The outcome reaches every caller that waits for it.
LEMMA AllAreTold ==
  ASSUME CallsFit, Led, NEW c \in Caller, Tell(c)
  PROVE  CallsFit' /\ Led'
  <1> DEFINE own == IF caller[c].told = "connected"
                    THEN [caller[c] EXCEPT !.pc = "open", !.told = "nothing"] ELSE NoCall
             heard(x) == [caller[x] EXCEPT !.told = caller[c].told, !.conn = caller[c].conn]
             waits(x) == caller[x].pc = "follow" /\ caller[x].on = c
  <1>1. caller' = [x \in Caller |->
          IF x = c THEN own ELSE IF waits(x) THEN heard(x) ELSE caller[x]]
    BY DEF Tell, In
  <1>2. caller[c].pc = "tell" /\ caller[c].told # "nothing" /\ inner' = inner
        /\ (caller[c].told = "connected" => caller[c].conn \in Link)
    BY DEF Tell, In, CallsFit, CallFits
  <1>3. /\ own \in CallRecord /\ own.pc \in {"open", "none"} /\ own.told = "nothing"
        /\ own.pc = "open" => own.conn \in Link
    <2>1. CASE caller[c].told = "connected"
      BY <1>2, <2>1 DEF CallsFit, CallRecord
    <2>2. CASE caller[c].told # "connected"
      BY <2>2 DEF NoCall, CallRecord
    <2> QED BY <2>1, <2>2
  <1>4. ASSUME NEW x \in Caller
        PROVE  /\ heard(x) \in CallRecord /\ heard(x).pc = caller[x].pc
               /\ heard(x).told = caller[c].told /\ heard(x).conn = caller[c].conn
               /\ heard(x).on = caller[x].on
    BY DEF CallsFit, CallRecord
  <1> HIDE DEF own, heard
  <1>5. \A x \in Caller :
          caller'[x] = IF x = c THEN own ELSE IF waits(x) THEN heard(x) ELSE caller[x]
    BY <1>1
  <1>6. caller' \in [Caller -> CallRecord]
    BY <1>1, <1>3, <1>4 DEF CallsFit
  <1>7. CallsFit'
    BY <1>2, <1>3, <1>4, <1>5, <1>6 DEF CallsFit, CallFits
  <1>8. \A x \in Caller : caller'[x].pc = "dial" <=> caller[x].pc = "dial"
    BY <1>2, <1>3, <1>4, <1>5
  <1>9. ASSUME NEW x \in Caller, caller'[x].pc = "follow", caller'[x].told = "nothing"
        PROVE  caller'[caller'[x].on].pc \in {"dial", "tell"}
    <2>1. x # c
      BY <1>3, <1>5, <1>9
    <2>2. ~waits(x) /\ caller'[x] = caller[x]
      BY <1>2, <1>4, <1>5, <1>9, <2>1
    <2>3. caller[x].on # c /\ caller[x].on \in Caller
      BY <1>9, <2>2 DEF CallsFit, CallFits
    <2>4. caller[caller[x].on].pc \in {"dial", "tell"}
      BY <1>9, <2>2 DEF Led
    <2>5. caller'[caller[x].on].pc = caller[caller[x].on].pc
      BY <1>4, <1>5, <2>3
    <2> QED BY <2>2, <2>4, <2>5
  <1>10. Led'
    BY <1>2, <1>8, <1>9 DEF Led
  <1> QED BY <1>7, <1>10

\* Every step of a caller.
LEMMA CallSteps ==
  ASSUME MuxSound, NEW c \in Caller, OpenStream(c)
  PROVE  MuxSound'
  <1> USE DEF MuxSound
  <1>0. /\ NoCall \in CallRecord /\ NoCall.pc = "none" /\ NoCall.told = "nothing"
        /\ caller[c] \in CallRecord /\ CallFits(c)
    BY DEF NoCall, CallRecord, CallsFit
  \* A step that ends a call, and leaves everything else as it is.
  <1>00. ASSUME caller' = [caller EXCEPT ![c] = NoCall], inner'.conn \in {inner.conn, NoOne},
                inner'.dialing = inner.dialing, caller[c].pc \notin {"dial", "tell"}
         PROVE  CallsFit' /\ Led'
    <2>1. CallFits(c)'
      BY <1>0, <1>00 DEF CallsFit, CallFits
    <2> QED BY <1>0, <1>00, <2>1, OneCallMoves
  <1>1. CASE Cached(c)
    <2>1. PICK r : r = [caller[c] EXCEPT !.pc = "open", !.conn = inner.conn, !.cached = TRUE]
      OBVIOUS
    <2>2. inner.conn \in Link /\ caller[c].told = "nothing"
          /\ caller[c].pc \in {"none", "get"}
      BY <1>0, <1>1 DEF Cached, Looks, In, PlaceFits, CallFits
    <2>3. r \in CallRecord /\ r.pc = "open" /\ r.conn = inner.conn /\ r.told = "nothing"
      BY <1>0, <2>1, <2>2 DEF CallRecord
    <2>4. caller' = [caller EXCEPT ![c] = r] /\ inner' = inner /\ link' = link
      BY <1>1, <2>1 DEF Cached, CallsFit, CallRecord
    <2>5. CallFits(c)'
      BY <2>2, <2>3, <2>4 DEF CallsFit, CallFits
    <2>6. CallsFit' /\ Led'
      BY <2>2, <2>3, <2>4, <2>5, OneCallMoves
    <2>7. PlaceFits' /\ LinksFit' /\ CountedOnce'
      BY <2>4 DEF PlaceFits, LinksFit, CountedOnce
    <2> QED BY <2>6, <2>7
  <1>2. CASE Get(c)
    <2>1. CASE inner.conn = NoOne /\ FollowOrLead(c, inner) /\ UNCHANGED link
      <3>1. Looks(c) /\ DOMAIN inner = MuxFields
        BY <1>2 DEF Get, PlaceFits
      <3>2. /\ CallsFit' /\ Led'
            /\ DOMAIN inner' = MuxFields /\ inner'.conn = inner.conn
            /\ inner'.since = inner.since /\ inner'.dialing \in Caller \cup {NoOne}
        BY <2>1, <3>1, FollowOrLeads
      <3>3. PlaceFits' /\ LinksFit' /\ CountedOnce'
        BY <2>1, <3>2, LinksUntouched
      <3> QED BY <3>2, <3>3
    <2>2. CASE /\ inner.conn # NoOne /\ Closed(inner.conn)
               /\ FollowOrLead(c, Settlement(inner.conn)) /\ link' = Counted(inner.conn)
      <3>1. inner.conn \in Link /\ Looks(c)
        BY <1>2, <2>2 DEF Get, PlaceFits
      <3>2. Settles(inner.conn)
        BY <2>2, <3>1, SeenClosed
      <3>3. PICK known : known = Settlement(inner.conn)
        OBVIOUS
      <3>4. /\ DOMAIN known = MuxFields /\ known.conn = NoOne /\ known.since = FALSE
            /\ known.dialing = inner.dialing /\ FollowOrLead(c, known)
        BY <2>2, <3>2, <3>3 DEF Settles
      <3>5. /\ CallsFit' /\ Led'
            /\ DOMAIN inner' = MuxFields /\ inner'.conn = NoOne
            /\ inner'.since = FALSE /\ inner'.dialing \in Caller \cup {NoOne}
        BY <3>1, <3>4, FollowOrLeads
      <3>6. PlaceFits' /\ LinksFit'
        BY <2>2, <3>2, <3>5 DEF PlaceFits, LinksFit, Settles
      <3>7. CountedOnce'
        BY <2>2, <3>1, <3>2, <3>5, Numbers DEF CountedOnce, Settles, Closed
      <3> QED BY <3>5, <3>6, <3>7
    <2> QED BY <1>2, <2>1, <2>2 DEF Get
  <1>3. CASE Dialled(c)
    <2>1. PICK l \in Link :
            /\ link[l].state = "none"
            /\ link' = [link EXCEPT ![l] = [NoLink EXCEPT !.state = "open", !.watched = TRUE]]
            /\ inner' = [inner EXCEPT !.conn = l, !.since = TRUE, !.backoff = 0,
                                      !.dialing = NoOne]
            /\ caller' = [caller EXCEPT ![c].pc = "tell", ![c].conn = l, ![c].cached = FALSE,
                                        ![c].told = "connected"]
      BY <1>3 DEF Dialled
    <2>2. caller[c].pc = "dial" /\ inner.conn = NoOne
      BY <1>3, Numbers DEF Dialled, In, Led
    <2>3. PlaceFits' /\ LinksFit' /\ CountedOnce'
      BY <2>1, <2>2, LinksAfterDial
    <2>4. inner'.dialing = NoOne
      BY <2>1 DEF PlaceFits, MuxFields
    <2>5. PICK r : r = [caller[c] EXCEPT !.pc = "tell", !.conn = l, !.cached = FALSE,
                                         !.told = "connected"]
      OBVIOUS
    <2>6. r \in CallRecord /\ r.pc = "tell" /\ r.conn = l /\ r.told = "connected"
      BY <1>0, <2>5 DEF CallRecord
    <2>7. caller' = [caller EXCEPT ![c] = r]
      BY <2>1, <2>5 DEF CallsFit, CallRecord
    <2>8. CallsFit' /\ Led'
      BY <2>2, <2>4, <2>6, <2>7, LeaderEnds
    <2> QED BY <2>3, <2>8
  <1>4. ASSUME NEW outcome \in {"failed", "cancelled"}, In(c, "dial"), link' = link,
               inner'.dialing = NoOne, inner'.conn = inner.conn, inner'.since = inner.since,
               DOMAIN inner' = MuxFields,
               caller' = [caller EXCEPT ![c].pc = "tell", ![c].told = outcome]
        PROVE  MuxSound'
    <2>1. PICK r : r = [caller[c] EXCEPT !.pc = "tell", !.told = outcome]
      OBVIOUS
    <2>2. r \in CallRecord /\ r.pc = "tell" /\ r.told = outcome
      BY <1>0, <2>1 DEF CallRecord
    <2>3. caller' = [caller EXCEPT ![c] = r] /\ caller[c].pc = "dial"
      BY <1>4, <2>1 DEF CallsFit, CallRecord, In
    <2>4. outcome # "nothing" /\ outcome # "connected"
      OBVIOUS
    <2>5. CallsFit' /\ Led'
      BY <1>4, <2>2, <2>3, <2>4, LeaderEnds
    <2>6. PlaceFits' /\ LinksFit' /\ CountedOnce'
      BY <1>4, LinksUntouched
    <2> QED BY <2>5, <2>6
  <1>5. CASE DialFailed(c)
    <2>1. /\ inner'.dialing = NoOne /\ inner'.conn = inner.conn /\ inner'.since = inner.since
          /\ DOMAIN inner' = MuxFields
      BY <1>5 DEF DialFailed, PlaceFits, MuxFields
    <2> QED BY <1>4, <1>5, <2>1 DEF DialFailed
  <1>6. CASE Cancel(c)
    <2>1. /\ inner'.dialing = NoOne /\ inner'.conn = inner.conn /\ inner'.since = inner.since
          /\ DOMAIN inner' = MuxFields
      BY <1>6 DEF Cancel, Abandoned, PlaceFits, MuxFields
    <2> QED BY <1>4, <1>6, <2>1 DEF Cancel
  <1>7. CASE Tell(c)
    <2>1. CallsFit' /\ Led'
      BY <1>7, AllAreTold
    <2>2. inner' = inner /\ link' = link
      BY <1>7 DEF Tell
    <2> QED BY <2>1, <2>2 DEF PlaceFits, LinksFit, CountedOnce
  <1>8. CASE Told(c)
    <2>1. /\ caller[c].pc = "follow" /\ caller[c].told # "nothing"
          /\ inner' = inner /\ link' = link
      BY <1>8 DEF Told, In
    <2>2. PlaceFits' /\ LinksFit' /\ CountedOnce'
      BY <2>1 DEF PlaceFits, LinksFit, CountedOnce
    <2>3. PICK r : caller' = [caller EXCEPT ![c] = r]
                   /\ r = IF caller[c].told = "connected"
                          THEN [caller[c] EXCEPT !.pc = "open", !.cached = FALSE,
                                                 !.on = NoOne, !.told = "nothing"]
                          ELSE IF caller[c].told = "failed" THEN NoCall
                          ELSE [NoCall EXCEPT !.pc = "get", !.second = caller[c].second]
      BY <1>0, <1>8 DEF Told, CallsFit, CallRecord
    <2>4. /\ r \in CallRecord /\ r.pc \in {"open", "none", "get"} /\ r.told = "nothing"
          /\ r.pc = "open" => r.conn \in Link
      BY <1>0, <2>3 DEF CallRecord, NoCall, CallFits
    <2>5. CallFits(c)'
      BY <2>3, <2>4 DEF CallsFit, CallFits
    <2>6. CallsFit' /\ Led'
      BY <2>1, <2>3, <2>4, <2>5, OneCallMoves
    <2> QED BY <2>2, <2>6
  <1>9. CASE Leave(c) \/ Opened(c)
    <2>1. /\ caller' = [caller EXCEPT ![c] = NoCall] /\ inner' = inner /\ link' = link
          /\ caller[c].pc \notin {"dial", "tell"}
      BY <1>9 DEF Leave, Opened, In
    <2>2. CallsFit' /\ Led'
      BY <1>00, <2>1
    <2> QED BY <2>1, <2>2 DEF PlaceFits, LinksFit, CountedOnce
  <1>10. CASE OpenFailed(c)
    <2>1. caller[c].pc = "open" /\ caller[c].conn \in Link /\ Closed(caller[c].conn)
      BY <1>0, <1>10 DEF OpenFailed, In, CallFits
    <2>2. PlaceFits' /\ LinksFit' /\ CountedOnce'
          /\ inner'.conn \in {inner.conn, NoOne} /\ inner'.dialing = inner.dialing
      <3>1. CASE SameConn(caller[c].conn)
        <4>1. inner.conn = caller[c].conn /\ inner' = Settlement(caller[c].conn)
              /\ link' = Counted(caller[c].conn)
          BY <1>10, <3>1 DEF OpenFailed, SameConn
        <4>2. Settles(caller[c].conn)
          BY <2>1, <4>1, SeenClosed
        <4>3. PlaceFits' /\ LinksFit' /\ CountedOnce'
          BY <2>1, <4>1, <4>2, PlaceAfterSettling
        <4> QED BY <4>1, <4>2, <4>3 DEF Settles
      <3>2. CASE ~SameConn(caller[c].conn)
        <4>1. inner' = inner /\ link' = link
          BY <1>10, <3>2 DEF OpenFailed
        <4> QED BY <4>1 DEF PlaceFits, LinksFit, CountedOnce
      <3> QED BY <3>1, <3>2
    <2>3. PICK r : caller' = [caller EXCEPT ![c] = r]
                   /\ r = IF caller[c].cached /\ ~caller[c].second
                          THEN [NoCall EXCEPT !.pc = "get", !.second = TRUE] ELSE NoCall
      BY <1>0, <1>10 DEF OpenFailed, CallsFit, CallRecord
    <2>4. r \in CallRecord /\ r.pc \in {"none", "get"} /\ r.told = "nothing"
      BY <1>0, <2>3 DEF CallRecord, NoCall
    <2>5. CallFits(c)'
      BY <2>3, <2>4 DEF CallsFit, CallFits
    <2>6. CallsFit' /\ Led'
      BY <2>1, <2>2, <2>3, <2>4, <2>5, OneCallMoves
    <2> QED BY <2>2, <2>6
  <1> QED BY <1>1, <1>2, <1>3, <1>5, <1>6, <1>7, <1>8, <1>9, <1>10 DEF OpenStream

\* The invariant is inductive.
LEMMA MuxSoundStep == MuxSound /\ [QuicNext]_quicVars => MuxSound'
  <1> SUFFICES ASSUME MuxSound, [QuicNext]_quicVars PROVE MuxSound'
    OBVIOUS
  <1>1. ASSUME NEW c \in Caller, OpenStream(c) PROVE MuxSound'
    BY <1>1, CallSteps
  <1>2. ASSUME NEW l \in Link,
               \/ Watcher(l) \/ Forget(l) \/ CheckClosed \/ QuicTick
               \/ \E how \in {"refused", "lost"} : Close(l, how)
        PROVE  MuxSound'
    <2>1. /\ PlaceFits' /\ LinksFit' /\ CountedOnce'
          /\ inner'.conn \in {inner.conn, NoOne} /\ inner'.dialing = inner.dialing
          /\ caller' = caller
      BY <1>2, LinkSteps DEF MuxSound
    <2>2. CallsFit' /\ Led'
      BY <2>1, CallersUntouched DEF MuxSound
    <2> QED BY <2>1, <2>2 DEF MuxSound
  <1>3. CASE UNCHANGED quicVars
    BY <1>3 DEF quicVars, MuxSound, PlaceFits, LinksFit, CallsFit, CallFits, Led,
                CountedOnce
  <1>4. 1 \in Link
    BY QuicAssumption DEF Link
  <1> QED BY <1>1, <1>2, <1>3, <1>4 DEF QuicNext

\* Whoever waits, leads or streams on the shared connection fits what is known of it, however
\* dials, cancellations and refusals interleave.
THEOREM MuxAlwaysSound == QuicSpec => []MuxSound
  <1> QED BY MuxSoundInit, MuxSoundStep, PTL DEF QuicSpec

\* Whoever of the callers leads, waits, is cancelled or sees a connection closed, one at most
\* dials, nobody waits for an outcome that never comes, and every connection is settled once.
THEOREM SharedAlwaysRight == QuicSpec => []SharedRight
  <1>1. MuxSound => SharedRight
    <2> SUFFICES ASSUME MuxSound PROVE DialLed
      BY DEF MuxSound, SharedRight
    <2>1. \A c \in Caller : c \in Leaders <=> inner.dialing = c
      BY DEF MuxSound, Led, Leaders, In
    <2>2. Leaders = {inner.dialing} \ {NoOne}
      BY <2>1, Numbers DEF MuxSound, PlaceFits, Leaders
    <2>3. Leaders # {} => inner.conn = NoOne
      BY <2>2 DEF MuxSound, Led
    <2>4. \A c \in Caller : In(c, "follow") /\ caller[c].told = "nothing"
            => caller[c].on \in Leaders \/ In(caller[c].on, "tell")
      BY DEF MuxSound, Led, CallsFit, CallFits, Leaders, In
    <2> QED BY <2>2, <2>3, <2>4 DEF DialLed
  <1> QED BY <1>1, MuxAlwaysSound, PTL

-----------------------------------------------------------------------------
(* UDP flows.                                                              *)

TaskFields == {"pc", "pair", "kind", "tunnel", "reply", "permit", "committed", "pending",
               "got", "clock", "quiet", "limit"}
TunnelFields == {"used", "alive", "writer", "demux", "sids"}
Placed == Preparing \cup {"run", "release", "slot"}

\* What a task holds fits the point that it has reached.
TaskFits(w) ==
  /\ DOMAIN flow[w] = TaskFields
  /\ flow[w].pc \in Placed \cup {"none", "refs"}
  /\ flow[w].tunnel \in Shared \cup {Nobody}
  /\ flow[w].reply \in BOOLEAN /\ flow[w].permit \in BOOLEAN /\ flow[w].committed \in BOOLEAN
  /\ flow[w].pc # "none" => flow[w].pair \in Pair
  /\ flow[w].pc \in {"none", "setup", "refuse", "dial", "create", "acquire"} => ~flow[w].reply
  /\ flow[w].pc \in {"none", "setup", "refuse", "create", "slot", "refs"} => ~flow[w].permit
  /\ flow[w].pc \in {"none", "setup", "refuse", "dial", "create", "slot", "refs"}
       => flow[w].tunnel = Nobody
  /\ flow[w].kind = "mux" /\ flow[w].pc \in {"acquire", "register"} => flow[w].tunnel # Nobody
  /\ flow[w].pc = "register" => flow[w].kind = "mux"
  /\ flow[w].pc \in Preparing => ~flow[w].committed
  /\ flow[w].pc = "run" => flow[w].committed

UdpTypes ==
  /\ DOMAIN flow = Task /\ \A w \in Task : TaskFits(w)
  /\ sessions \in [Pair -> Task \cup {Setting, Nobody}]
  /\ refs \in [Pair -> Int] /\ permits \in Int
  /\ DOMAIN mux = {"tunnel", "lock"} /\ mux.tunnel \in Shared \cup {Nobody}
  /\ DOMAIN shared = Shared
  /\ \A t \in Shared : DOMAIN shared[t] = TunnelFields /\ shared[t].sids \subseteq Task

\* A task that has not left the table has its place there, and no two have the same.
InPlace(w) == flow[w].pc \in Placed
PlaceHeld ==
  /\ \A w \in Task : InPlace(w)
       => sessions[flow[w].pair] = IF flow[w].committed THEN w ELSE Setting
  /\ \A w, x \in Task : /\ InPlace(w) /\ InPlace(x) /\ flow[w].pair = flow[x].pair
                        /\ ~flow[w].committed /\ ~flow[x].committed
                        => w = x
\* And the other way round.
PlaceFilled ==
  \A p \in Pair : sessions[p] # Nobody =>
    \E w \in Task : /\ InPlace(w) /\ flow[w].pair = p
                    /\ sessions[p] = IF flow[w].committed THEN w ELSE Setting

\* Who has what is counted.
Repliers(r) == {w \in Task : flow[w].reply /\ Reply(flow[w].pair) = r}
Holders == {w \in Task : flow[w].permit}
Counters == {w \in Task : flow[w].permit \/ flow[w].pc = "refuse"}
Tallied == /\ \A r \in Pair : refs[r] = Cardinality(Repliers(r))
           /\ permits = Cardinality(Counters)
           /\ Cardinality(Holders) <= MaxMirageFlows
SidsHeld == \A t \in Shared : \A w \in shared[t].sids : flow[w].tunnel = t

UdpSound == UdpTypes /\ PlaceHeld /\ PlaceFilled /\ Tallied /\ SidsHeld

\* Placeholders are none of the numbers, and the tasks are finitely many.
LEMMA Indices ==
  /\ Setting \notin Task /\ Nobody \notin Task /\ Nobody # Setting /\ Nobody \notin Shared
  /\ IsFiniteSet(Task)
  /\ \A p \in Pair : Reply(p) \in Pair
  <1>1. Tasks \in Nat /\ Tunnels \in Nat
    BY UdpAssumption
  <1>2. IsFiniteSet(Task)
    BY <1>1, FS_Interval DEF Task
  <1>3. \A p \in Pair : Reply(p) \in Pair
    BY DEF Reply
  <1> QED BY <1>1, <1>2, <1>3 DEF Setting, Task, Nobody, Shared

\* Nothing is held at the start.
LEMMA UdpSoundInit == ClientUdpInit => UdpSound
  <1> SUFFICES ASSUME ClientUdpInit PROVE UdpSound
    OBVIOUS
  <1> USE DEF ClientUdpInit
  <1>1. \A w \in Task : TaskFits(w) /\ flow[w].pc = "none"
    BY DEF TaskFits, NoTask, TaskFields, Placed, Preparing
  <1>2. UdpTypes
    BY <1>1 DEF UdpTypes, NoTunnel, TunnelFields
  <1>3. PlaceHeld /\ PlaceFilled
    BY <1>1 DEF PlaceHeld, PlaceFilled, InPlace, Placed, Preparing
  <1>4. \A w \in Task : ~flow[w].reply /\ ~flow[w].permit /\ flow[w].pc # "refuse"
    BY <1>1 DEF TaskFits
  <1>5. (\A r \in Pair : Repliers(r) = {}) /\ Holders = {} /\ Counters = {}
    BY <1>4 DEF Repliers, Holders, Counters
  <1>6. Cardinality({}) = 0 /\ 0 <= MaxMirageFlows
    BY FS_EmptySet, UdpAssumption
  <1>7. Tallied
    BY <1>5, <1>6 DEF Tallied
  <1>8. SidsHeld
    BY DEF SidsHeld, NoTunnel
  <1> QED BY <1>2, <1>3, <1>7, <1>8 DEF UdpSound

-----------------------------------------------------------------------------
(* Steps that give and take nothing.                                       *)

\* A task as far as it counts.
Alike(f, g) ==
  /\ DOMAIN f = TaskFields
  /\ f.pc = g.pc /\ f.pair = g.pair /\ f.kind = g.kind /\ f.tunnel = g.tunnel
  /\ f.reply = g.reply /\ f.permit = g.permit /\ f.committed = g.committed

\* Tunnels change, but no number is added in one.
LEMMA NothingMoves ==
  ASSUME UdpSound, DOMAIN flow' = Task, \A w \in Task : Alike(flow'[w], flow[w]),
         UNCHANGED <<sessions, refs, permits>>,
         DOMAIN mux' = {"tunnel", "lock"}, mux'.tunnel \in Shared \cup {Nobody},
         DOMAIN shared' = Shared,
         \A t \in Shared : /\ DOMAIN shared'[t] = TunnelFields
                           /\ shared'[t].sids \subseteq shared[t].sids
  PROVE  UdpSound'
  <1> USE DEF UdpSound
  <1>1. \A w \in Task : TaskFits(w)'
    BY DEF TaskFits, Alike, UdpTypes
  <1>2. UdpTypes'
    BY <1>1 DEF UdpTypes
  <1>3. PlaceHeld' /\ PlaceFilled'
    BY DEF PlaceHeld, PlaceFilled, InPlace, Alike
  <1>4. (\A r \in Pair : Repliers(r)' = Repliers(r)) /\ Holders' = Holders
        /\ Counters' = Counters
    BY DEF Repliers, Holders, Counters, Alike
  <1>5. Tallied'
    BY <1>4 DEF Tallied
  <1>6. SidsHeld'
    BY DEF SidsHeld, Alike, UdpTypes
  <1> QED BY <1>2, <1>3, <1>5, <1>6

\* One task goes on, and keeps its place and what it has.
LEMMA OneMoves ==
  ASSUME UdpSound, NEW w \in Task, DOMAIN flow' = Task,
         \A x \in Task \ {w} : flow'[x] = flow[x], TaskFits(w)',
         flow[w].pc # "refuse", flow'[w].pc # "refuse",
         flow'[w].pair = flow[w].pair, flow'[w].reply = flow[w].reply,
         flow'[w].permit = flow[w].permit, flow'[w].committed = flow[w].committed,
         InPlace(w), InPlace(w)', UNCHANGED <<sessions, refs, permits>>,
         DOMAIN mux' = {"tunnel", "lock"}, mux'.tunnel \in Shared \cup {Nobody},
         DOMAIN shared' = Shared,
         \A t \in Shared : /\ DOMAIN shared'[t] = TunnelFields
                           /\ shared'[t].sids \subseteq shared[t].sids \cup {w}
                           /\ w \in shared'[t].sids => flow'[w].tunnel = t
  PROVE  UdpSound'
  <1> USE DEF UdpSound
  <1>1. \A x \in Task : TaskFits(x)'
    BY DEF TaskFits, UdpTypes
  <1>2. UdpTypes'
    BY <1>1 DEF UdpTypes
  <1>3. \A x \in Task : /\ InPlace(x)' <=> InPlace(x)
                        /\ flow'[x].pair = flow[x].pair
                        /\ flow'[x].committed = flow[x].committed
    BY DEF InPlace
  <1>4. PlaceHeld' /\ PlaceFilled'
    BY <1>3 DEF PlaceHeld, PlaceFilled
  <1>5. (\A r \in Pair : Repliers(r)' = Repliers(r)) /\ Holders' = Holders
        /\ Counters' = Counters
    BY DEF Repliers, Holders, Counters
  <1>6. Tallied'
    BY <1>5 DEF Tallied
  <1>7. SidsHeld'
    BY DEF SidsHeld, UdpTypes
  <1> QED BY <1>2, <1>4, <1>6, <1>7

\* A task ends: it goes on to its guards with what it has.
LEMMA OneEnds ==
  ASSUME UdpSound, NEW w \in Task, InPlace(w), flow[w].pc # "refuse", flow' = Ended(w),
         UNCHANGED <<sessions, refs, permits, shared>>,
         DOMAIN mux' = {"tunnel", "lock"}, mux'.tunnel \in Shared \cup {Nobody}
  PROVE  UdpSound'
  <1>1. PICK r : r = [flow[w] EXCEPT !.pc = "release", !.pending = FALSE, !.got = FALSE,
                                     !.clock = 0, !.quiet = 0, !.limit = 0]
    OBVIOUS
  <1>2. TaskFits(w)
    BY DEF UdpSound, UdpTypes
  <1>3. DOMAIN r = TaskFields /\ r.pc = "release"
    BY <1>1, <1>2 DEF TaskFits, TaskFields, Alike
  <1>4. /\ r.pair = flow[w].pair /\ r.kind = flow[w].kind /\ r.tunnel = flow[w].tunnel
        /\ r.reply = flow[w].reply /\ r.permit = flow[w].permit
        /\ r.committed = flow[w].committed
    BY <1>1, <1>2 DEF TaskFits, TaskFields
  <1>5. flow' = [flow EXCEPT ![w] = r] /\ DOMAIN flow = Task
    BY <1>1 DEF Ended, UdpSound, UdpTypes
  <1>6. DOMAIN flow' = Task /\ flow'[w] = r /\ \A x \in Task \ {w} : flow'[x] = flow[x]
    BY <1>5
  <1>7. TaskFits(w)' /\ InPlace(w)'
    BY <1>2, <1>3, <1>4, <1>6 DEF TaskFits, InPlace, Placed, Preparing
  <1>8. /\ DOMAIN shared' = Shared
        /\ \A t \in Shared : /\ DOMAIN shared'[t] = TunnelFields
                             /\ shared'[t].sids \subseteq shared[t].sids \cup {w}
                             /\ w \in shared'[t].sids => flow'[w].tunnel = t
    BY <1>4, <1>6 DEF UdpSound, UdpTypes, SidsHeld
  <1>9. /\ flow'[w].pc # "refuse" /\ flow'[w].pair = flow[w].pair
        /\ flow'[w].reply = flow[w].reply /\ flow'[w].permit = flow[w].permit
        /\ flow'[w].committed = flow[w].committed /\ flow'[w].tunnel = flow[w].tunnel
    BY <1>3, <1>4, <1>6
  <1> QED BY <1>6, <1>7, <1>8, <1>9, OneMoves

\* A task goes on to another place, and may have a tunnel now.
LEMMA OneGoesOn ==
  ASSUME UdpSound, NEW w \in Task, InPlace(w), flow[w].pc # "refuse",
         NEW pc, NEW t \in Shared \cup {Nobody}, NEW r,
         r = [flow[w] EXCEPT !.pc = pc, !.tunnel = t], flow' = [flow EXCEPT ![w] = r],
         flow[w].pc \in {"setup", "dial", "create"}, pc \in {"create", "acquire"},
         pc = "create" => t = Nobody /\ ~flow[w].permit,
         flow[w].kind = "mux" /\ pc = "acquire" => t # Nobody,
         UNCHANGED <<sessions, refs, permits>>,
         DOMAIN mux' = {"tunnel", "lock"}, mux'.tunnel \in Shared \cup {Nobody},
         DOMAIN shared' = Shared,
         \A x \in Shared : /\ DOMAIN shared'[x] = TunnelFields
                           /\ shared'[x].sids \subseteq shared[x].sids
  PROVE  UdpSound'
  <1>1. TaskFits(w) /\ DOMAIN flow = Task /\ \A x \in Shared : shared[x].sids \subseteq Task
    BY DEF UdpSound, UdpTypes
  <1>2. /\ DOMAIN r = TaskFields /\ r.pc = pc /\ r.tunnel = t
        /\ r.pair = flow[w].pair /\ r.kind = flow[w].kind
        /\ r.reply = flow[w].reply /\ r.permit = flow[w].permit
        /\ r.committed = flow[w].committed
    BY <1>1 DEF TaskFits, TaskFields
  <1>3. DOMAIN flow' = Task /\ flow'[w] = r /\ \A x \in Task \ {w} : flow'[x] = flow[x]
    BY <1>1
  <1>4. /\ ~flow[w].reply /\ ~flow[w].committed /\ flow[w].pair \in Pair
        /\ flow[w].tunnel = Nobody
        /\ flow[w].reply \in BOOLEAN /\ flow[w].permit \in BOOLEAN
        /\ flow[w].committed \in BOOLEAN
    BY <1>1 DEF TaskFits, Preparing
  <1>5. InPlace(w)'
    BY <1>2, <1>3 DEF InPlace, Placed, Preparing
  <1>6. TaskFits(w)'
    BY <1>2, <1>3, <1>4 DEF TaskFits, Placed, Preparing
  <1>7. \A x \in Shared : /\ DOMAIN shared'[x] = TunnelFields
                          /\ shared'[x].sids \subseteq shared[x].sids \cup {w}
                          /\ w \in shared'[x].sids => flow'[w].tunnel = x
    BY <1>1, <1>4, Indices DEF UdpSound, SidsHeld
  <1>8. /\ flow'[w].pc # "refuse" /\ flow'[w].pair = flow[w].pair
        /\ flow'[w].reply = flow[w].reply /\ flow'[w].permit = flow[w].permit
        /\ flow'[w].committed = flow[w].committed
    BY <1>2, <1>3
  <1> QED BY <1>3, <1>4, <1>5, <1>6, <1>7, <1>8, OneMoves

\* Steps of a set-up that count nothing.
LEMMA QuietSetup ==
  ASSUME UdpSound, NEW w \in Task,
         \/ GiveUp(w) \/ Resolved(w) \/ OwnTunnel(w) \/ GetShared(w) \/ CreateShared(w)
  PROVE  UdpSound'
  <1> DEFINE to(pc, t) == [flow[w] EXCEPT !.pc = pc, !.tunnel = t]
  <1>1. /\ TaskFits(w) /\ DOMAIN flow = Task /\ DOMAIN mux = {"tunnel", "lock"}
        /\ mux.tunnel \in Shared \cup {Nobody} /\ DOMAIN shared = Shared
        /\ \A x \in Shared : DOMAIN shared[x] = TunnelFields
    BY DEF UdpSound, UdpTypes
  <1>2. flow[w].pc \in Preparing => InPlace(w)
    BY DEF InPlace, Placed
  <1>3. CASE GiveUp(w)
    <2>1. /\ flow[w].pc \in Preparing /\ flow[w].pc # "refuse" /\ flow' = Ended(w)
          /\ UNCHANGED <<sessions, refs, permits, mux, shared>>
      BY <1>3 DEF GiveUp, At, Preparing
    <2> QED BY <1>1, <1>2, <2>1, OneEnds
  <1>4. CASE Resolved(w) \/ OwnTunnel(w)
    <2>1. /\ flow[w].pc \in {"setup", "dial"} /\ flow[w].kind # "mux"
          /\ flow' = [flow EXCEPT ![w].pc = "acquire"]
          /\ UNCHANGED <<sessions, refs, permits, mux, shared>>
      BY <1>4 DEF Resolved, OwnTunnel, Moved, At, Is
    <2>2. flow[w].tunnel = Nobody
      BY <1>1, <2>1 DEF TaskFits
    <2>3. to("acquire", Nobody) = [flow[w] EXCEPT !.pc = "acquire"]
      BY <1>1, <2>2 DEF TaskFits, TaskFields
    <2>4. flow' = [flow EXCEPT ![w] = to("acquire", Nobody)]
      BY <1>1, <2>1, <2>3
    <2>5. InPlace(w)
      BY <1>2, <2>1 DEF Preparing
    <2> HIDE DEF to
    <2>6. PICK r : r = to("acquire", Nobody)
      OBVIOUS
    <2> QED BY <1>1, <2>1, <2>4, <2>5, <2>6, OneGoesOn DEF to
  <1>5. CASE GetShared(w)
    <2>1. /\ flow[w].pc = "setup" /\ flow[w].kind = "mux"
          /\ UNCHANGED <<sessions, refs, permits, shared>>
      BY <1>5 DEF GetShared, At, Is
    <2>2. InPlace(w) /\ flow[w].tunnel = Nobody /\ ~flow[w].permit
      BY <1>1, <1>2, <2>1 DEF TaskFits, Preparing
    <2>3. CASE Alive
      <3>1. /\ flow' = [flow EXCEPT ![w].pc = "acquire", ![w].tunnel = mux.tunnel]
            /\ mux' = mux /\ mux.tunnel # Nobody
        BY <1>5, <2>3 DEF GetShared, Alive
      <3>2. flow' = [flow EXCEPT ![w] = to("acquire", mux.tunnel)]
        BY <1>1, <3>1
      <3>3. PICK r : r = to("acquire", mux.tunnel)
        OBVIOUS
      <3>4. PICK t \in Shared : t = mux.tunnel
        BY <1>1, <3>1
      <3>5. r = [flow[w] EXCEPT !.pc = "acquire", !.tunnel = t]
            /\ flow' = [flow EXCEPT ![w] = r] /\ t # Nobody
        BY <3>1, <3>2, <3>3, <3>4
      <3> HIDE DEF to
      <3>6. /\ DOMAIN mux' = {"tunnel", "lock"} /\ mux'.tunnel \in Shared \cup {Nobody}
            /\ DOMAIN shared' = Shared
            /\ \A x \in Shared : /\ DOMAIN shared'[x] = TunnelFields
                                 /\ shared'[x].sids \subseteq shared[x].sids
        BY <1>1, <2>1, <3>1
      <3>7. flow[w].pc # "refuse" /\ flow[w].pc \in {"setup", "dial", "create"}
        BY <2>1
      <3> QED BY <2>1, <2>2, <3>3, <3>4, <3>5, <3>6, <3>7, OneGoesOn
    <2>4. CASE ~Alive
      <3>1. /\ flow' = [flow EXCEPT ![w].pc = "create"] /\ mux' = [mux EXCEPT !.lock = w]
        BY <1>5, <2>4 DEF GetShared, Moved
      <3>2. to("create", Nobody) = [flow[w] EXCEPT !.pc = "create"]
        BY <1>1, <2>2 DEF TaskFits, TaskFields
      <3>3. flow' = [flow EXCEPT ![w] = to("create", Nobody)]
        BY <1>1, <3>1, <3>2
      <3>4. DOMAIN mux' = {"tunnel", "lock"} /\ mux'.tunnel = mux.tunnel
        BY <1>1, <3>1
      <3>5. PICK r : r = to("create", Nobody)
        OBVIOUS
      <3> QED BY <1>1, <2>1, <2>2, <3>3, <3>4, <3>5, OneGoesOn
    <2> QED BY <2>3, <2>4
  <1>6. CASE CreateShared(w)
    <2>1. flow[w].pc = "create" /\ UNCHANGED <<sessions, refs, permits>>
      BY <1>6 DEF CreateShared, At
    <2>2. InPlace(w) /\ flow[w].tunnel = Nobody /\ ~flow[w].permit
      BY <1>1, <1>2, <2>1 DEF TaskFits, Preparing
    <2>3. CASE \E t \in Shared :
                 /\ shared' = [shared EXCEPT ![t] = [used |-> TRUE, alive |-> TRUE,
                                  writer |-> TRUE, demux |-> TRUE, sids |-> {}]]
                 /\ mux' = [tunnel |-> t, lock |-> Nobody]
                 /\ flow' = [flow EXCEPT ![w].pc = "acquire", ![w].tunnel = t]
      <3>1. PICK t \in Shared :
              /\ shared' = [shared EXCEPT ![t] = [used |-> TRUE, alive |-> TRUE,
                               writer |-> TRUE, demux |-> TRUE, sids |-> {}]]
              /\ mux' = [tunnel |-> t, lock |-> Nobody]
              /\ flow' = [flow EXCEPT ![w].pc = "acquire", ![w].tunnel = t]
        BY <2>3
      <3>2. flow' = [flow EXCEPT ![w] = to("acquire", t)]
        BY <1>1, <3>1
      <3>3. DOMAIN mux' = {"tunnel", "lock"} /\ mux'.tunnel = t /\ t # Nobody
        BY <3>1, Indices
      <3>4. DOMAIN shared' = Shared
            /\ \A x \in Shared : /\ DOMAIN shared'[x] = TunnelFields
                                 /\ shared'[x].sids \subseteq shared[x].sids
        BY <1>1, <3>1 DEF TunnelFields
      <3>5. PICK r : r = to("acquire", t)
        OBVIOUS
      <3> QED BY <1>1, <2>1, <2>2, <3>2, <3>3, <3>4, <3>5, OneGoesOn
    <2>4. CASE mux' = [mux EXCEPT !.lock = Nobody] /\ flow' = Ended(w) /\ UNCHANGED shared
      <3>1. DOMAIN mux' = {"tunnel", "lock"} /\ mux'.tunnel = mux.tunnel
        BY <1>1, <2>4
      <3> QED BY <1>1, <2>1, <2>2, <2>4, <3>1, OneEnds
    <2> QED BY <1>6, <2>3, <2>4 DEF CreateShared
  <1> QED BY <1>3, <1>4, <1>5, <1>6

\* A flow at work keeps what it holds.
LEMMA QuietWork ==
  ASSUME UdpSound, NEW w \in Task, Work(w)
  PROVE  UdpSound'
  <1>1. /\ \A x \in Task : TaskFits(x)
        /\ DOMAIN flow = Task /\ DOMAIN mux = {"tunnel", "lock"}
        /\ mux.tunnel \in Shared \cup {Nobody} /\ DOMAIN shared = Shared
        /\ \A x \in Shared : DOMAIN shared[x] = TunnelFields
    BY DEF UdpSound, UdpTypes
  <1>2. UNCHANGED <<sessions, refs, permits, mux, shared>>
    BY DEF Work, MuxSend, OwnSend, MuxReceive, Receive, Expire, Broken
  <1>3. CASE flow' = Ended(w) /\ At(w, "run")
    <2>1. InPlace(w) /\ flow[w].pc # "refuse"
      BY <1>3 DEF At, InPlace, Placed
    <2> QED BY <1>1, <1>2, <1>3, <2>1, OneEnds
  <1>4. ASSUME DOMAIN flow' = Task, \A x \in Task : Alike(flow'[x], flow[x])
        PROVE  UdpSound'
    <2>1. /\ DOMAIN mux' = {"tunnel", "lock"} /\ mux'.tunnel \in Shared \cup {Nobody}
          /\ DOMAIN shared' = Shared
          /\ \A x \in Shared : /\ DOMAIN shared'[x] = TunnelFields
                               /\ shared'[x].sids \subseteq shared[x].sids
      BY <1>1, <1>2
    <2> QED BY <1>2, <1>4, <2>1, NothingMoves
  <1>5. ASSUME NEW pending, NEW quiet, NEW limit,
               flow' = [flow EXCEPT ![w].pending = pending, ![w].quiet = quiet,
                                    ![w].limit = limit]
        PROVE  UdpSound'
    BY <1>1, <1>4, <1>5 DEF Alike, TaskFits, TaskFields
  <1>6. ASSUME NEW pending, NEW quiet,
               flow' = [flow EXCEPT ![w].pending = pending, ![w].quiet = quiet]
        PROVE  UdpSound'
    BY <1>1, <1>4, <1>6 DEF Alike, TaskFits, TaskFields
  <1>7. ASSUME NEW got, NEW clock,
               \/ flow' = [flow EXCEPT ![w].got = got]
               \/ flow' = [flow EXCEPT ![w].got = got, ![w].clock = clock]
        PROVE  UdpSound'
    BY <1>1, <1>4, <1>7 DEF Alike, TaskFits, TaskFields
  <1>8. CASE MuxSend(w)
    BY <1>3, <1>5, <1>8 DEF MuxSend
  <1>9. CASE OwnSend(w)
    BY <1>3, <1>6, <1>9 DEF OwnSend
  <1>10. CASE MuxReceive(w) \/ Receive(w)
    BY <1>7, <1>10 DEF MuxReceive, Receive
  <1>11. CASE Expire(w) \/ Broken(w)
    BY <1>3, <1>11 DEF Expire, Broken
  <1> QED BY <1>8, <1>9, <1>10, <1>11 DEF Work

\* The main loop's datagram, time, and the ends of tunnels.
LEMMA QuietRest ==
  ASSUME UdpSound,
         \/ \E p \in Pair : Pass(p)
         \/ \E t \in Shared : WriterEnds(t) \/ DemuxEnds(t) \/ DropShared(t)
         \/ UdpTick
  PROVE  UdpSound'
  <1>1. /\ \A x \in Task : TaskFits(x)
        /\ DOMAIN flow = Task /\ DOMAIN mux = {"tunnel", "lock"}
        /\ mux.tunnel \in Shared \cup {Nobody} /\ DOMAIN shared = Shared
        /\ \A x \in Shared : DOMAIN shared[x] = TunnelFields
    BY DEF UdpSound, UdpTypes
  <1>2. ASSUME UNCHANGED <<sessions, refs, permits, mux, shared>>, DOMAIN flow' = Task,
               \A x \in Task : Alike(flow'[x], flow[x])
        PROVE  UdpSound'
    <2>1. /\ DOMAIN mux' = {"tunnel", "lock"} /\ mux'.tunnel \in Shared \cup {Nobody}
          /\ DOMAIN shared' = Shared
          /\ \A x \in Shared : /\ DOMAIN shared'[x] = TunnelFields
                               /\ shared'[x].sids \subseteq shared[x].sids
      BY <1>1, <1>2
    <2> QED BY <1>2, <2>1, NothingMoves
  <1>3. ASSUME UNCHANGED <<sessions, refs, permits, mux, flow>>, DOMAIN shared' = Shared,
               \A x \in Shared : /\ DOMAIN shared'[x] = TunnelFields
                                 /\ shared'[x].sids \subseteq shared[x].sids
        PROVE  UdpSound'
    <2>1. /\ DOMAIN flow' = Task /\ \A x \in Task : Alike(flow'[x], flow[x])
          /\ DOMAIN mux' = {"tunnel", "lock"} /\ mux'.tunnel \in Shared \cup {Nobody}
      BY <1>1, <1>3 DEF Alike, TaskFits
    <2> QED BY <1>3, <2>1, NothingMoves
  <1>4. ASSUME NEW p \in Pair, Pass(p) PROVE UdpSound'
    <2>1. PICK pending : flow' = [flow EXCEPT ![sessions[p]].pending = pending]
      BY <1>4 DEF Pass
    <2>2. UNCHANGED <<sessions, refs, permits, mux, shared>> /\ sessions[p] \in Task
      BY <1>4 DEF Pass, Live
    <2>3. DOMAIN flow' = Task /\ \A x \in Task : Alike(flow'[x], flow[x])
      BY <1>1, <2>1, <2>2 DEF Alike, TaskFits, TaskFields
    <2> QED BY <1>2, <2>2, <2>3
  <1>5. ASSUME NEW t \in Shared, WriterEnds(t) \/ DemuxEnds(t) PROVE UdpSound'
    <2>1. \/ shared' = [shared EXCEPT ![t].writer = FALSE, ![t].alive = FALSE]
          \/ shared' = [shared EXCEPT ![t].demux = FALSE, ![t].alive = FALSE]
      BY <1>5 DEF WriterEnds, DemuxEnds
    <2>2. DOMAIN shared' = Shared
      BY <1>1, <2>1
    <2>3. \A x \in Shared : /\ DOMAIN shared'[x] = TunnelFields
                            /\ shared'[x].sids \subseteq shared[x].sids
      BY <1>1, <2>1 DEF TunnelFields
    <2> QED BY <1>3, <1>5, <2>2, <2>3 DEF WriterEnds, DemuxEnds
  <1>6. ASSUME NEW t \in Shared, DropShared(t) PROVE UdpSound'
    <2>1. shared' = [shared EXCEPT ![t] = NoTunnel]
      BY <1>6 DEF DropShared
    <2>2. DOMAIN NoTunnel = TunnelFields /\ NoTunnel.sids = {}
      BY DEF NoTunnel, TunnelFields
    <2>3. DOMAIN shared' = Shared
          /\ \A x \in Shared : /\ DOMAIN shared'[x] = TunnelFields
                               /\ shared'[x].sids \subseteq shared[x].sids
      BY <1>1, <2>1, <2>2
    <2> QED BY <1>3, <1>6, <2>3 DEF DropShared
  <1>7. CASE UdpTick
    <2>1. DOMAIN flow' = Task
      BY <1>7 DEF UdpTick
    <2>2. ASSUME NEW x \in Task PROVE Alike(flow'[x], flow[x])
      <3>1. \/ flow'[x] = flow[x]
            \/ \E clock, quiet : flow'[x] = [flow[x] EXCEPT !.clock = clock, !.quiet = quiet]
        BY <1>7 DEF UdpTick
      <3> QED BY <1>1, <3>1 DEF Alike, TaskFits, TaskFields
    <2> QED BY <1>2, <1>7, <2>1, <2>2 DEF UdpTick
  <1> QED BY <1>4, <1>5, <1>6, <1>7

-----------------------------------------------------------------------------
(* Steps that give or take a place or something that is counted.           *)

\* A set of tasks that gains one counts one more.
LEMMA OneMore ==
  ASSUME NEW S, S \subseteq Task, NEW w \in Task, w \notin S
  PROVE  Cardinality(S \cup {w}) = Cardinality(S) + 1 /\ Cardinality(S) \in Nat
  <1>1. IsFiniteSet(S)
    BY Indices, FS_Subset
  <1>2. Cardinality(S) \in Nat
    BY <1>1, FS_CardinalityType
  <1> QED BY <1>1, <1>2, FS_AddElement

\* A set of tasks that loses one counts one less.
LEMMA OneLess ==
  ASSUME NEW S, S \subseteq Task, NEW w \in S
  PROVE  Cardinality(S \ {w}) = Cardinality(S) - 1 /\ Cardinality(S) \in Nat
  <1>1. IsFiniteSet(S)
    BY Indices, FS_Subset
  <1>2. Cardinality(S) \in Nat
    BY <1>1, FS_CardinalityType
  <1> QED BY <1>1, <1>2, FS_RemoveElement

\* A new task takes a place that is free.
LEMMA StartLemma ==
  ASSUME UdpSound, NEW p \in Pair, StartFlow(p)
  PROVE  UdpSound'
  <1>1. PICK k \in Kinds, w \in Task :
          /\ flow[w].pc = "none"
          /\ flow' = [flow EXCEPT ![w] = [NoTask EXCEPT !.pc = "setup", !.pair = p, !.kind = k]]
    BY DEF StartFlow, At
  <1>2. /\ sessions[p] = Nobody /\ sessions' = [sessions EXCEPT ![p] = Setting]
        /\ UNCHANGED <<refs, permits, mux, shared>>
    BY DEF StartFlow
  <1>3. PICK r : r = [NoTask EXCEPT !.pc = "setup", !.pair = p, !.kind = k]
    OBVIOUS
  <1>4. /\ DOMAIN r = TaskFields /\ r.pc = "setup" /\ r.pair = p /\ r.tunnel = Nobody
        /\ r.reply = FALSE /\ r.permit = FALSE /\ r.committed = FALSE
    BY <1>3 DEF NoTask, TaskFields
  <1>5. /\ \A x \in Task : TaskFits(x)
        /\ DOMAIN flow = Task /\ sessions \in [Pair -> Task \cup {Setting, Nobody}]
    BY DEF UdpSound, UdpTypes
  <1>6. DOMAIN flow' = Task /\ flow'[w] = r /\ \A x \in Task \ {w} : flow'[x] = flow[x]
    BY <1>1, <1>3, <1>5
  <1>7. TaskFits(w)'
    BY <1>4, <1>6 DEF TaskFits, Placed, Preparing
  <1>8. \A x \in Task : TaskFits(x)'
    BY <1>5, <1>6, <1>7 DEF TaskFits
  <1>9. sessions' \in [Pair -> Task \cup {Setting, Nobody}]
    BY <1>2, <1>5
  <1>10. UdpTypes'
    BY <1>2, <1>6, <1>8, <1>9 DEF UdpSound, UdpTypes
  <1>11. InPlace(w)' /\ ~InPlace(w)
    BY <1>1, <1>4, <1>6 DEF InPlace, Placed, Preparing
  <1>12. \A x \in Task : InPlace(x) => flow[x].pair # p /\ flow[x].pair \in Pair
    BY <1>2, <1>5, Indices DEF UdpSound, PlaceHeld, TaskFits, InPlace, Placed, Preparing
  <1>13. \A x \in Task \ {w} : InPlace(x)' <=> InPlace(x)
    BY <1>6 DEF InPlace
  <1>14. \A q \in Pair : sessions'[q] = IF q = p THEN Setting ELSE sessions[q]
    BY <1>2, <1>5
  <1>15. PlaceHeld'
    BY <1>4, <1>6, <1>11, <1>12, <1>13, <1>14 DEF UdpSound, PlaceHeld
  <1>16. PlaceFilled'
    BY <1>4, <1>6, <1>11, <1>13, <1>14 DEF UdpSound, PlaceFilled
  <1>17. \A x \in Task : flow[x].pc = "none" =>
           ~flow[x].reply /\ ~flow[x].permit /\ flow[x].pc # "refuse"
    BY <1>5 DEF TaskFits
  <1>18. (\A q \in Pair : Repliers(q)' = Repliers(q)) /\ Holders' = Holders
         /\ Counters' = Counters
    BY <1>1, <1>4, <1>6, <1>17 DEF Repliers, Holders, Counters
  <1>19. Tallied'
    BY <1>2, <1>18 DEF UdpSound, Tallied
  <1>20. SidsHeld'
    <2>1. \A t \in Shared : w \notin shared[t].sids
      BY <1>1, <1>5, Indices DEF UdpSound, SidsHeld, TaskFits
    <2> QED BY <1>2, <1>6, <2>1 DEF UdpSound, UdpTypes, SidsHeld
  <1> QED BY <1>10, <1>15, <1>16, <1>19, <1>20 DEF UdpSound

\* One task's step, with what is counted left to be shown.
LEMMA OneSteps ==
  ASSUME UdpSound, NEW w \in Task, DOMAIN flow' = Task,
         \A x \in Task \ {w} : flow'[x] = flow[x], TaskFits(w)',
         flow'[w].pair = flow[w].pair, flow'[w].committed = flow[w].committed,
         InPlace(w), InPlace(w)', UNCHANGED <<sessions, mux, shared>>,
         flow'[w].tunnel = flow[w].tunnel, refs' \in [Pair -> Int], permits' \in Int
  PROVE  UdpTypes' /\ PlaceHeld' /\ PlaceFilled' /\ SidsHeld'
  <1>1. \A x \in Task : TaskFits(x)'
    BY DEF UdpSound, UdpTypes, TaskFits
  <1>2. UdpTypes'
    BY <1>1 DEF UdpSound, UdpTypes
  <1>3. \A x \in Task : /\ InPlace(x)' <=> InPlace(x)
                        /\ flow'[x].pair = flow[x].pair
                        /\ flow'[x].committed = flow[x].committed
                        /\ flow'[x].tunnel = flow[x].tunnel
    BY DEF InPlace
  <1>4. PlaceHeld' /\ PlaceFilled'
    BY <1>3 DEF UdpSound, PlaceHeld, PlaceFilled
  <1>5. SidsHeld'
    BY <1>3 DEF UdpSound, UdpTypes, SidsHeld
  <1> QED BY <1>2, <1>4, <1>5

\* A permit that is taken is counted with the task that has it, one refused is not.
LEMMA PermitLemma ==
  ASSUME UdpSound, NEW w \in Task, TakePermit(w) \/ Refuse(w)
  PROVE  UdpSound'
  <1>1. /\ TaskFits(w) /\ DOMAIN flow = Task /\ refs \in [Pair -> Int] /\ permits \in Int
        /\ permits = Cardinality(Counters)
    BY DEF UdpSound, UdpTypes, Tallied
  <1>2. UNCHANGED <<sessions, refs, mux, shared>>
    BY DEF TakePermit, Refuse
  <1>3. Counters \subseteq Task /\ Holders \subseteq Counters
    BY DEF Counters, Holders
  <1>4. CASE TakePermit(w)
    <2>1. flow[w].pc = "setup" /\ permits' = permits + 1
      BY <1>4 DEF TakePermit, At
    <2>2. PICK r : flow' = [flow EXCEPT ![w] = r]
                   /\ r = IF permits >= MaxMirageFlows THEN [flow[w] EXCEPT !.pc = "refuse"]
                          ELSE [flow[w] EXCEPT !.pc = "dial", !.permit = TRUE]
      BY <1>1, <1>4 DEF TakePermit, Moved
    <2>3. /\ DOMAIN r = TaskFields /\ r.pair = flow[w].pair /\ r.kind = flow[w].kind
          /\ r.tunnel = flow[w].tunnel /\ r.reply = flow[w].reply
          /\ r.committed = flow[w].committed
          /\ IF permits >= MaxMirageFlows THEN r.pc = "refuse" /\ r.permit = flow[w].permit
             ELSE r.pc = "dial" /\ r.permit = TRUE
      BY <1>1, <2>2 DEF TaskFits, TaskFields
    <2>4. DOMAIN flow' = Task /\ flow'[w] = r /\ \A x \in Task \ {w} : flow'[x] = flow[x]
      BY <1>1, <2>2
    <2>5. flow[w].permit = FALSE /\ flow[w].reply = FALSE
      BY <1>1, <2>1 DEF TaskFits
    <2>6. TaskFits(w)' /\ InPlace(w) /\ InPlace(w)'
      BY <1>1, <2>1, <2>3, <2>4, <2>5 DEF TaskFits, InPlace, Placed, Preparing
    <2>7. UdpTypes' /\ PlaceHeld' /\ PlaceFilled' /\ SidsHeld'
      <3>1. refs' \in [Pair -> Int] /\ permits' \in Int
        BY <1>1, <1>2, <2>1
      <3> QED BY <1>2, <2>3, <2>4, <2>6, <3>1, OneSteps
    <2>8. Counters' = Counters \cup {w} /\ w \notin Counters
      BY <2>1, <2>3, <2>4, <2>5 DEF Counters
    <2>9. permits' = Cardinality(Counters')
      BY <1>1, <1>3, <2>1, <2>8, OneMore
    <2>10. \A q \in Pair : Repliers(q)' = Repliers(q)
      BY <2>3, <2>4 DEF Repliers
    <2>11. Cardinality(Holders') <= MaxMirageFlows
      <3>1. CASE permits >= MaxMirageFlows
        <4>1. Holders' = Holders
          BY <2>3, <2>4, <2>5, <3>1 DEF Holders
        <4> QED BY <4>1 DEF UdpSound, Tallied
      <3>2. CASE ~(permits >= MaxMirageFlows)
        <4>1. Holders' = Holders \cup {w} /\ w \notin Holders
          BY <2>3, <2>4, <2>5, <3>2 DEF Holders
        <4>2. Holders \subseteq Task
          BY <1>3
        <4>3. Cardinality(Holders') = Cardinality(Holders) + 1 /\ Cardinality(Holders) \in Nat
          BY <4>1, <4>2, OneMore
        <4>4. IsFiniteSet(Counters)
          BY <1>3, Indices, FS_Subset
        <4>5. Cardinality(Holders) <= Cardinality(Counters)
          BY <1>3, <4>4, FS_Subset
        <4> QED BY <1>1, <3>2, <4>3, <4>5, UdpAssumption
      <3> QED BY <3>1, <3>2
    <2>12. Tallied'
      BY <1>2, <2>9, <2>10, <2>11 DEF UdpSound, Tallied
    <2> QED BY <2>7, <2>12 DEF UdpSound
  <1>5. CASE Refuse(w)
    <2>1. flow[w].pc = "refuse" /\ permits' = permits - 1
      BY <1>5 DEF Refuse, At
    <2>2. PICK r : flow' = [flow EXCEPT ![w] = r]
                   /\ r = [flow[w] EXCEPT !.pc = "release", !.pending = FALSE, !.got = FALSE,
                                          !.clock = 0, !.quiet = 0, !.limit = 0]
      BY <1>1, <1>5 DEF Refuse, Ended
    <2>3. /\ DOMAIN r = TaskFields /\ r.pair = flow[w].pair /\ r.kind = flow[w].kind
          /\ r.tunnel = flow[w].tunnel /\ r.reply = flow[w].reply
          /\ r.committed = flow[w].committed /\ r.pc = "release" /\ r.permit = flow[w].permit
      BY <1>1, <2>2 DEF TaskFits, TaskFields
    <2>4. DOMAIN flow' = Task /\ flow'[w] = r /\ \A x \in Task \ {w} : flow'[x] = flow[x]
      BY <1>1, <2>2
    <2>5. flow[w].permit = FALSE /\ flow[w].reply = FALSE
      BY <1>1, <2>1 DEF TaskFits
    <2>6. TaskFits(w)' /\ InPlace(w) /\ InPlace(w)'
      BY <1>1, <2>1, <2>3, <2>4, <2>5 DEF TaskFits, InPlace, Placed, Preparing
    <2>7. UdpTypes' /\ PlaceHeld' /\ PlaceFilled' /\ SidsHeld'
      <3>1. refs' \in [Pair -> Int] /\ permits' \in Int
        BY <1>1, <1>2, <2>1
      <3> QED BY <1>2, <2>3, <2>4, <2>6, <3>1, OneSteps
    <2>8. Counters' = Counters \ {w} /\ w \in Counters
      BY <2>1, <2>3, <2>4, <2>5 DEF Counters
    <2>9. permits' = Cardinality(Counters')
      BY <1>1, <1>3, <2>1, <2>8, OneLess
    <2>10. (\A q \in Pair : Repliers(q)' = Repliers(q)) /\ Holders' = Holders
      BY <2>3, <2>4 DEF Repliers, Holders
    <2>11. Tallied'
      BY <1>2, <2>9, <2>10 DEF UdpSound, Tallied
    <2> QED BY <2>7, <2>11 DEF UdpSound
  <1> QED BY <1>4, <1>5

\* The reply socket counts one more user, the task.
LEMMA AcquireLemma ==
  ASSUME UdpSound, NEW w \in Task, AcquireReply(w)
  PROVE  UdpSound'
  <1>1. /\ TaskFits(w) /\ DOMAIN flow = Task /\ refs \in [Pair -> Int] /\ permits \in Int
        /\ flow[w].pc = "acquire" /\ UNCHANGED <<sessions, permits, mux, shared>>
    BY DEF UdpSound, UdpTypes, AcquireReply, At
  <1>2. PICK q \in Pair : q = Reply(flow[w].pair) /\ refs' = [refs EXCEPT ![q] = @ + 1]
    BY <1>1, Indices DEF AcquireReply, TaskFits
  <1>3. PICK pc : pc = IF flow[w].kind = "hijack" THEN "release"
                       ELSE IF flow[w].kind = "mux" THEN "register" ELSE "insert"
    OBVIOUS
  <1>4. flow' = [flow EXCEPT ![w].reply = TRUE, ![w].pc = pc]
    BY <1>3 DEF AcquireReply, Is
  <1>5. /\ pc \in {"release", "register", "insert"}
         /\ (pc = "register" => flow[w].kind = "mux")
    BY <1>3
  <1>6. PICK r : r = [flow[w] EXCEPT !.reply = TRUE, !.pc = pc]
    OBVIOUS
  <1>7. flow' = [flow EXCEPT ![w] = r]
    BY <1>1, <1>4, <1>6
  <1>8. /\ DOMAIN r = TaskFields /\ r.pair = flow[w].pair /\ r.kind = flow[w].kind
        /\ r.tunnel = flow[w].tunnel /\ r.reply = TRUE /\ r.permit = flow[w].permit
        /\ r.committed = flow[w].committed /\ r.pc = pc
    BY <1>1, <1>6 DEF TaskFits, TaskFields
  <1>9. DOMAIN flow' = Task /\ flow'[w] = r /\ \A x \in Task \ {w} : flow'[x] = flow[x]
    BY <1>1, <1>7
  <1>10. flow[w].reply = FALSE
    BY <1>1 DEF TaskFits
  <1>11. TaskFits(w)' /\ InPlace(w) /\ InPlace(w)'
    BY <1>1, <1>5, <1>8, <1>9 DEF TaskFits, InPlace, Placed, Preparing
  <1>12. UdpTypes' /\ PlaceHeld' /\ PlaceFilled' /\ SidsHeld'
    <2>1. refs' \in [Pair -> Int] /\ permits' \in Int
      BY <1>1, <1>2
    <2> QED BY <1>1, <1>8, <1>9, <1>11, <2>1, OneSteps
  <1>13. Holders' = Holders /\ Counters' = Counters
    BY <1>1, <1>5, <1>8, <1>9 DEF Holders, Counters
  <1>14. Repliers(q)' = Repliers(q) \cup {w} /\ w \notin Repliers(q)
    BY <1>2, <1>8, <1>9, <1>10 DEF Repliers
  <1>15. \A x \in Pair \ {q} : Repliers(x)' = Repliers(x)
    BY <1>2, <1>8, <1>9, <1>10 DEF Repliers
  <1>16. refs'[q] = Cardinality(Repliers(q)')
    <2>1. Repliers(q) \subseteq Task
      BY DEF Repliers
    <2>2. refs'[q] = refs[q] + 1 /\ refs[q] = Cardinality(Repliers(q))
      BY <1>1, <1>2 DEF UdpSound, Tallied
    <2> QED BY <1>14, <2>1, <2>2, OneMore
  <1>17. Tallied'
    BY <1>1, <1>2, <1>13, <1>15, <1>16 DEF UdpSound, Tallied
  <1> QED BY <1>12, <1>17 DEF UdpSound

\* The number is in the tunnel from here to the end.
LEMMA RegisterLemma ==
  ASSUME UdpSound, NEW w \in Task, Register(w)
  PROVE  UdpSound'
  <1>1. /\ TaskFits(w) /\ DOMAIN flow = Task /\ flow[w].pc = "register"
        /\ UNCHANGED <<sessions, refs, permits, mux>> /\ DOMAIN shared = Shared
        /\ DOMAIN mux = {"tunnel", "lock"} /\ mux.tunnel \in Shared \cup {Nobody}
        /\ \A x \in Shared : DOMAIN shared[x] = TunnelFields /\ shared[x].sids \subseteq Task
    BY DEF UdpSound, UdpTypes, Register, At
  <1>2. InPlace(w) /\ flow[w].tunnel \in Shared
    BY <1>1 DEF TaskFits, InPlace, Placed, Preparing
  <1>3. CASE flow' = Ended(w) /\ UNCHANGED shared
    BY <1>1, <1>2, <1>3, OneEnds
  <1>4. CASE /\ shared' = [shared EXCEPT ![flow[w].tunnel].sids = @ \cup {w}]
             /\ flow' = [flow EXCEPT ![w].pc = "insert"]
    <2>1. PICK r : r = [flow[w] EXCEPT !.pc = "insert"]
      OBVIOUS
    <2>2. /\ DOMAIN r = TaskFields /\ r.pair = flow[w].pair /\ r.kind = flow[w].kind
          /\ r.tunnel = flow[w].tunnel /\ r.reply = flow[w].reply
          /\ r.permit = flow[w].permit /\ r.committed = flow[w].committed /\ r.pc = "insert"
      BY <1>1, <2>1 DEF TaskFits, TaskFields
    <2>3. DOMAIN flow' = Task /\ flow'[w] = r /\ \A x \in Task \ {w} : flow'[x] = flow[x]
      BY <1>1, <1>4, <2>1
    <2>4. TaskFits(w)' /\ InPlace(w)'
      BY <1>1, <2>2, <2>3 DEF TaskFits, InPlace, Placed, Preparing
    <2>5. DOMAIN shared' = Shared
          /\ \A x \in Shared : /\ DOMAIN shared'[x] = TunnelFields
                               /\ shared'[x].sids = shared[x].sids \cup
                                    (IF x = flow[w].tunnel THEN {w} ELSE {})
      BY <1>1, <1>2, <1>4 DEF TunnelFields
    <2>6. \A x \in Shared : /\ shared'[x].sids \subseteq shared[x].sids \cup {w}
                            /\ w \in shared'[x].sids => flow'[w].tunnel = x
      BY <2>2, <2>3, <2>5 DEF UdpSound, SidsHeld
    <2> QED BY <1>1, <1>2, <2>2, <2>3, <2>4, <2>5, <2>6, OneMoves
  <1> QED BY <1>3, <1>4 DEF Register, Moved

\* The place is the task's own now.
LEMMA InsertLemma ==
  ASSUME UdpSound, NEW w \in Task, Insert(w)
  PROVE  UdpSound'
  <1>1. /\ TaskFits(w) /\ DOMAIN flow = Task /\ flow[w].pc = "insert"
        /\ UNCHANGED <<refs, permits, mux, shared>>
        /\ sessions \in [Pair -> Task \cup {Setting, Nobody}]
        /\ sessions' = [sessions EXCEPT ![flow[w].pair] = w]
    BY DEF UdpSound, UdpTypes, Insert, At
  <1>2. PICK pending, limit :
          flow' = [flow EXCEPT ![w].pc = "run", ![w].committed = TRUE, ![w].pending = pending,
                               ![w].limit = limit]
    BY DEF Insert
  <1>3. PICK r : r = [flow[w] EXCEPT !.pc = "run", !.committed = TRUE, !.pending = pending,
                                     !.limit = limit]
    OBVIOUS
  <1>4. /\ DOMAIN r = TaskFields /\ r.pair = flow[w].pair /\ r.kind = flow[w].kind
        /\ r.tunnel = flow[w].tunnel /\ r.reply = flow[w].reply
        /\ r.permit = flow[w].permit /\ r.committed = TRUE /\ r.pc = "run"
    BY <1>1, <1>3 DEF TaskFits, TaskFields
  <1>5. flow' = [flow EXCEPT ![w] = r]
    BY <1>1, <1>2, <1>3
  <1>6. DOMAIN flow' = Task /\ flow'[w] = r /\ \A x \in Task \ {w} : flow'[x] = flow[x]
    BY <1>1, <1>5
  <1>7. flow[w].pair \in Pair /\ ~flow[w].committed /\ InPlace(w)
    BY <1>1 DEF TaskFits, InPlace, Placed, Preparing
  <1>8. TaskFits(w)' /\ InPlace(w)'
    BY <1>1, <1>4, <1>6 DEF TaskFits, InPlace, Placed, Preparing
  <1>9. \A x \in Task : TaskFits(x)'
    BY <1>6, <1>8 DEF UdpSound, UdpTypes, TaskFits
  <1>10. UdpTypes'
    BY <1>1, <1>6, <1>7, <1>9 DEF UdpSound, UdpTypes
  <1>11. sessions[flow[w].pair] = Setting
    BY <1>7 DEF UdpSound, PlaceHeld
  <1>12. \A p \in Pair : sessions'[p] = IF p = flow[w].pair THEN w ELSE sessions[p]
    BY <1>1, <1>7
  <1>13. \A x \in Task \ {w} : InPlace(x) => flow[x].pair # flow[w].pair
    BY <1>7, <1>11, Indices DEF UdpSound, PlaceHeld
  <1>14. \A x \in Task \ {w} : InPlace(x)' <=> InPlace(x)
    BY <1>6 DEF InPlace
  <1>15. \A x \in Task : InPlace(x) => flow[x].pair \in Pair
    BY DEF UdpSound, UdpTypes, TaskFits, InPlace, Placed, Preparing
  <1>16. PlaceHeld'
    BY <1>4, <1>6, <1>7, <1>12, <1>13, <1>14, <1>15 DEF UdpSound, PlaceHeld
  <1>17. PlaceFilled'
    BY <1>4, <1>6, <1>8, <1>12, <1>14, <1>7 DEF UdpSound, PlaceFilled
  <1>18. (\A q \in Pair : Repliers(q)' = Repliers(q)) /\ Holders' = Holders
         /\ Counters' = Counters
    BY <1>1, <1>4, <1>6 DEF Repliers, Holders, Counters
  <1>19. Tallied'
    BY <1>1, <1>18 DEF UdpSound, Tallied
  <1>20. SidsHeld'
    BY <1>1, <1>4, <1>6 DEF UdpSound, UdpTypes, SidsHeld
  <1> QED BY <1>10, <1>16, <1>17, <1>19, <1>20 DEF UdpSound

-----------------------------------------------------------------------------
(* The guards.                                                             *)

\* The first guard gives back the permit and the shared tunnel.
LEMMA ReleaseLemma ==
  ASSUME UdpSound, NEW w \in Task, Release(w)
  PROVE  UdpSound'
  <1>1. /\ TaskFits(w) /\ DOMAIN flow = Task /\ flow[w].pc = "release"
        /\ UNCHANGED <<sessions, refs, mux>> /\ permits \in Int
        /\ permits' = IF flow[w].permit THEN permits - 1 ELSE permits
        /\ permits = Cardinality(Counters)
        /\ flow' = [flow EXCEPT ![w].pc = "slot", ![w].permit = FALSE, ![w].tunnel = Nobody]
        /\ shared' = [t \in Shared |-> [shared[t] EXCEPT !.sids = @ \ {w}]]
    BY DEF UdpSound, UdpTypes, Tallied, Release, At
  <1>2. PICK r : r = [flow[w] EXCEPT !.pc = "slot", !.permit = FALSE, !.tunnel = Nobody]
    OBVIOUS
  <1>3. /\ DOMAIN r = TaskFields /\ r.pair = flow[w].pair /\ r.kind = flow[w].kind
        /\ r.tunnel = Nobody /\ r.reply = flow[w].reply /\ r.permit = FALSE
        /\ r.committed = flow[w].committed /\ r.pc = "slot"
    BY <1>1, <1>2 DEF TaskFits, TaskFields
  <1>4. DOMAIN flow' = Task /\ flow'[w] = r /\ \A x \in Task \ {w} : flow'[x] = flow[x]
    BY <1>1, <1>2
  <1>5. TaskFits(w)'
    BY <1>1, <1>3, <1>4 DEF TaskFits, Placed, Preparing
  <1>6. \A x \in Task : TaskFits(x)'
    BY <1>4, <1>5 DEF UdpSound, UdpTypes, TaskFits
  <1>7. DOMAIN shared' = Shared
        /\ \A t \in Shared : /\ DOMAIN shared'[t] = TunnelFields
                             /\ shared'[t].sids = shared[t].sids \ {w}
                             /\ shared[t].sids \subseteq Task
    BY <1>1 DEF UdpSound, UdpTypes, TunnelFields
  <1>8. UdpTypes'
    BY <1>1, <1>4, <1>6, <1>7 DEF UdpSound, UdpTypes
  <1>9. \A x \in Task : /\ InPlace(x)' <=> InPlace(x)
                        /\ flow'[x].pair = flow[x].pair
                        /\ flow'[x].committed = flow[x].committed
    BY <1>1, <1>3, <1>4 DEF InPlace, Placed
  <1>10. PlaceHeld' /\ PlaceFilled'
    BY <1>1, <1>9 DEF UdpSound, PlaceHeld, PlaceFilled
  <1>11. SidsHeld'
    BY <1>4, <1>7 DEF UdpSound, SidsHeld
  <1>12. \A q \in Pair : Repliers(q)' = Repliers(q)
    BY <1>3, <1>4 DEF Repliers
  <1>13. CASE flow[w].permit
    <2>1. /\ Holders' = Holders \ {w} /\ w \in Holders /\ Holders \subseteq Task
          /\ Counters' = Counters \ {w} /\ w \in Counters /\ Counters \subseteq Task
      BY <1>1, <1>3, <1>4, <1>13 DEF Holders, Counters
    <2>2. Cardinality(Holders') = Cardinality(Holders) - 1 /\ Cardinality(Holders) \in Nat
      BY <2>1, OneLess
    <2>3. Cardinality(Counters') = Cardinality(Counters) - 1
      BY <2>1, OneLess
    <2>4. Cardinality(Holders) <= MaxMirageFlows /\ MaxMirageFlows \in Int
      BY UdpAssumption DEF UdpSound, Tallied
    <2>5. Cardinality(Holders') <= MaxMirageFlows
      BY <2>2, <2>4
    <2>6. Tallied'
      BY <1>1, <1>12, <1>13, <2>3, <2>5 DEF UdpSound, Tallied
    <2> QED BY <1>8, <1>10, <1>11, <2>6 DEF UdpSound
  <1>14. CASE ~flow[w].permit
    <2>1. Holders' = Holders /\ Counters' = Counters
      BY <1>1, <1>3, <1>4, <1>14 DEF Holders, Counters
    <2>2. Tallied'
      BY <1>1, <1>12, <1>14, <2>1 DEF UdpSound, Tallied
    <2> QED BY <1>8, <1>10, <1>11, <2>2 DEF UdpSound
  <1> QED BY <1>13, <1>14

\* The second guard empties the place, if it still is the task's.
LEMMA LeaveLemma ==
  ASSUME UdpSound, NEW w \in Task, LeaveTable(w)
  PROVE  UdpSound'
  <1>1. /\ TaskFits(w) /\ DOMAIN flow = Task /\ flow[w].pc = "slot"
        /\ UNCHANGED <<refs, permits, mux, shared>>
        /\ sessions \in [Pair -> Task \cup {Setting, Nobody}]
        /\ flow' = [flow EXCEPT ![w].pc = "refs"]
    BY DEF UdpSound, UdpTypes, LeaveTable, At, Moved
  <1>2. PICK r : r = [flow[w] EXCEPT !.pc = "refs"]
    OBVIOUS
  <1>3. /\ DOMAIN r = TaskFields /\ r.pair = flow[w].pair /\ r.kind = flow[w].kind
        /\ r.tunnel = flow[w].tunnel /\ r.reply = flow[w].reply /\ r.permit = flow[w].permit
        /\ r.committed = flow[w].committed /\ r.pc = "refs"
    BY <1>1, <1>2 DEF TaskFits, TaskFields
  <1>4. DOMAIN flow' = Task /\ flow'[w] = r /\ \A x \in Task \ {w} : flow'[x] = flow[x]
    BY <1>1, <1>2
  <1>5. TaskFits(w)' /\ InPlace(w) /\ ~InPlace(w)' /\ flow[w].pair \in Pair
    BY <1>1, <1>3, <1>4 DEF TaskFits, InPlace, Placed, Preparing
  <1>6. \A x \in Task : TaskFits(x)'
    BY <1>4, <1>5 DEF UdpSound, UdpTypes, TaskFits
  <1>7. sessions[flow[w].pair] = IF flow[w].committed THEN w ELSE Setting
    BY <1>5 DEF UdpSound, PlaceHeld
  <1>8. sessions' = [sessions EXCEPT ![flow[w].pair] = Nobody]
    BY <1>7 DEF LeaveTable, Mine
  <1>9. UdpTypes'
    BY <1>1, <1>4, <1>5, <1>6, <1>8 DEF UdpSound, UdpTypes
  <1>10. \A p \in Pair : sessions'[p] = IF p = flow[w].pair THEN Nobody ELSE sessions[p]
    BY <1>1, <1>8
  <1>11. \A x \in Task \ {w} : InPlace(x) => flow[x].pair # flow[w].pair
    BY <1>5, <1>7, Indices DEF UdpSound, PlaceHeld
  <1>12. \A x \in Task \ {w} : InPlace(x)' <=> InPlace(x)
    BY <1>4 DEF InPlace
  <1>13. \A x \in Task : InPlace(x) => flow[x].pair \in Pair
    BY DEF UdpSound, UdpTypes, TaskFits, InPlace, Placed, Preparing
  <1>14. PlaceHeld'
    BY <1>4, <1>5, <1>10, <1>11, <1>12, <1>13 DEF UdpSound, PlaceHeld
  <1>15. PlaceFilled'
    BY <1>4, <1>5, <1>10, <1>12 DEF UdpSound, PlaceFilled
  <1>16. (\A q \in Pair : Repliers(q)' = Repliers(q)) /\ Holders' = Holders
         /\ Counters' = Counters
    BY <1>1, <1>3, <1>4 DEF Repliers, Holders, Counters
  <1>17. Tallied'
    BY <1>1, <1>16 DEF UdpSound, Tallied
  <1>18. SidsHeld'
    BY <1>1, <1>3, <1>4 DEF UdpSound, UdpTypes, SidsHeld
  <1> QED BY <1>9, <1>14, <1>15, <1>17, <1>18 DEF UdpSound

\* The last guard gives back the reply socket.
LEMMA ReturnLemma ==
  ASSUME UdpSound, NEW w \in Task, ReturnReply(w)
  PROVE  UdpSound'
  <1>1. /\ TaskFits(w) /\ DOMAIN flow = Task /\ flow[w].pc = "refs"
        /\ UNCHANGED <<sessions, permits, mux, shared>> /\ refs \in [Pair -> Int]
        /\ refs' = IF flow[w].reply THEN [refs EXCEPT ![Reply(flow[w].pair)] = @ - 1] ELSE refs
        /\ flow' = [flow EXCEPT ![w] = NoTask]
    BY DEF UdpSound, UdpTypes, ReturnReply, At, GivesBack
  <1>2. /\ DOMAIN NoTask = TaskFields /\ NoTask.pc = "none" /\ NoTask.tunnel = Nobody
        /\ NoTask.kind = "none" /\ NoTask.reply = FALSE /\ NoTask.permit = FALSE
        /\ NoTask.committed = FALSE
    BY DEF NoTask, TaskFields
  <1>3. DOMAIN flow' = Task /\ flow'[w] = NoTask /\ \A x \in Task \ {w} : flow'[x] = flow[x]
    BY <1>1
  <1>4. TaskFits(w)' /\ ~InPlace(w) /\ ~InPlace(w)' /\ flow[w].pair \in Pair
        /\ flow[w].tunnel = Nobody /\ ~flow[w].permit
    BY <1>1, <1>2, <1>3 DEF TaskFits, InPlace, Placed, Preparing
  <1>5. \A x \in Task : TaskFits(x)'
    BY <1>3, <1>4 DEF UdpSound, UdpTypes, TaskFits
  <1>6. PICK q \in Pair : q = Reply(flow[w].pair)
    BY <1>4, Indices
  <1>7. refs' \in [Pair -> Int]
    BY <1>1, <1>6
  <1>8. UdpTypes'
    BY <1>1, <1>3, <1>5, <1>7 DEF UdpSound, UdpTypes
  <1>9. \A x \in Task : /\ InPlace(x)' <=> InPlace(x)
                        /\ InPlace(x) => flow'[x] = flow[x]
    BY <1>3, <1>4 DEF InPlace
  <1>10. PlaceHeld' /\ PlaceFilled'
    BY <1>1, <1>9 DEF UdpSound, PlaceHeld, PlaceFilled
  <1>11. Holders' = Holders /\ Counters' = Counters
    BY <1>1, <1>2, <1>3, <1>4 DEF Holders, Counters
  <1>12. Tallied'
    <2>1. CASE flow[w].reply
      <3>1. Repliers(q)' = Repliers(q) \ {w} /\ w \in Repliers(q) /\ Repliers(q) \subseteq Task
        BY <1>2, <1>3, <1>6, <2>1 DEF Repliers
      <3>2. \A x \in Pair \ {q} : Repliers(x)' = Repliers(x)
        BY <1>2, <1>3, <1>6 DEF Repliers
      <3>3. refs[q] = Cardinality(Repliers(q)) /\ refs'[q] = refs[q] - 1
            /\ \A x \in Pair \ {q} : refs'[x] = refs[x]
        BY <1>1, <1>6, <2>1 DEF UdpSound, Tallied
      <3>4. refs'[q] = Cardinality(Repliers(q)')
        BY <3>1, <3>3, OneLess
      <3> QED BY <1>1, <1>11, <3>2, <3>3, <3>4 DEF UdpSound, Tallied
    <2>2. CASE ~flow[w].reply
      <3>1. \A x \in Pair : Repliers(x)' = Repliers(x)
        BY <1>2, <1>3, <2>2 DEF Repliers
      <3> QED BY <1>1, <1>11, <2>2, <3>1 DEF UdpSound, Tallied
    <2> QED BY <2>1, <2>2
  <1>13. SidsHeld'
    <2>1. \A t \in Shared : w \notin shared[t].sids
      BY <1>4, Indices DEF UdpSound, SidsHeld
    <2> QED BY <1>1, <1>3, <2>1 DEF UdpSound, UdpTypes, SidsHeld
  <1> QED BY <1>8, <1>10, <1>12, <1>13 DEF UdpSound

\* The invariant is inductive.
LEMMA UdpSoundStep == UdpSound /\ [ClientUdpNext]_clientUdpVars => UdpSound'
  <1> SUFFICES ASSUME UdpSound, [ClientUdpNext]_clientUdpVars PROVE UdpSound'
    OBVIOUS
  <1>1. ASSUME NEW w \in Task, Setup(w) \/ Teardown(w) PROVE UdpSound'
    BY <1>1, QuietSetup, PermitLemma, AcquireLemma, RegisterLemma, InsertLemma, ReleaseLemma,
       LeaveLemma, ReturnLemma DEF Setup, Teardown
  <1>2. CASE UNCHANGED clientUdpVars
    BY <1>2 DEF clientUdpVars, UdpSound, UdpTypes, TaskFits, PlaceHeld, PlaceFilled, InPlace,
                Tallied, Repliers, Holders, Counters, SidsHeld
  <1> QED BY <1>1, <1>2, QuietWork, QuietRest, StartLemma DEF ClientUdpNext

\* Every place, permit, reply socket and number in a shared tunnel is held by the tasks that
\* the flow's guards say, at every step of its way.
THEOREM UdpAlwaysSound == ClientUdpSpec => []UdpSound
  <1> QED BY UdpSoundInit, UdpSoundStep, PTL DEF ClientUdpSpec

\* However set-ups fail and flows end between each other's guards: a place in the table has a
\* task behind it, and what is counted is held by tasks that are there, each once.
THEOREM FlowsAlwaysExact == ClientUdpSpec => []FlowsExact
  <1>1. UdpSound => FlowsExact
    <2> SUFFICES ASSUME UdpSound PROVE NoBlackHole /\ Accounted
      BY DEF FlowsExact
    <2>1. \A w \in Task : TaskFits(w)
      BY DEF UdpSound, UdpTypes
    <2>2. NoBlackHole
      <3> SUFFICES ASSUME NEW p \in Pair, sessions[p] # Nobody
                   PROVE /\ sessions[p] = Setting =>
                             \E w \in Busy : /\ flow[w].pair = p /\ ~flow[w].committed
                                            /\ flow[w].pc \in Preparing \cup {"release", "slot"}
                         /\ sessions[p] \in Task =>
                             /\ sessions[p] \in Busy /\ flow[sessions[p]].pair = p
                             /\ flow[sessions[p]].pc \in {"run", "release", "slot"}
        BY Indices DEF NoBlackHole, Live
      <3>1. PICK w \in Task : /\ InPlace(w) /\ flow[w].pair = p
                             /\ sessions[p] = IF flow[w].committed THEN w ELSE Setting
        BY DEF UdpSound, PlaceFilled
      <3>2. w \in Busy
        BY <3>1 DEF Busy, At, InPlace, Placed, Preparing
      <3> QED BY <2>1, <3>1, <3>2, Indices DEF TaskFits, InPlace, Placed
    <2>3. /\ \A r \in Pair : Repliers(r) = {w \in Busy : flow[w].reply /\ Reply(flow[w].pair) = r}
          /\ Counters = {w \in Busy : flow[w].permit \/ At(w, "refuse")}
          /\ Holders = {w \in Busy : flow[w].permit}
      BY <2>1 DEF TaskFits, Repliers, Counters, Holders, Busy, At
    <2>4. \A t \in Shared : \A w \in shared[t].sids : w \in Busy /\ flow[w].tunnel = t
      BY <2>1, Indices DEF UdpSound, UdpTypes, SidsHeld, TaskFits, Busy, At
    <2> QED BY <2>2, <2>3, <2>4 DEF UdpSound, Tallied, Accounted
  <1> QED BY <1>1, UdpAlwaysSound, PTL

-----------------------------------------------------------------------------
(* The network.                                                            *)

\* How long after its resolution an entry lives at most.
Lifetime(n) == IF n = KeptName THEN StaleCap + Ttl - 1 ELSE Ttl

\* The cache: one entry of a name, none from the future, none that lives longer than it may.
EntryRecord == [name : Name, expiry : Int, at : Int]
EntriesFit ==
  /\ second \in Nat /\ entries \subseteq EntryRecord
  /\ \A e \in entries : e.at <= second /\ e.expiry <= e.at + Lifetime(e.name)
  /\ \A e, f \in entries : e.name = f.name => e = f

\* What the keeper extends is not too old to be, and what it has held outlasts its sleep.
ExtendsRight ==
  asker[Keeper] = "extends" /\ extended # 0
    => /\ second + Ttl <= extended /\ extended <= second + Lifetime(KeptName)
       /\ \A e \in entries : e.name = KeptName => extended <= e.at + Lifetime(KeptName)
Outlasts ==
  asker[Keeper] = "sleep" /\ held
    => \E e \in entries : e.name = KeptName /\ wake < e.expiry
KeeperFits ==
  /\ asker \in [Asker -> {"idle", "queued", "asking", "extends", "sleep"}]
  /\ wanted \in [Asker -> Name] /\ wanted[Keeper] = KeptName
  /\ wake \in Nat /\ extended \in Int /\ held \in BOOLEAN
  /\ wake = 0 => ~held
  /\ wake <= second + Interval /\ (asker[Keeper] = "sleep" => second <= wake)
ServedFits ==
  served.age < IF served.name = KeptName THEN StaleCap + Ttl ELSE Ttl

ResolverSound == EntriesFit /\ KeeperFits /\ ExtendsRight /\ Outlasts /\ ServedFits

\* The durations are in the order the code gives them.
LEMMA Spans ==
  /\ Ttl \in Nat /\ Interval \in Nat /\ StaleCap \in Nat
  /\ 0 < Ttl /\ 0 < Interval /\ 0 < StaleCap /\ Interval < Ttl
  /\ KeptName \in Name /\ Keeper \in Asker /\ Keeper \notin Dialer
  /\ \A n \in Name : Lifetime(n) \in Int /\ Ttl <= Lifetime(n)
  BY NetworkAssumption DEF Asker, Lifetime

\* No entry and no question at the start.
LEMMA ResolverSoundInit == ResolverInit => ResolverSound
  <1> SUFFICES ASSUME ResolverInit PROVE ResolverSound
    OBVIOUS
  <1> USE Spans DEF ResolverInit
  <1>1. EntriesFit
    BY DEF EntriesFit
  <1>2. KeeperFits
    <2>1. asker \in [Asker -> {"idle", "queued", "asking", "extends", "sleep"}]
      OBVIOUS
    <2>2. wanted \in [Asker -> Name] /\ wanted[Keeper] = KeptName
      OBVIOUS
    <2>3. asker[Keeper] = "queued" /\ held = FALSE
      OBVIOUS
    <2>4. wake \in Nat /\ extended \in Int /\ wake <= second + Interval
      OBVIOUS
    <2> QED BY <2>1, <2>2, <2>3, <2>4 DEF KeeperFits
  <1>3. ExtendsRight /\ Outlasts
    BY DEF ExtendsRight, Outlasts
  <1>4. ServedFits
    BY DEF ServedFits, NothingServed
  <1> QED BY <1>1, <1>2, <1>3, <1>4 DEF ResolverSound

\* What is there of a name is its one entry.
LEMMA OneEntry ==
  ASSUME EntriesFit, NEW n, \E e \in entries : e.name = n
  PROVE  EntryOf(n) \in entries /\ EntryOf(n).name = n
  BY DEF EntryOf

\* A step that leaves the entries and the time alone.
LEMMA EntriesUntouched ==
  ASSUME EntriesFit, entries' = entries, second' = second
  PROVE  EntriesFit'
  BY DEF EntriesFit

\* An answer makes an entry that lives its time from now.
LEMMA AnswerLemma ==
  ASSUME ResolverSound, NEW c \in Asker, AnswerComes(c)
  PROVE  ResolverSound'
  <1> USE Spans
  <1> DEFINE n == wanted[c]
             new == [name |-> n, expiry |-> second + Ttl, at |-> second]
  <1>1. n \in Name /\ (c = Keeper => n = KeptName) /\ second' = second
        /\ wanted' = wanted /\ extended' = extended /\ served' = served
    BY DEF ResolverSound, KeeperFits, AnswerComes
  <1>2. Room \subseteq entries
    BY DEF Room
  <1>3. entries' = {e \in Room : e.name # n} \cup {new}
    BY DEF AnswerComes, Inserted
  <1>4. new \in EntryRecord /\ new.at = second /\ new.expiry = second + Ttl /\ new.name = n
    BY <1>1 DEF EntryRecord, ResolverSound, EntriesFit
  <1> HIDE DEF n, new
  <1>5. EntriesFit'
    BY <1>1, <1>2, <1>3, <1>4 DEF ResolverSound, EntriesFit
  <1>6. /\ asker' = [asker EXCEPT ![c] = IF c = Keeper THEN "sleep" ELSE "idle"]
        /\ wake' = IF c = Keeper THEN second + Interval ELSE wake
    BY DEF AnswerComes, Rests
  <1>7. held' = IF n = KeptName THEN c = Keeper \/ held
                ELSE held /\ \E e \in Room : e.name = KeptName
    BY DEF AnswerComes, n
  <1>8. KeeperFits'
    <2>1. held' \in BOOLEAN
      BY <1>7 DEF ResolverSound, KeeperFits
    <2>2. wake' \in Nat /\ (wake' = 0 => ~held')
      BY <1>6, <1>7 DEF ResolverSound, KeeperFits, EntriesFit
    <2>3. asker' \in [Asker -> {"idle", "queued", "asking", "extends", "sleep"}]
          /\ wake' <= second' + Interval /\ (asker'[Keeper] = "sleep" => second' <= wake')
      BY <1>1, <1>6 DEF ResolverSound, KeeperFits, EntriesFit
    <2> QED BY <1>1, <2>1, <2>2, <2>3 DEF ResolverSound, KeeperFits
  <1>9. ExtendsRight'
    <2> SUFFICES ASSUME asker'[Keeper] = "extends", extended' # 0 PROVE ExtendsRight'
      BY DEF ExtendsRight
    <2>1. asker[Keeper] = "extends" /\ extended # 0
      BY <1>1, <1>6 DEF ResolverSound, KeeperFits
    <2>2. \A e \in entries' : e.name = KeptName => extended' <= e.at + Lifetime(KeptName)
      BY <1>1, <1>2, <1>3, <1>4, <2>1 DEF ResolverSound, ExtendsRight
    <2> QED BY <1>1, <2>1, <2>2 DEF ResolverSound, ExtendsRight
  <1>10. Outlasts'
    <2> SUFFICES ASSUME asker'[Keeper] = "sleep", held'
                 PROVE  \E e \in entries' : e.name = KeptName /\ wake' < e.expiry
      BY DEF Outlasts
    <2>1. CASE n = KeptName
      <3>1. wake' < second + Ttl
        BY <1>6 DEF ResolverSound, KeeperFits, EntriesFit
      <3> QED BY <1>3, <1>4, <2>1, <3>1
    <2>2. CASE n # KeptName
      <3>1. c # Keeper /\ held /\ \E e \in Room : e.name = KeptName
        BY <1>1, <1>7, <2>2
      <3>2. PICK e \in Room : e.name = KeptName
        BY <3>1
      <3>3. asker[Keeper] = "sleep" /\ wake' = wake
        BY <1>6, <3>1 DEF ResolverSound, KeeperFits
      <3>4. wake < e.expiry
        BY <1>2, <3>1, <3>2, <3>3 DEF ResolverSound, Outlasts, EntriesFit
      <3>5. e \in entries'
        BY <1>3, <2>2, <3>2
      <3> QED BY <3>2, <3>3, <3>4, <3>5
    <2> QED BY <2>1, <2>2
  <1>11. ServedFits'
    BY <1>1 DEF ResolverSound, ServedFits
  <1> QED BY <1>5, <1>8, <1>9, <1>10, <1>11 DEF ResolverSound

\* A resolution is served from an entry that has not expired, or begins to ask.
LEMMA ResolvesLemma ==
  ASSUME ResolverSound, NEW c \in Dialer, NEW n \in Name, Resolves(c, n)
  PROVE  ResolverSound'
  <1> USE Spans DEF ResolverSound
  <1>1. /\ wanted' = [wanted EXCEPT ![c] = n] /\ second' = second /\ entries' = entries
        /\ wake' = wake /\ extended' = extended /\ held' = held
        /\ c \in Asker /\ c # Keeper
    BY DEF Resolves, Asker
  <1>2. asker' \in [Asker -> {"idle", "queued", "asking", "extends", "sleep"}]
        /\ asker'[Keeper] = asker[Keeper]
    BY <1>1 DEF Resolves, KeeperFits
  <1>3. KeeperFits'
    BY <1>1, <1>2 DEF KeeperFits
  <1>4. EntriesFit'
    BY <1>1, EntriesUntouched
  <1>5. ExtendsRight' /\ Outlasts'
    BY <1>1, <1>2 DEF ExtendsRight, Outlasts
  <1>6. ServedFits'
    <2>1. CASE FreshIn(n)
      <3>1. PICK e \in entries : e.name = n /\ e.expiry > second
        BY <2>1 DEF FreshIn
      <3>2. EntryOf(n) \in entries /\ EntryOf(n).name = n
        BY <3>1, OneEntry
      <3>3. EntryOf(n) = e
        BY <3>1, <3>2 DEF EntriesFit
      <3>4. /\ e.at \in Int /\ e.expiry \in Int /\ second \in Int
            /\ e.expiry <= e.at + Lifetime(n) /\ Lifetime(n) \in Int
        BY <3>1 DEF EntriesFit, EntryRecord
      <3>5. second - e.at < Lifetime(n)
        BY <3>1, <3>4
      <3>6. served' = [name |-> n, age |-> second - e.at]
        BY <2>1, <3>3 DEF Resolves
      <3>7. served'.name = n /\ served'.age = second - e.at
        BY <3>6
      <3>8. second - e.at < IF n = KeptName THEN StaleCap + Ttl ELSE Ttl
        BY <3>4, <3>5 DEF Lifetime
      <3> QED BY <3>7, <3>8 DEF ServedFits
    <2>2. CASE ~FreshIn(n)
      BY <2>2 DEF Resolves, ServedFits
    <2> QED BY <2>1, <2>2
  <1> QED BY <1>3, <1>4, <1>5, <1>6

\* A permit to ask changes nothing else.
LEMMA PermittedLemma ==
  ASSUME ResolverSound, NEW c \in Asker, Permitted(c)
  PROVE  ResolverSound'
  <1> USE Spans DEF ResolverSound
  <1>1. UNCHANGED <<second, entries, wanted, wake, extended, held, served>>
        /\ asker' = [asker EXCEPT ![c] = "asking"]
    BY DEF Permitted
  <1>2. KeeperFits'
    BY <1>1 DEF KeeperFits
  <1>3. ExtendsRight' /\ Outlasts'
    BY <1>1 DEF ExtendsRight, Outlasts, KeeperFits
  <1>4. EntriesFit' /\ ServedFits'
    BY <1>1, EntriesUntouched DEF ServedFits
  <1> QED BY <1>2, <1>3, <1>4

\* A failure serves nothing, and lets the kept name's entry live up to the limit.
LEMMA FailsLemma ==
  ASSUME ResolverSound, NEW c \in Asker, AnswerFails(c)
  PROVE  ResolverSound'
  <1> USE Spans DEF ResolverSound
  <1>1. UNCHANGED <<second, entries, wanted, held, served>>
    BY DEF AnswerFails
  <1>2. EntriesFit' /\ ServedFits'
    BY <1>1, EntriesUntouched DEF ServedFits
  <1>3. CASE c = Keeper
    <2>1. /\ asker' = [asker EXCEPT ![Keeper] = "extends"] /\ wake' = wake
          /\ extended' = IF \E e \in entries : e.name = KeptName
                         THEN ExtendedExpiry(EntryOf(KeptName)) ELSE 0
      BY <1>3 DEF AnswerFails
    <2>2. CASE \E e \in entries : e.name = KeptName
      <3>1. PICK e \in entries : e = EntryOf(KeptName) /\ e.name = KeptName
        BY <2>2, OneEntry
      <3>2. /\ e.at \in Int /\ e.expiry \in Int /\ second \in Int /\ e.at <= second
            /\ e.expiry <= e.at + StaleCap + Ttl - 1
        BY <3>1 DEF EntriesFit, EntryRecord, Lifetime
      <3>3. extended' = IF second - e.at >= StaleCap THEN 0
                        ELSE IF e.expiry > second + Ttl THEN e.expiry ELSE second + Ttl
        BY <2>1, <2>2, <3>1 DEF ExtendedExpiry
      <3>4. /\ extended' \in Int
            /\ extended' # 0 => /\ second + Ttl <= extended'
                                /\ extended' <= e.at + StaleCap + Ttl - 1
                                /\ extended' <= second + StaleCap + Ttl - 1
        BY <3>2, <3>3
      <3>5. \A f \in entries : f.name = KeptName => f = e
        BY <3>1 DEF EntriesFit
      <3>6. KeeperFits'
        BY <1>1, <2>1, <3>4 DEF KeeperFits
      <3>7. Lifetime(KeptName) = StaleCap + Ttl - 1
        BY DEF Lifetime
      <3>8. ExtendsRight'
        BY <1>1, <2>1, <3>2, <3>4, <3>5, <3>7 DEF ExtendsRight
      <3>9. Outlasts'
        BY <2>1 DEF Outlasts, KeeperFits
      <3> QED BY <1>2, <3>6, <3>8, <3>9
    <2>3. CASE ~\E e \in entries : e.name = KeptName
      <3>1. extended' = 0
        BY <2>1, <2>3
      <3>2. KeeperFits'
        BY <1>1, <2>1, <3>1 DEF KeeperFits
      <3>3. ExtendsRight' /\ Outlasts'
        BY <2>1, <3>1 DEF ExtendsRight, Outlasts, KeeperFits
      <3> QED BY <1>2, <3>2, <3>3
    <2> QED BY <2>2, <2>3
  <1>4. CASE c # Keeper
    <2>1. /\ asker' = [asker EXCEPT ![c] = "idle"] /\ wake' = wake /\ extended' = extended
      BY <1>4 DEF AnswerFails, Rests
    <2>2. KeeperFits'
      BY <1>1, <1>4, <2>1 DEF KeeperFits
    <2>3. ExtendsRight' /\ Outlasts'
      BY <1>1, <1>4, <2>1 DEF ExtendsRight, Outlasts, KeeperFits
    <2> QED BY <1>2, <2>2, <2>3
  <1> QED BY <1>3, <1>4

\* The extended entry outlasts the sleep that follows.
LEMMA ExtendsLemma ==
  ASSUME ResolverSound, Extends
  PROVE  ResolverSound'
  <1> USE Spans DEF ResolverSound
  <1> DEFINE longer(e) == IF e.name = KeptName /\ extended # 0
                          THEN [e EXCEPT !.expiry = extended] ELSE e
  <1>1. /\ asker[Keeper] = "extends" /\ second' = second /\ wanted' = wanted
        /\ served' = served /\ extended' = 0
        /\ asker' = [asker EXCEPT ![Keeper] = "sleep"] /\ wake' = second + Interval
        /\ entries' = {longer(e) : e \in entries}
        /\ held' = (extended # 0 /\ \E e \in entries : e.name = KeptName)
    BY DEF Extends, Rests
  <1>2. ASSUME NEW e \in entries
        PROVE  /\ longer(e) \in EntryRecord /\ longer(e).name = e.name
               /\ longer(e).at = e.at
               /\ longer(e).expiry = IF e.name = KeptName /\ extended # 0
                                     THEN extended ELSE e.expiry
    BY DEF EntriesFit, EntryRecord, KeeperFits
  <1> HIDE DEF longer
  <1>3. EntriesFit'
    <2>1. entries' \subseteq EntryRecord
      BY <1>1, <1>2
    <2>2. \A e \in entries' : e.at <= second' /\ e.expiry <= e.at + Lifetime(e.name)
      <3> SUFFICES ASSUME NEW e \in entries
                   PROVE  /\ longer(e).at <= second
                          /\ longer(e).expiry <= longer(e).at + Lifetime(longer(e).name)
        BY <1>1
      <3> QED BY <1>1, <1>2 DEF EntriesFit, ExtendsRight
    <2>3. \A e, f \in entries' : e.name = f.name => e = f
      BY <1>1, <1>2 DEF EntriesFit
    <2> QED BY <1>1, <2>1, <2>2, <2>3 DEF EntriesFit
  <1>4. wake' \in Nat /\ wake' # 0 /\ held' \in BOOLEAN
    BY <1>1 DEF EntriesFit
  <1>5. KeeperFits'
    <2>1. second' <= wake' /\ wake' <= second' + Interval
      BY <1>1 DEF EntriesFit
    <2> QED BY <1>1, <1>4, <2>1 DEF KeeperFits
  <1>6. Outlasts'
    <2> SUFFICES ASSUME held' PROVE \E e \in entries' : e.name = KeptName /\ wake' < e.expiry
      BY DEF Outlasts
    <2>1. PICK e \in entries : e.name = KeptName
      BY <1>1
    <2>2. longer(e) \in entries' /\ longer(e).name = KeptName /\ longer(e).expiry = extended
      BY <1>1, <1>2, <2>1
    <2>3. wake' < extended
      <3>1. second + Ttl <= extended
        BY <1>1 DEF ExtendsRight
      <3>2. second \in Int /\ extended \in Int
        BY DEF EntriesFit, KeeperFits
      <3> QED BY <1>1, <3>1, <3>2
    <2> QED BY <2>2, <2>3
  <1>7. ExtendsRight' /\ ServedFits'
    BY <1>1 DEF ExtendsRight, ServedFits
  <1> QED BY <1>3, <1>5, <1>6, <1>7

\* Time, and what the keeper does without an answer.
LEMMA TimeLemma ==
  ASSUME ResolverSound, FirstGivenUp \/ AsksAgain \/ SecondPasses
  PROVE  ResolverSound'
  <1> USE Spans DEF ResolverSound
  <1>1. CASE FirstGivenUp
    <2>1. /\ UNCHANGED <<second, entries, wanted, extended, held, served>> /\ ~held
          /\ asker' = [asker EXCEPT ![Keeper] = "sleep"] /\ wake' = second + Interval
      BY <1>1 DEF FirstGivenUp, Rests, KeeperFits
    <2>2. KeeperFits'
      BY <2>1 DEF KeeperFits, EntriesFit
    <2>3. ExtendsRight' /\ Outlasts'
      BY <2>1 DEF ExtendsRight, Outlasts, KeeperFits
    <2> QED BY <2>1, <2>2, <2>3, EntriesUntouched DEF ServedFits
  <1>2. CASE AsksAgain
    <2>1. /\ UNCHANGED <<second, entries, wanted, wake, extended, held, served>>
          /\ asker' = [asker EXCEPT ![Keeper] = "queued"]
      BY <1>2 DEF AsksAgain
    <2>2. KeeperFits'
      BY <2>1 DEF KeeperFits
    <2>3. ExtendsRight' /\ Outlasts'
      BY <2>1 DEF ExtendsRight, Outlasts, KeeperFits
    <2> QED BY <2>1, <2>2, <2>3, EntriesUntouched DEF ServedFits
  <1>3. CASE SecondPasses
    <2>1. /\ UNCHANGED <<entries, asker, wanted, wake, extended, held, served>>
          /\ second' = second + 1 /\ asker[Keeper] # "extends"
          /\ (asker[Keeper] = "sleep" => second < wake)
      BY <1>3 DEF SecondPasses
    <2>2. EntriesFit'
      BY <2>1 DEF EntriesFit, EntryRecord
    <2>3. KeeperFits'
      BY <2>1 DEF KeeperFits, EntriesFit
    <2>4. ExtendsRight' /\ Outlasts' /\ ServedFits'
      BY <2>1 DEF ExtendsRight, Outlasts, ServedFits
    <2> QED BY <2>2, <2>3, <2>4
  <1> QED BY <1>1, <1>2, <1>3

\* The invariant is inductive.
LEMMA ResolverSoundStep == ResolverSound /\ [ResolverNext]_resolverVars => ResolverSound'
  <1> SUFFICES ASSUME ResolverSound, [ResolverNext]_resolverVars PROVE ResolverSound'
    OBVIOUS
  <1>1. ASSUME NEW c \in Asker, Permitted(c) \/ AnswerComes(c) \/ AnswerFails(c)
        PROVE  ResolverSound'
    BY <1>1, PermittedLemma, AnswerLemma, FailsLemma
  <1>2. CASE UNCHANGED resolverVars
    BY <1>2 DEF resolverVars, ResolverSound, EntriesFit, KeeperFits, ExtendsRight, Outlasts,
                ServedFits
  <1> QED BY <1>1, <1>2, ResolvesLemma, ExtendsLemma, TimeLemma DEF ResolverNext

-----------------------------------------------------------------------------
(* What is dialled.                                                        *)

\* An address that was passed over, or is, was not allowed as long as none was.
NeverAllowed(class, local) == class \notin IF local THEN {"public", "own"} ELSE {"public"}
DialSound ==
  /\ dial.name \in Name /\ dial.local \in BOOLEAN
  /\ DOMAIN dial = {"name", "local", "untried", "allowed", "result"}
  /\ dial.result # "denied" \/ (dial.untried = {} /\ ~dial.allowed)
  /\ dial.result \notin {"multicast", "broadcast"}
  /\ ~dial.local => dial.result \notin {"loopback", "unspecified", "linklocal", "metadata"}
  /\ ~dial.allowed => \A i \in DOMAIN addrsOf[dial.name] \ dial.untried :
                         NeverAllowed(addrsOf[dial.name][i].class, dial.local)
  /\ dial.untried \subseteq DOMAIN addrsOf[dial.name]
  /\ ownAddrs \in {{}, {"own"}}

\* A dial begins with everything untried.
LEMMA FreshDial == ASSUME dial' \in Dials, ownAddrs' \in {{}, {"own"}} PROVE DialSound'
  <1>1. PICK n \in Name, l \in BOOLEAN :
          dial' = [name |-> n, local |-> l, untried |-> DOMAIN addrsOf[n], allowed |-> FALSE,
                   result |-> "none"]
    BY DEF Dials
  <1>2. /\ dial'.name = n /\ dial'.local = l /\ dial'.untried = DOMAIN addrsOf[n]
        /\ dial'.allowed = FALSE /\ dial'.result = "none"
        /\ DOMAIN dial' = {"name", "local", "untried", "allowed", "result"}
    BY <1>1
  <1> QED BY <1>2 DEF DialSound

\* An address is tried only if it is allowed.
LEMMA TryLemma == ASSUME DialSound, TryNext PROVE DialSound'
  <1> DEFINE a(i) == addrsOf[dial.name][i]
  <1>0. PICK i \in dial.untried :
          dial' = [dial EXCEPT !.untried = @ \ {i}, !.allowed = @ \/ Tried(a(i)),
                              !.result = IF Tried(a(i)) /\ a(i).reachable THEN a(i).class ELSE @]
    BY DEF TryNext
  <1>1. ownAddrs' = ownAddrs /\ dial.result = "none"
    BY DEF TryNext
  <1>2. Tried(a(i)) <=> Egress(a(i).class, dial.local)
    BY DEF Tried
  <1> HIDE DEF a
  <1>3. /\ dial'.name = dial.name /\ dial'.local = dial.local
        /\ DOMAIN dial' = {"name", "local", "untried", "allowed", "result"}
        /\ dial'.untried = dial.untried \ {i}
        /\ dial'.result = IF Tried(a(i)) /\ a(i).reachable THEN a(i).class ELSE "none"
    BY <1>0, <1>1 DEF DialSound
  <1>4. dial'.allowed = (dial.allowed \/ Tried(a(i)))
    BY <1>0 DEF DialSound
  <1>5. ~dial'.allowed => \A j \in DOMAIN addrsOf[dial'.name] \ dial'.untried :
                            NeverAllowed(addrsOf[dial'.name][j].class, dial'.local)
    <2> USE DEF a
    <2> SUFFICES ASSUME ~dial'.allowed, NEW j \in DOMAIN addrsOf[dial.name] \ dial'.untried
                 PROVE  NeverAllowed(addrsOf[dial.name][j].class, dial.local)
      BY <1>3
    <2>1. CASE j = i
      <3>1. ~Egress(a(i).class, dial.local)
        BY <1>2, <1>4
      <3> QED BY <2>1, <3>1 DEF Egress, NeverAllowed, DialSound
    <2>2. CASE j # i
      BY <1>3, <1>4, <2>2 DEF DialSound
    <2> QED BY <2>1, <2>2
  <1>6. dial'.result # "none" => Egress(a(i).class, dial.local) /\ dial'.result = a(i).class
    BY <1>2, <1>3
  <1>7. /\ dial'.result \notin {"multicast", "broadcast"}
        /\ ~dial.local => dial'.result \notin {"loopback", "unspecified", "linklocal", "metadata"}
    BY <1>6 DEF Egress
  <1>8. dial'.result # "denied"
    <2>1. CASE dial'.result = "none" BY <2>1
    <2>2. CASE dial'.result # "none"
      <3>1. a(i).class \in Class
        BY NetworkAssumption DEF DialSound, a
      <3> QED BY <1>6, <2>2, <3>1 DEF Class
    <2> QED BY <2>1, <2>2
  <1> QED BY <1>1, <1>3, <1>5, <1>7, <1>8 DEF DialSound

\* The first dial is a fresh one.
LEMMA DialSoundInit == DialInit => DialSound
  <1> SUFFICES ASSUME DialInit PROVE DialSound
    OBVIOUS
  <1>1. PICK n \in Name, l \in BOOLEAN :
          dial = [name |-> n, local |-> l, untried |-> DOMAIN addrsOf[n], allowed |-> FALSE,
                  result |-> "none"]
    BY DEF DialInit, Dials
  <1>2. /\ dial.name = n /\ dial.local = l /\ dial.untried = DOMAIN addrsOf[n]
        /\ dial.allowed = FALSE /\ dial.result = "none"
        /\ DOMAIN dial = {"name", "local", "untried", "allowed", "result"}
    BY <1>1
  <1> QED BY <1>2 DEF DialSound, DialInit

\* The invariant is inductive.
LEMMA DialSoundStep == DialSound /\ [DialNext]_dialVars => DialSound'
  <1> SUFFICES ASSUME DialSound, [DialNext]_dialVars PROVE DialSound'
    OBVIOUS
  <1>1. CASE Exhausted
    <2>1. /\ dial' = [dial EXCEPT !.result = IF dial.allowed THEN "failed" ELSE "denied"]
          /\ ownAddrs' = ownAddrs /\ dial.untried = {}
      BY <1>1 DEF Exhausted
    <2>2. /\ dial'.name = dial.name /\ dial'.local = dial.local
          /\ DOMAIN dial' = {"name", "local", "untried", "allowed", "result"}
          /\ dial'.untried = dial.untried
          /\ dial'.result = IF dial.allowed THEN "failed" ELSE "denied"
      BY <2>1 DEF DialSound
    <2>3. dial'.allowed = dial.allowed
      BY <2>1 DEF DialSound
    <2> QED BY <2>1, <2>2, <2>3 DEF DialSound
  <1>2. CASE Refreshes
    BY <1>2 DEF Refreshes, DialSound
  <1>3. CASE DialAgain
    BY <1>3, FreshDial DEF DialAgain, DialSound
  <1>4. CASE UNCHANGED dialVars
    BY <1>4 DEF dialVars, DialSound
  <1> QED BY <1>1, <1>2, <1>3, <1>4, TryLemma DEF DialNext

-----------------------------------------------------------------------------
(* The path.                                                               *)

\* A change of the path stays in the inbox until the thread is on its way.
LEMMA ChangeSeenStep == ChangeSeen /\ [MonitorNext]_monitorVars => ChangeSeen'
  BY DEF ChangeSeen, MonitorNext, monitorVars, PathChanges, RouteNoise, Receives, Drains,
         Bumps, ListenerDies, After

-----------------------------------------------------------------------------

\* Whatever resolutions fail, come late or clear a full cache, whatever a name's addresses are
\* and however messages of the kernel come: nobody is given an address that is too old, none is
\* dialled that may not be, and no change of the path is swallowed.
THEOREM NetworkAlwaysKnown == NetworkSpec => []NetworkKnown
  <1>1. ResolverSound => NamesRecent
    <2> SUFFICES ASSUME ResolverSound, held, asker[Keeper] = "sleep" PROVE FreshIn(KeptName)
      BY DEF NamesRecent, ResolverSound, ServedFits
    <2>1. PICK e \in entries : e.name = KeptName /\ wake < e.expiry
      BY DEF ResolverSound, Outlasts
    <2>2. second <= wake /\ second \in Int /\ wake \in Int /\ e.expiry \in Int
      BY DEF ResolverSound, KeeperFits, EntriesFit, EntryRecord
    <2> QED BY <2>1, <2>2 DEF FreshIn
  <1>2. DialSound => DialsAllowed
    BY DEF DialSound, DialsAllowed, NeverAllowed
  <1>3. MonitorInit => ChangeSeen
    BY DEF MonitorInit, ChangeSeen
  <1>4. ResolverInit /\ [][ResolverNext]_resolverVars => []ResolverSound
    BY ResolverSoundInit, ResolverSoundStep, PTL
  <1>5. DialInit /\ [][DialNext]_dialVars => []DialSound
    BY DialSoundInit, DialSoundStep, PTL
  <1>6. MonitorInit /\ [][MonitorNext]_monitorVars => []ChangeSeen
    BY <1>3, ChangeSeenStep, PTL
  <1>7. NetworkKnown <=> NamesRecent /\ DialsAllowed /\ ChangeSeen
    BY DEF NetworkKnown
  <1> QED BY <1>1, <1>2, <1>4, <1>5, <1>6, <1>7, PTL DEF NetworkSpec
=============================================================================
