----------------------------- MODULE UserProofs -----------------------------
(***************************************************************************)
(* Proofs about the users of a server: their credentials and sessions      *)
(* (UserSessions), for any inbounds, users, passwords and sessions and any *)
(* number of edits, their quotas (UserQuota), for any connections, days    *)
(* and months, and the places and streams that QUIC gives them             *)
(* (ServerQuic), for any connections, streams, addresses and limits.       *)
(***************************************************************************)
EXTENDS UserSessions, UserQuota, ServerQuic, FiniteSetTheorems, TLAPS

-----------------------------------------------------------------------------
(* Credentials and sessions.                                               *)

ApplyRec == [by : {"nobody", "api", "watcher"}, pc : {"done", "gone", "limits", "creds"},
             cfg : Config, left : SUBSET Inbound, mid : SUBSET Inbound, reg : [User -> Nat]]
SessionRec == [pc : {"idle", "hello", "frame", "limit", "live"},
               ib : Inbound \cup {NoPw}, user : User, pw : Pw \cup {NoPw}, gen : Nat, limit : Nat]

\* The placeholder of a file.
LEMMA NoFileType == NoFile \in File
  BY DEF NoFile, File, Config, Credentials, NoUsers

\* The placeholder of an application.
LEMMA NoApplyType == NoApply \in ApplyRec
  BY DEF NoApply, ApplyRec, NoFile, Config, Credentials, NoUsers

\* An application begins with inbounds that are gone.
LEMMA GoneInbounds == \A cfg : Gone(cfg) \in SUBSET Inbound
  BY DEF Gone

\* The placeholder of a session.
LEMMA NoSessionType == NoSession \in SessionRec
  BY UserAssumption DEF NoSession, SessionRec

\* The placeholder of a request.
LEMMA NoRequestType == NoRequest \in [pc : {"idle", "write", "apply", "applies"}, cfg : File]
  BY NoFileType DEF NoRequest

\* What a step may be, with the parts of it that it leaves alone.
LEMMA NextCases ==
  ASSUME [Next]_vars
  PROVE  \/ UNCHANGED vars
         \/ EditByHand \/ WriteConfig \/ WriteFails \/ ApplyRequest
         \/ TakeEvent \/ BuildState \/ ApplyFile
         \/ BuildRegistry \/ StoreRegistry \/ Finish
         \/ \E i \in Inbound : RevokeEntries(i) \/ SwapCreds(i)
         \/ \E ibs \in Targets, u \in User, p \in Pw \cup {NoPw} : UpdateUsers(ibs, u, p)
         \/ \E s \in Session, i \in Inbound, u \in User : Accept(s, i, u)
         \/ \E s \in Session : SessionStep(s) \/ Leave(s)
  BY DEF Next, ApiStep, WatcherStep, ApplyStep

-----------------------------------------------------------------------------
(* Types.                                                                  *)

\* Each step keeps the type of file, watcher and console.
LEMMA FileStep == FileType /\ [Next]_vars => FileType'
  <1> SUFFICES ASSUME FileType, [Next]_vars PROVE FileType'
    OBVIOUS
  <1> USE UserAssumption DEF FileType
  <1>1. CASE UNCHANGED vars
    BY <1>1 DEF vars
  <1>2. CASE EditByHand
    BY <1>2 DEF EditByHand, Written, File
  <1>3. CASE WriteConfig
    <2>1. api.cfg \in File /\ api' \in [pc : {"idle", "write", "apply", "applies"}, cfg : File]
      BY <1>3 DEF WriteConfig
    <2> QED BY <1>3, <2>1 DEF WriteConfig, Written
  <1>4. CASE WriteFails
    BY <1>4, NoRequestType DEF WriteFails, unchangedFile
  <1>5. CASE ApplyRequest
    BY <1>5, NoRequestType DEF ApplyRequest, unchangedFile
  <1>6. CASE TakeEvent \/ BuildState \/ ApplyFile
    <2>1. CASE TakeEvent
      BY <2>1 DEF TakeEvent
    <2>2. CASE BuildState
      BY <2>2 DEF BuildState, unchangedFile
    <2>3. CASE ApplyFile
      BY <2>3 DEF ApplyFile, unchangedFile
    <2> QED BY <1>6, <2>1, <2>2, <2>3
  <1>7. CASE BuildRegistry \/ StoreRegistry
    BY <1>7 DEF BuildRegistry, StoreRegistry, unchangedFile
  <1>8. CASE Finish
    BY <1>8, NoRequestType DEF Finish, unchangedFile
  <1>9. ASSUME NEW i \in Inbound, RevokeEntries(i) \/ SwapCreds(i) PROVE FileType'
    BY <1>9 DEF RevokeEntries, SwapCreds, unchangedFile
  <1>10. ASSUME NEW ibs \in Targets, NEW u \in User, NEW p \in Pw \cup {NoPw},
                UpdateUsers(ibs, u, p)
         PROVE  FileType'
    <2>1. file.users \in Config /\ file.kind \in {"ok", "rejected", "doubled", "broken", "none"}
      BY DEF File
    <2>2. Upsert(file.users, ibs, u, p) \in Config
      BY <2>1 DEF Upsert, Config, Credentials
    <2>3. api' \in [pc : {"idle", "write", "apply", "applies"}, cfg : File]
      BY <1>10, <2>1, <2>2 DEF UpdateUsers, File
    <2> QED BY <1>10, <2>3 DEF UpdateUsers
  <1>11. ASSUME NEW s \in Session, NEW i \in Inbound, NEW u \in User, Accept(s, i, u)
         PROVE  FileType'
    BY <1>11 DEF Accept, sessionStep, unchangedFile
  <1>12. ASSUME NEW s \in Session, SessionStep(s) \/ Leave(s) PROVE FileType'
    BY <1>12 DEF SessionStep, Authenticate, CheckCred, TakeLimit, Cut, Leave, sessionStep,
                 unchangedFile
  <1> QED
    BY <1>1, <1>2, <1>3, <1>4, <1>5, <1>6, <1>7, <1>8, <1>9, <1>10, <1>11, <1>12, NextCases

\* Each step keeps the type of the application under way.
LEMMA ApplyTypeStep == FileType /\ TableType /\ ApplyType /\ [Next]_vars => ApplyType'
  <1> SUFFICES ASSUME FileType, TableType, ApplyType, [Next]_vars PROVE ApplyType'
    OBVIOUS
  <1>0. apply \in ApplyRec
    BY DEF ApplyType, ApplyRec
  <1>a. SUFFICES apply' \in ApplyRec
    BY DEF ApplyType, ApplyRec
  <1>1. CASE UNCHANGED apply
    BY <1>0, <1>1
  <1>2. ASSUME NEW who \in {"api", "watcher"}, NEW cfg \in Config, Begin(who, cfg)
        PROVE  apply' \in ApplyRec
    BY <1>2, NoApplyType, GoneInbounds DEF Begin, ApplyRec
  <1>3. CASE ApplyRequest
    <2>1. api.cfg.users \in Config
      BY DEF FileType, File
    <2> QED BY <1>0, <1>2, <1>3, <2>1 DEF ApplyRequest, Untouched
  <1>4. CASE ApplyFile
    <2>1. file.users \in Config
      BY DEF FileType, File
    <2> QED BY <1>0, <1>2, <1>4, <2>1 DEF ApplyFile, Untouched
  <1>5. CASE BuildRegistry
    <2>1. [u \in User |-> IF ~Listed(apply.cfg, u) THEN 0
                               ELSE IF Kept(u) THEN registry[u] ELSE gen] \in [User -> Nat]
      BY DEF TableType
    <2> DEFINE reg == [u \in User |-> IF ~Listed(apply.cfg, u) THEN 0
                                      ELSE IF Kept(u) THEN registry[u] ELSE gen]
    <2>2. apply' = [apply EXCEPT !.pc = "limits", !.reg = reg]
      BY <1>5 DEF BuildRegistry
    <2>3. reg \in [User -> Nat]
      BY <2>1
    <2> HIDE DEF reg
    <2> QED BY <1>0, <2>2, <2>3 DEF ApplyRec
  <1>6. CASE StoreRegistry
    BY <1>0, <1>6 DEF StoreRegistry, ApplyRec
  <1>7. CASE Finish
    BY <1>7, NoApplyType DEF Finish
  <1>8. ASSUME NEW i \in Inbound, RevokeEntries(i) PROVE apply' \in ApplyRec
    BY <1>0, <1>8 DEF RevokeEntries, ApplyRec
  <1>9. ASSUME NEW i \in Inbound, SwapCreds(i) PROVE apply' \in ApplyRec
    BY <1>0, <1>9 DEF SwapCreds, ApplyRec
  <1>10. CASE UNCHANGED vars \/ EditByHand \/ WriteConfig \/ WriteFails \/ TakeEvent \/ BuildState
    BY <1>1, <1>10 DEF vars, EditByHand, WriteConfig, WriteFails, TakeEvent, BuildState
  <1>11. ASSUME NEW ibs \in Targets, NEW u \in User, NEW p \in Pw \cup {NoPw},
                UpdateUsers(ibs, u, p)
         PROVE  UNCHANGED apply
    BY <1>11 DEF UpdateUsers
  <1>12. ASSUME NEW s \in Session, NEW i \in Inbound, NEW u \in User, Accept(s, i, u)
         PROVE  UNCHANGED apply
    BY <1>12 DEF Accept, sessionStep
  <1>13. ASSUME NEW s \in Session, SessionStep(s) \/ Leave(s) PROVE UNCHANGED apply
    BY <1>13 DEF SessionStep, Authenticate, CheckCred, TakeLimit, Cut, Leave, sessionStep
  <1> QED
    BY <1>1, <1>3, <1>4, <1>5, <1>6, <1>7, <1>8, <1>9, <1>10, <1>11, <1>12, <1>13, NextCases

\* Each step keeps the type of credentials and registry.
LEMMA TableStep == FileType /\ TableType /\ ApplyType /\ [Next]_vars => TableType'
  <1> SUFFICES ASSUME FileType, TableType, ApplyType, [Next]_vars PROVE TableType'
    OBVIOUS
  <1> USE DEF TableType
  <1>1. CASE UNCHANGED <<creds, registry, credRevoked, limitRevoked>> /\ gen' \in {gen, gen + 1}
    BY <1>1
  <1>2. CASE BuildRegistry
    <2>1. limitRevoked' \subseteq User \X Nat
      BY <1>2 DEF BuildRegistry
    <2> QED BY <1>2, <2>1 DEF BuildRegistry
  <1>3. CASE StoreRegistry
    BY <1>3 DEF StoreRegistry, ApplyType
  <1>4. ASSUME NEW i \in Inbound, RevokeEntries(i) PROVE TableType'
    <2>1. {<<i, u, creds[i][u].gen>> : u \in Replaced(i)} \subseteq Inbound \X User \X Nat
      BY DEF Replaced
    <2> QED BY <1>4, <2>1 DEF RevokeEntries
  <1>5. ASSUME NEW i \in Inbound, SwapCreds(i) PROVE TableType'
    <2>1. \A u \in User : apply.cfg[i][u] \in Pw \cup {NoPw}
      BY DEF ApplyType, Config, Credentials
    <2>2. \A u \in User : Entry(apply.cfg[i][u], gen) \in [pw : Pw \cup {NoPw}, gen : Nat]
      BY <2>1 DEF Entry
    <2>3. creds' \in [Inbound -> [User -> [pw : Pw \cup {NoPw}, gen : Nat]]]
      BY <1>5, <2>2 DEF SwapCreds
    <2> QED BY <1>5, <2>3 DEF SwapCreds
  <1>6. CASE UNCHANGED vars \/ EditByHand \/ WriteConfig \/ WriteFails \/ TakeEvent \/ BuildState
             \/ Finish
    BY <1>1, <1>6 DEF vars, EditByHand, WriteConfig, WriteFails, TakeEvent, BuildState, Finish,
                      unchangedTables
  <1>7. CASE ApplyRequest \/ ApplyFile
    BY <1>1, <1>7 DEF ApplyRequest, ApplyFile, Begin, Untouched, unchangedTables
  <1>8. ASSUME NEW ibs \in Targets, NEW u \in User, NEW p \in Pw \cup {NoPw},
               UpdateUsers(ibs, u, p)
        PROVE  TableType'
    BY <1>1, <1>8 DEF UpdateUsers, unchangedTables
  <1>9. ASSUME NEW s \in Session, NEW i \in Inbound, NEW u \in User, Accept(s, i, u)
         PROVE  TableType'
    BY <1>1, <1>9 DEF Accept, sessionStep, unchangedTables
  <1>10. ASSUME NEW s \in Session, SessionStep(s) \/ Leave(s) PROVE TableType'
    BY <1>1, <1>10 DEF SessionStep, Authenticate, CheckCred, TakeLimit, Cut, Leave, sessionStep,
                       unchangedTables
  <1> QED
    BY <1>2, <1>3, <1>4, <1>5, <1>6, <1>7, <1>8, <1>9, <1>10, NextCases

\* What a connection can become in a step of its own.
LEMMA SessionCases ==
  ASSUME NEW s \in Session, SessionType, SessionStep(s) \/ Leave(s)
  PROVE  /\ sessionStep
         /\ \/ session' = [session EXCEPT ![s] = NoSession]
            \/ session[s].pc = "hello" /\ session' = [session EXCEPT ![s].pc = "frame"]
            \/ session[s].pc = "frame" /\ session' = [session EXCEPT ![s].pc = "limit"]
            \/ /\ session[s].pc = "limit" /\ ~Refused(s)
               /\ session' = [session EXCEPT ![s].pc = "live",
                                             ![s].limit = registry[session[s].user]]
  BY DEF SessionStep, Authenticate, CheckCred, TakeLimit, Cut, Leave

\* Each step keeps the type of the connections.
LEMMA SessionTypeStep == TableType /\ SessionType /\ [Next]_vars => SessionType'
  <1> SUFFICES ASSUME TableType, SessionType, [Next]_vars PROVE SessionType'
    OBVIOUS
  <1> USE DEF SessionType
  <1>1. CASE UNCHANGED session
    BY <1>1
  <1>2. ASSUME NEW s \in Session, NEW i \in Inbound, NEW u \in User, Accept(s, i, u)
        PROVE  SessionType'
    BY <1>2 DEF Accept, TableType
  <1>3. ASSUME NEW s \in Session, SessionStep(s) \/ Leave(s) PROVE SessionType'
    <2>1. session[s].user \in User /\ registry[session[s].user] \in Nat
      BY DEF TableType
    <2>2. CASE session' = [session EXCEPT ![s] = NoSession]
      BY <2>2, NoSessionType DEF SessionRec
    <2>3. CASE session' = [session EXCEPT ![s].pc = "frame"]
      BY <2>3
    <2>4. CASE session' = [session EXCEPT ![s].pc = "limit"]
      BY <2>4
    <2>5. CASE session' = [session EXCEPT ![s].pc = "live",
                                          ![s].limit = registry[session[s].user]]
      BY <2>1, <2>5
    <2> QED BY <1>3, <2>2, <2>3, <2>4, <2>5, SessionCases
  <1>4. CASE UNCHANGED vars \/ EditByHand \/ WriteConfig \/ WriteFails \/ TakeEvent \/ BuildState
             \/ ApplyRequest \/ ApplyFile \/ BuildRegistry \/ StoreRegistry \/ Finish
    BY <1>1, <1>4 DEF vars, EditByHand, WriteConfig, WriteFails, TakeEvent, BuildState,
                      ApplyRequest, ApplyFile, BuildRegistry, StoreRegistry, Finish
  <1>5. ASSUME NEW i \in Inbound, RevokeEntries(i) \/ SwapCreds(i) PROVE UNCHANGED session
    BY <1>5 DEF RevokeEntries, SwapCreds
  <1>6. ASSUME NEW ibs \in Targets, NEW u \in User, NEW p \in Pw \cup {NoPw},
               UpdateUsers(ibs, u, p)
        PROVE  UNCHANGED session
    BY <1>6 DEF UpdateUsers
  <1> QED BY <1>1, <1>2, <1>3, <1>4, <1>5, <1>6, NextCases

\* The file, the application, the tables and the sessions keep their types.
THEOREM TypeCorrect == Spec => []TypeOK
  <1>1. Init => TypeOK
    <2> SUFFICES ASSUME Init PROVE TypeOK
      OBVIOUS
    <2>1. FileType
      BY UserAssumption, NoFileType, NoRequestType DEF Init, FileType, File
    <2>2. ApplyType
      BY NoApplyType DEF Init, ApplyType, ApplyRec
    <2>3. \A i \in Inbound, u \in User : Entry(Start[i][u], 1) \in [pw : Pw \cup {NoPw}, gen : Nat]
      BY UserAssumption DEF Entry, Config, Credentials
    <2>4. TableType
      BY <2>3 DEF Init, TableType
    <2>5. SessionType
      BY NoSessionType DEF Init, SessionType, SessionRec
    <2> QED BY <2>1, <2>2, <2>4, <2>5 DEF TypeOK
  <1>2. TypeOK /\ [Next]_vars => TypeOK'
    BY FileStep, ApplyTypeStep, TableStep, SessionTypeStep DEF TypeOK
  <1> QED BY <1>1, <1>2, PTL DEF Spec

-----------------------------------------------------------------------------
(* The sessions that go on.                                                *)

\* A connection stands on an entry that is in force, or its flag is set.
EntryCurrent ==
  \A s \in Session : session[s].pc # "idle" =>
    /\ session[s].ib \in Inbound /\ session[s].pw \in Pw
    /\ \/ CredGone(s)
       \/ creds[session[s].ib][session[s].user] = [pw |-> session[s].pw, gen |-> session[s].gen]

\* A session that runs has the handle of the registry, or its flag is set.
LimitCurrent ==
  \A s \in Session : session[s].pc = "live" =>
    /\ session[s].user # Default => session[s].limit # 0
    /\ session[s].limit # 0 => session[s].user # Default
    /\ \/ LimitGone(session[s].user, session[s].limit)
       \/ session[s].limit = registry[session[s].user]

\* Between its two steps a list has the flags of those who go set, and of nobody else.
MidRevoked ==
  \A i \in apply.mid : \A u \in Replaced(i) : <<i, u, creds[i][u].gen>> \in credRevoked

\* A new registry keeps whoever is not revoked.
RegistryKept ==
  /\ registry[Default] = 0
  /\ apply.pc = "limits" =>
       /\ apply.reg[Default] = 0
       /\ \A u \in User : \/ apply.reg[u] = registry[u]
                          \/ registry[u] = 0
                          \/ <<u, registry[u]>> \in limitRevoked

SInv == EntryCurrent /\ LimitCurrent /\ MidRevoked /\ RegistryKept

\* A step that leaves tables and sessions alone.
LEMMA Elsewhere ==
  ASSUME SInv, UNCHANGED <<creds, registry, credRevoked, limitRevoked, session>>,
         apply' = apply \/ (apply'.mid = {} /\ apply'.pc # "limits")
  PROVE  SInv'
  <1>1. EntryCurrent' /\ LimitCurrent'
    BY DEF SInv, EntryCurrent, LimitCurrent, CredGone, LimitGone
  <1>2. MidRevoked'
    BY DEF SInv, MidRevoked, Replaced
  <1>3. RegistryKept'
    BY DEF SInv, RegistryKept
  <1> QED BY <1>1, <1>2, <1>3 DEF SInv

\* The invariant of the sessions is inductive.
LEMMA SInvStep == TypeOK /\ SInv /\ [Next]_vars => SInv'
  <1> SUFFICES ASSUME TypeOK, SInv, [Next]_vars PROVE SInv'
    OBVIOUS
  <1> USE DEF TypeOK
  <1>1. CASE UNCHANGED vars \/ EditByHand \/ WriteConfig \/ WriteFails \/ TakeEvent \/ BuildState
    BY <1>1, Elsewhere DEF vars, EditByHand, WriteConfig, WriteFails, TakeEvent, BuildState,
                           unchangedTables
  <1>2. ASSUME NEW who, NEW cfg, Begin(who, cfg) PROVE apply'.mid = {} /\ apply'.pc # "limits"
    BY <1>2 DEF Begin, NoApply
  <1>3. CASE ApplyRequest \/ ApplyFile
    BY <1>2, <1>3, Elsewhere DEF ApplyRequest, ApplyFile, Untouched, unchangedTables
  <1>4. CASE Finish
    BY <1>4, Elsewhere DEF Finish, NoApply, unchangedTables
  <1>5. ASSUME NEW ibs \in Targets, NEW u \in User, NEW p \in Pw \cup {NoPw},
               UpdateUsers(ibs, u, p)
        PROVE  SInv'
    BY <1>5, Elsewhere DEF UpdateUsers, unchangedTables
  <1>6. ASSUME NEW i \in Inbound, RevokeEntries(i) PROVE SInv'
    <2>1. EntryCurrent' /\ LimitCurrent'
      BY <1>6 DEF RevokeEntries, SInv, EntryCurrent, LimitCurrent, CredGone, LimitGone
    <2>2. apply'.mid = {i} /\ apply'.cfg = apply.cfg /\ apply'.pc = apply.pc
           /\ apply'.reg = apply.reg
      BY <1>6 DEF RevokeEntries, ApplyType
    <2>3. MidRevoked'
      BY <1>6, <2>2 DEF RevokeEntries, SInv, MidRevoked, Replaced
    <2>4. RegistryKept'
      BY <1>6, <2>2 DEF RevokeEntries, SInv, RegistryKept
    <2> QED BY <2>1, <2>3, <2>4 DEF SInv
  <1>7. ASSUME NEW i \in Inbound, SwapCreds(i) PROVE SInv'
    <2>1. LimitCurrent'
      BY <1>7 DEF SwapCreds, SInv, LimitCurrent, LimitGone
    <2>2. apply'.mid = {} /\ apply'.pc = apply.pc /\ apply'.reg = apply.reg
      BY <1>7 DEF SwapCreds, ApplyType
    <2>3. \A u \in User : u \in Replaced(i) => <<i, u, creds[i][u].gen>> \in credRevoked
      BY <1>7 DEF SwapCreds, SInv, MidRevoked
    <2>4. \A u \in User : creds[i][u].pw # NoPw /\ u \notin Replaced(i)
           => creds'[i][u] = creds[i][u]
      BY <1>7 DEF SwapCreds, Replaced, Reused, TableType
    <2>5. \A j \in Inbound \ {i} : creds'[j] = creds[j]
      BY <1>7 DEF SwapCreds, TableType
    <2>6. EntryCurrent'
      <3> SUFFICES ASSUME NEW s \in Session, session[s].pc # "idle", ~CredGone(s)
                   PROVE  creds'[session[s].ib][session[s].user]
                            = [pw |-> session[s].pw, gen |-> session[s].gen]
        BY <1>7 DEF SwapCreds, SInv, EntryCurrent, CredGone
      <3>1. /\ session[s].ib \in Inbound /\ session[s].pw \in Pw /\ session[s].user \in User
            /\ creds[session[s].ib][session[s].user]
                  = [pw |-> session[s].pw, gen |-> session[s].gen]
        BY DEF SInv, EntryCurrent, SessionType
      <3>2. CASE session[s].ib # i
        BY <2>5, <3>1, <3>2
      <3>3. CASE session[s].ib = i
        BY <2>3, <2>4, <3>1, <3>3, UserAssumption DEF CredGone
      <3> QED BY <3>2, <3>3
    <2>7. MidRevoked'
      BY <2>2 DEF MidRevoked
    <2>8. RegistryKept'
      BY <1>7, <2>2 DEF SwapCreds, SInv, RegistryKept
    <2> QED BY <2>1, <2>6, <2>7, <2>8 DEF SInv
  <1>8. CASE BuildRegistry
    <2>1. EntryCurrent' /\ LimitCurrent'
      BY <1>8 DEF BuildRegistry, SInv, EntryCurrent, LimitCurrent, CredGone, LimitGone
    <2>2. apply'.mid = apply.mid /\ apply'.cfg = apply.cfg
          /\ apply'.reg = [u \in User |-> IF ~Listed(apply.cfg, u) THEN 0
                                          ELSE IF Kept(u) THEN registry[u] ELSE gen]
      BY <1>8 DEF BuildRegistry, ApplyType
    <2>3. MidRevoked'
      BY <1>8, <2>2 DEF BuildRegistry, SInv, MidRevoked, Replaced
    <2>4. apply'.reg[Default] = 0
      BY <2>2, UserAssumption DEF Listed
    <2>5. ASSUME NEW u \in User, registry[u] # 0, <<u, registry[u]>> \notin limitRevoked'
          PROVE  apply'.reg[u] = registry[u]
      BY <1>8, <2>2, <2>5 DEF BuildRegistry, Kept
    <2>6. RegistryKept'
      BY <1>8, <2>4, <2>5 DEF BuildRegistry, SInv, RegistryKept
    <2> QED BY <2>1, <2>3, <2>6 DEF SInv
  <1>9. CASE StoreRegistry
    <2>1. EntryCurrent'
      BY <1>9 DEF StoreRegistry, SInv, EntryCurrent, CredGone
    <2>2. apply'.mid = apply.mid /\ apply'.cfg = apply.cfg /\ apply'.pc = "creds"
      BY <1>9 DEF StoreRegistry, ApplyType
    <2>3. LimitCurrent'
      BY <1>9 DEF StoreRegistry, SInv, LimitCurrent, LimitGone, RegistryKept, SessionType
    <2>4. MidRevoked'
      BY <1>9, <2>2 DEF StoreRegistry, SInv, MidRevoked, Replaced
    <2>5. RegistryKept'
      BY <1>9, <2>2 DEF StoreRegistry, SInv, RegistryKept
    <2> QED BY <2>1, <2>3, <2>4, <2>5 DEF SInv
  <1>10. ASSUME NEW s \in Session, NEW i \in Inbound, NEW u \in User, Accept(s, i, u) PROVE SInv'
    <2>1. UNCHANGED <<creds, registry, credRevoked, limitRevoked, apply>>
      BY <1>10 DEF Accept, sessionStep, unchangedTables
    <2>2. session' = [session EXCEPT ![s] = [pc |-> "hello", ib |-> i, user |-> u,
                        pw |-> creds[i][u].pw, gen |-> creds[i][u].gen, limit |-> 0]]
      BY <1>10 DEF Accept
    <2>3. creds[i][u].pw \in Pw
          /\ creds[i][u] = [pw |-> creds[i][u].pw, gen |-> creds[i][u].gen]
      BY <1>10 DEF Accept, TableType
    <2>4. EntryCurrent'
      BY <2>1, <2>2, <2>3 DEF SInv, EntryCurrent, CredGone, SessionType
    <2>5. LimitCurrent'
      BY <2>1, <2>2 DEF SInv, LimitCurrent, LimitGone, SessionType
    <2> QED BY <2>1, <2>4, <2>5 DEF SInv, MidRevoked, RegistryKept, Replaced
  <1>11. ASSUME NEW s \in Session, SessionStep(s) \/ Leave(s) PROVE SInv'
    <2>1. UNCHANGED <<creds, registry, credRevoked, limitRevoked, apply>>
      BY <1>11, SessionCases DEF sessionStep, unchangedTables
    <2>2. \A t \in Session \ {s} : session'[t] = session[t]
      BY <1>11, SessionCases DEF SessionType
    <2>3. \/ session'[s].pc = "idle"
          \/ /\ session[s].pc # "idle"
             /\ session'[s].ib = session[s].ib /\ session'[s].user = session[s].user
             /\ session'[s].pw = session[s].pw /\ session'[s].gen = session[s].gen
             /\ session'[s].pc = "live" => /\ session'[s].limit = registry[session[s].user]
                                           /\ ~Refused(s)
      <3>1. CASE session' = [session EXCEPT ![s] = NoSession]
        BY <3>1 DEF SessionType, NoSession
      <3>2. CASE session[s].pc = "hello" /\ session' = [session EXCEPT ![s].pc = "frame"]
        BY <3>2 DEF SessionType
      <3>3. CASE session[s].pc = "frame" /\ session' = [session EXCEPT ![s].pc = "limit"]
        BY <3>3 DEF SessionType
      <3>4. CASE /\ session[s].pc = "limit" /\ ~Refused(s)
                 /\ session' = [session EXCEPT ![s].pc = "live",
                                               ![s].limit = registry[session[s].user]]
        BY <3>4 DEF SessionType
      <3> QED BY <1>11, <3>1, <3>2, <3>3, <3>4, SessionCases
    <2>4. EntryCurrent'
      BY <2>1, <2>2, <2>3 DEF SInv, EntryCurrent, CredGone
    <2>5. LimitCurrent'
      BY <2>1, <2>2, <2>3 DEF SInv, LimitCurrent, LimitGone, Refused, RegistryKept, SessionType
    <2> QED BY <2>1, <2>4, <2>5 DEF SInv, MidRevoked, RegistryKept, Replaced
  <1> QED
    BY <1>1, <1>3, <1>4, <1>5, <1>6, <1>7, <1>8, <1>9, <1>10, <1>11, NextCases

\* Nobody is connected at the start.
LEMMA SInvInit == Init => SInv
  <1> SUFFICES ASSUME Init PROVE SInv
    OBVIOUS
  <1>1. \A s \in Session : session[s].pc = "idle"
    BY DEF Init, NoSession
  <1>2. apply.mid = {} /\ apply.pc = "done"
    BY DEF Init, NoApply
  <1>3. registry[Default] = 0
    BY UserAssumption DEF Init, Listed
  <1>4. EntryCurrent /\ LimitCurrent
    BY <1>1 DEF EntryCurrent, LimitCurrent
  <1> QED BY <1>2, <1>3, <1>4 DEF SInv, MidRevoked, RegistryKept

\* Hence it always holds, with the types.
LEMMA SInvAlways == Spec => []SInv
  <1>1. TypeOK /\ SInv /\ [Next]_vars => SInv'
    BY SInvStep
  <1> QED BY <1>1, SInvInit, TypeCorrect, PTL DEF Spec

\* Whoever goes on stands on what is in force.
THEOREM SessionsStayCurrent == Spec => []SessionsAreCurrent
  <1>1. TypeOK /\ SInv => SessionsAreCurrent
    BY DEF SInv, EntryCurrent, LimitCurrent, SessionsAreCurrent, Alive, ShouldStop
  <1> QED BY <1>1, TypeCorrect, SInvAlways, PTL

\* Flags are set by two actions.
LEMMA FlagCases ==
  ASSUME [Next]_vars
  PROVE  \/ \E i \in Inbound : RevokeEntries(i)
         \/ BuildRegistry
         \/ UNCHANGED <<credRevoked, limitRevoked>>
  <1>1. CASE UNCHANGED vars
    BY <1>1 DEF vars
  <1>2. CASE EditByHand \/ ApiStep \/ WatcherStep
    BY <1>2 DEF EditByHand, ApiStep, WatcherStep, WriteConfig, WriteFails, TakeEvent, BuildState,
                ApplyRequest, ApplyFile, unchangedTables
  <1>3. CASE ApplyStep
    <2>1. CASE StoreRegistry \/ Finish
      BY <2>1 DEF StoreRegistry, Finish, unchangedTables
    <2>2. ASSUME NEW i \in Inbound, SwapCreds(i) PROVE UNCHANGED <<credRevoked, limitRevoked>>
      BY <2>2 DEF SwapCreds
    <2> QED BY <1>3, <2>1, <2>2 DEF ApplyStep
  <1>4. ASSUME NEW ibs \in Targets, NEW u \in User, NEW p \in Pw \cup {NoPw},
               UpdateUsers(ibs, u, p)
        PROVE  UNCHANGED <<credRevoked, limitRevoked>>
    BY <1>4 DEF UpdateUsers, unchangedTables
  <1>5. ASSUME NEW s \in Session, NEW i \in Inbound, NEW u \in User, Accept(s, i, u)
        PROVE  UNCHANGED <<credRevoked, limitRevoked>>
    BY <1>5 DEF Accept, sessionStep, unchangedTables
  <1>6. ASSUME NEW s \in Session, SessionStep(s) \/ Leave(s)
        PROVE  UNCHANGED <<credRevoked, limitRevoked>>
    BY <1>6 DEF SessionStep, Authenticate, CheckCred, TakeLimit, Cut, Leave, sessionStep,
                unchangedTables
  <1> QED BY <1>1, <1>2, <1>3, <1>4, <1>5, <1>6 DEF Next

\* What OthersGoOn says of one step.
NobodyElseStopped ==
  \A s \in Session :
    /\ Alive(s) /\ session'[s] = session[s] /\ ShouldStop(s)'
    => apply.cfg[session[s].ib][session[s].user] # session[s].pw

\* A flag that a step sets belongs to somebody the configuration does not have so.
LEMMA NobodyElseStep == TypeOK /\ SInv /\ [Next]_vars => NobodyElseStopped
  <1> SUFFICES ASSUME TypeOK, SInv, [Next]_vars, NEW s \in Session,
                      Alive(s), session'[s] = session[s], ShouldStop(s)'
               PROVE  apply.cfg[session[s].ib][session[s].user] # session[s].pw
    BY DEF NobodyElseStopped
  <1>1. /\ session[s].ib \in Inbound /\ session[s].pw \in Pw /\ session[s].user \in User
        /\ creds[session[s].ib][session[s].user] = [pw |-> session[s].pw, gen |-> session[s].gen]
        /\ session[s].limit = registry[session[s].user]
    BY DEF SInv, EntryCurrent, LimitCurrent, Alive, ShouldStop, TypeOK, SessionType
  <1>2. ASSUME NEW i \in Inbound, RevokeEntries(i)
        PROVE  apply.cfg[session[s].ib][session[s].user] # session[s].pw
    <2>1. limitRevoked' = limitRevoked
      BY <1>2 DEF RevokeEntries
    <2>2. <<session[s].ib, session[s].user, session[s].gen>> \in credRevoked' \ credRevoked
      BY <2>1 DEF Alive, ShouldStop, CredGone, LimitGone
    <2>3. session[s].ib = i /\ session[s].user \in Replaced(i)
      BY <1>2, <2>2 DEF RevokeEntries
    <2> QED BY <1>1, <2>3 DEF Replaced
  <1>3. CASE BuildRegistry
    <2>1. credRevoked' = credRevoked
      BY <1>3 DEF BuildRegistry
    <2>2. /\ session[s].limit # 0
          /\ <<session[s].user, session[s].limit>> \in limitRevoked' \ limitRevoked
      BY <2>1 DEF Alive, ShouldStop, CredGone, LimitGone
    <2>3. registry[session[s].user] # 0 /\ ~Listed(apply.cfg, session[s].user)
      BY <1>3, <2>2 DEF BuildRegistry
    <2>4. session[s].user # Default
      BY <2>3 DEF SInv, RegistryKept
    <2> QED BY <1>1, <2>3, <2>4, UserAssumption DEF Listed
  <1>4. CASE UNCHANGED <<credRevoked, limitRevoked>>
    BY <1>4 DEF Alive, ShouldStop, CredGone, LimitGone
  <1> QED BY <1>2, <1>3, <1>4, FlagCases

\* A session is told to stop only by a configuration that does not have its credential.
THEOREM OthersAlwaysGoOn == Spec => OthersGoOn
  <1>1. TypeOK /\ SInv /\ [Next]_vars => NobodyElseStopped
    BY NobodyElseStep
  <1>2. [NobodyElseStopped]_vars
        => [\A s \in Session :
              /\ Alive(s) /\ session'[s] = session[s] /\ ShouldStop(s)'
              => apply.cfg[session[s].ib][session[s].user] # session[s].pw]_vars
    BY DEF NobodyElseStopped
  <1> QED BY <1>1, <1>2, TypeCorrect, SInvAlways, PTL DEF Spec, OthersGoOn, NobodyElseStopped

-----------------------------------------------------------------------------
(* The credentials become those of the file.                               *)

\* What the credentials will be when the application under way has ended.
Coming == IF apply.pc = "done" THEN Passwords ELSE apply.cfg

\* A file that the watcher accepts is in force or will be, or the watcher still looks at it, or
\* a request was applied after it was overwritten.
FileOnItsWay ==
  file.kind = "ok" =>
    events > 0 \/ watcher \in {"asked", "built"} \/ overtaken \/ Coming = file.users

\* What an application has still to do; the rest is done.
ToDo(i) ==
  \/ i \in apply.left
  \/ apply.pc \in {"gone", "limits"} /\ apply.cfg[i] # NoUsers
Progress ==
  /\ apply.pc = "limits" => apply.left = {}
  /\ apply.pc = "gone" => apply.left \subseteq Gone(apply.cfg)
  /\ apply.mid \subseteq apply.left /\ \A i, j \in apply.mid : i = j
  /\ apply.pc = "done" => apply.left = {}
  /\ apply.pc # "done" =>
       \A i \in Inbound : ToDo(i) \/ [u \in User |-> creds[i][u].pw] = apply.cfg[i]

\* Who has begun an application is the one who ends it.
OneBegins ==
  /\ watcher = "applies" <=> apply.pc # "done" /\ apply.by = "watcher"
  /\ api.pc = "applies" <=> apply.pc # "done" /\ apply.by = "api"

\* Flags are of older applications than what is made now.
FlagsOlder ==
  /\ \A e \in credRevoked : e[3] < gen
  /\ \A e \in limitRevoked : e[2] < gen
  /\ \A i \in Inbound, u \in User : creds[i][u].gen <= gen
  /\ \A u \in User : registry[u] <= gen
  /\ apply.pc # "done" => \A i \in Inbound, u \in User :
       ToDo(i) /\ creds[i][u].pw # NoPw => creds[i][u].gen < gen
  /\ apply.pc \in {"gone", "limits"} => \A u \in User : registry[u] < gen
  /\ apply.pc = "limits" => \A u \in User : apply.reg[u] <= gen

\* Nothing in force is revoked, but for what the next step puts out of force.
InForce ==
  /\ \A i \in Inbound, u \in User :
       creds[i][u].pw # NoPw /\ <<i, u, creds[i][u].gen>> \in credRevoked
       => i \in apply.mid /\ u \in Replaced(i)
  /\ \A u \in User :
       apply.pc # "limits" /\ registry[u] # 0 => <<u, registry[u]>> \notin limitRevoked
  /\ \A u \in User :
       apply.pc = "limits" /\ apply.reg[u] # 0 => <<u, apply.reg[u]>> \notin limitRevoked

\* The registry has the users of the credentials, once it is stored.
RegistryAgrees ==
  /\ gen > 0
  /\ apply.pc \in {"done", "creds"} => \A u \in User : registry[u] # 0 <=> Listed(Coming, u)
  /\ apply.pc = "limits" => \A u \in User : apply.reg[u] # 0 <=> Listed(apply.cfg, u)

TablesSettle == Progress /\ FlagsOlder /\ InForce /\ RegistryAgrees
Settles == FileOnItsWay /\ OneBegins /\ TablesSettle

\* The two fields of an entry.
LEMMA EntryFields ==
  ASSUME NEW p, NEW n
  PROVE  Entry(p, n).pw = p /\ Entry(p, n).gen = IF p = NoPw THEN 0 ELSE n
  BY DEF Entry

\* A step that leaves the tables and the application alone.
LEMMA TablesAlone ==
  ASSUME Settles, UNCHANGED <<apply, creds, registry, credRevoked, limitRevoked, gen>>
  PROVE  TablesSettle' /\ Coming' = Coming
  <1>1. Progress'
    BY DEF Settles, TablesSettle, Progress, ToDo, Gone
  <1>2. FlagsOlder'
    BY DEF Settles, TablesSettle, FlagsOlder, ToDo
  <1>3. InForce'
    BY DEF Settles, TablesSettle, InForce, Replaced
  <1>4. Coming' = Coming
    BY DEF Coming, Passwords
  <1>5. RegistryAgrees'
    BY <1>4 DEF Settles, TablesSettle, RegistryAgrees
  <1> QED BY <1>1, <1>2, <1>3, <1>4, <1>5 DEF TablesSettle

\* An application begins with the newest content, as nothing else is under way.
LEMMA BeginSettles ==
  ASSUME TypeOK, Settles, NEW who \in {"api", "watcher"}, NEW cfg \in Config, Begin(who, cfg),
         unchangedTables
  PROVE  TablesSettle' /\ Coming' = cfg
  <1>1. /\ apply'.by = who /\ apply'.pc = "gone" /\ apply'.cfg = cfg /\ apply'.left = Gone(cfg)
        /\ apply'.mid = {} /\ gen' = gen + 1 /\ apply.pc = "done"
    BY DEF Begin, NoApply
  <1>2. apply.mid = {}
    BY <1>1 DEF Settles, TablesSettle, Progress
  <1>3. UNCHANGED <<creds, registry, credRevoked, limitRevoked>>
    BY DEF unchangedTables
  <1>4. Progress'
    BY <1>1 DEF Progress, ToDo, Gone
  <1>5. FlagsOlder'
    <2>1. /\ gen \in Nat /\ \A e \in credRevoked : e[3] \in Nat
          /\ \A e \in limitRevoked : e[2] \in Nat
          /\ \A i \in Inbound, u \in User : creds[i][u].gen \in Nat
          /\ \A u \in User : registry[u] \in Nat
      BY DEF TypeOK, TableType
    <2> QED BY <1>1, <1>3, <2>1 DEF Settles, TablesSettle, FlagsOlder
  <1>6. InForce'
    BY <1>1, <1>2, <1>3 DEF Settles, TablesSettle, InForce
  <1>7. Coming' = cfg
    BY <1>1 DEF Coming
  <1>8. RegistryAgrees'
    BY <1>1 DEF Settles, TablesSettle, RegistryAgrees, TypeOK, TableType
  <1> QED BY <1>4, <1>5, <1>6, <1>7, <1>8 DEF TablesSettle

\* Setting flags takes none of those in force.
LEMMA RevokeSettles ==
  ASSUME TypeOK, Settles, NEW i \in Inbound, RevokeEntries(i)
  PROVE  TablesSettle' /\ Coming' = Coming
  <1>1. /\ apply'.by = apply.by /\ apply'.pc = apply.pc /\ apply'.cfg = apply.cfg
        /\ apply'.left = apply.left /\ apply'.reg = apply.reg /\ apply'.mid = {i}
        /\ i \in apply.left /\ apply.mid = {}
    BY DEF RevokeEntries, TypeOK, ApplyType
  <1>2. /\ UNCHANGED <<creds, registry, limitRevoked, gen>>
        /\ credRevoked' = credRevoked \cup {<<i, u, creds[i][u].gen>> : u \in Replaced(i)}
    BY DEF RevokeEntries
  <1>3. apply.pc # "done"
    BY <1>1 DEF Settles, TablesSettle, Progress
  <1>4. Progress'
    BY <1>1, <1>2 DEF Settles, TablesSettle, Progress, ToDo, Gone
  <1>5. FlagsOlder'
    <2>1. \A u \in Replaced(i) : creds[i][u].gen < gen
      BY <1>1, <1>3 DEF Settles, TablesSettle, FlagsOlder, Replaced, ToDo
    <2>2. \A e \in credRevoked' : e[3] < gen
      BY <1>2, <2>1 DEF Settles, TablesSettle, FlagsOlder
    <2> QED BY <1>1, <1>2, <2>2 DEF Settles, TablesSettle, FlagsOlder, ToDo
  <1>6. InForce'
    <2>1. ASSUME NEW j \in Inbound, NEW u \in User, creds[j][u].pw # NoPw,
                 <<j, u, creds[j][u].gen>> \in credRevoked'
          PROVE  j = i /\ u \in Replaced(i)
      BY <1>1, <1>2, <2>1 DEF Settles, TablesSettle, InForce
    <2>2. Replaced(i)' = Replaced(i)
      BY <1>1, <1>2 DEF Replaced
    <2> QED BY <1>1, <1>2, <2>1, <2>2 DEF Settles, TablesSettle, InForce
  <1>7. Coming' = Coming
    BY <1>1, <1>2 DEF Coming, Passwords
  <1>8. RegistryAgrees'
    BY <1>1, <1>2, <1>7 DEF Settles, TablesSettle, RegistryAgrees
  <1> QED BY <1>4, <1>5, <1>6, <1>7, <1>8 DEF TablesSettle

\* The swap puts the configuration's credentials in force for one inbound.
LEMMA SwapSettles ==
  ASSUME TypeOK, Settles, NEW i \in Inbound, SwapCreds(i)
  PROVE  TablesSettle' /\ Coming' = Coming
  <1>1. /\ apply'.by = apply.by /\ apply'.pc = apply.pc /\ apply'.cfg = apply.cfg
        /\ apply'.left = apply.left \ {i} /\ apply'.reg = apply.reg /\ apply'.mid = {}
        /\ i \in apply.mid
    BY DEF SwapCreds, TypeOK, ApplyType
  <1>2. UNCHANGED <<registry, credRevoked, limitRevoked, gen>>
    BY DEF SwapCreds
  <1>3. apply.pc # "done" /\ i \in apply.left /\ apply.mid \subseteq apply.left
        /\ apply.pc # "limits"
    BY <1>1 DEF Settles, TablesSettle, Progress
  <1>4. \A j \in Inbound \ {i} : creds'[j] = creds[j]
    BY DEF SwapCreds, TypeOK, TableType
  <1>5. \A u \in User :
          creds'[i][u] = IF Reused(i, u) THEN creds[i][u] ELSE Entry(apply.cfg[i][u], gen)
    BY DEF SwapCreds, TypeOK, TableType
  <1>6. \A u \in User : creds'[i][u].pw = apply.cfg[i][u]
    BY <1>5, EntryFields DEF Reused
  <1>7. Progress'
    <2>1. [u \in User |-> creds'[i][u].pw] = apply.cfg[i]
      <3>1. apply.cfg[i] \in [User -> Pw \cup {NoPw}]
        BY DEF TypeOK, ApplyType, Config, Credentials
      <3> QED BY <1>6, <3>1
    <2>2. ASSUME NEW j \in Inbound
          PROVE  ToDo(j)' \/ [u \in User |-> creds'[j][u].pw] = apply'.cfg[j]
      <3>1. CASE j = i
        BY <1>1, <2>1, <3>1
      <3>2. CASE j # i
        BY <1>1, <1>3, <1>4, <3>2 DEF Settles, TablesSettle, Progress, ToDo
      <3> QED BY <3>1, <3>2
    <2> QED BY <1>1, <1>3, <2>2 DEF Settles, TablesSettle, Progress, Gone
  <1>8. FlagsOlder'
    <2>1. ASSUME NEW j \in Inbound, NEW u \in User
          PROVE  creds'[j][u].gen <= gen
      <3>1. creds[j][u].gen <= gen /\ gen \in Nat
        BY DEF Settles, TablesSettle, FlagsOlder, TypeOK, TableType
      <3>2. Entry(apply.cfg[i][u], gen).gen \in {0, gen}
        BY EntryFields
      <3> QED BY <1>4, <1>5, <3>1, <3>2
    <2>2. ASSUME NEW j \in Inbound, NEW u \in User, ToDo(j)', creds'[j][u].pw # NoPw
          PROVE  creds'[j][u].gen < gen
      <3>1. CASE j # i
        BY <1>1, <1>3, <1>4, <2>2, <3>1 DEF Settles, TablesSettle, FlagsOlder, ToDo
      <3>2. CASE j = i
        BY <1>1, <1>3, <2>2, <3>2 DEF Settles, TablesSettle, Progress, ToDo, Gone
      <3> QED BY <3>1, <3>2
    <2> QED BY <1>1, <1>2, <2>1, <2>2 DEF Settles, TablesSettle, FlagsOlder
  <1>9. InForce'
    <2>1. ASSUME NEW j \in Inbound, NEW u \in User, creds'[j][u].pw # NoPw
          PROVE  <<j, u, creds'[j][u].gen>> \notin credRevoked
      <3>1. CASE j # i
        <4>1. apply.mid = {i}
          BY <1>1 DEF Settles, TablesSettle, Progress
        <4> QED BY <1>4, <2>1, <3>1, <4>1 DEF Settles, TablesSettle, InForce
      <3>2. CASE j = i /\ Reused(i, u)
        BY <1>5, <2>1, <3>2 DEF Settles, TablesSettle, InForce, Replaced, Reused
      <3>3. CASE j = i /\ ~Reused(i, u)
        <4>1. creds'[i][u].gen = gen /\ gen \in Nat
          BY <1>5, <1>6, <2>1, <3>3, EntryFields DEF TypeOK, TableType
        <4>2. \A e \in credRevoked : e[3] < gen
          BY DEF Settles, TablesSettle, FlagsOlder
        <4> QED BY <3>3, <4>1, <4>2
      <3> QED BY <3>1, <3>2, <3>3
    <2> QED BY <1>1, <1>2, <2>1 DEF Settles, TablesSettle, InForce
  <1>10. Coming' = Coming
    BY <1>1, <1>3 DEF Coming
  <1>11. RegistryAgrees'
    BY <1>1, <1>2, <1>10 DEF Settles, TablesSettle, RegistryAgrees
  <1> QED BY <1>7, <1>8, <1>9, <1>10, <1>11 DEF TablesSettle

\* A registry that is made has the handles that are kept.
LEMMA BuildSettles ==
  ASSUME TypeOK, Settles, SInv, BuildRegistry
  PROVE  TablesSettle' /\ Coming' = Coming
  <1>1. /\ apply'.by = apply.by /\ apply'.pc = "limits" /\ apply'.cfg = apply.cfg
        /\ apply'.left = {} /\ apply'.mid = apply.mid /\ apply.pc = "gone" /\ apply.left = {}
        /\ apply'.reg = [u \in User |-> IF ~Listed(apply.cfg, u) THEN 0
                                        ELSE IF Kept(u) THEN registry[u] ELSE gen]
    BY DEF BuildRegistry, TypeOK, ApplyType
  <1>2. /\ UNCHANGED <<creds, registry, credRevoked, gen>>
        /\ limitRevoked' = limitRevoked \cup
             {<<u, registry[u]>> : u \in {v \in User : registry[v] # 0 /\ ~Listed(apply.cfg, v)}}
    BY DEF BuildRegistry
  <1>3. Progress'
    BY <1>1, <1>2 DEF Settles, TablesSettle, Progress, ToDo, Gone
  <1>4. FlagsOlder'
    <2>1. \A u \in User : registry[u] < gen
      BY <1>1 DEF Settles, TablesSettle, FlagsOlder
    <2>2. \A e \in limitRevoked' : e[2] < gen
      BY <1>2, <2>1 DEF Settles, TablesSettle, FlagsOlder
    <2>3. \A u \in User : apply'.reg[u] <= gen
      BY <1>1, <2>1 DEF TypeOK, TableType
    <2> QED BY <1>1, <1>2, <2>2, <2>3 DEF Settles, TablesSettle, FlagsOlder, ToDo
  <1>5. InForce'
    <2>1. ASSUME NEW u \in User, apply'.reg[u] # 0
          PROVE  <<u, apply'.reg[u]>> \notin limitRevoked'
      <3>1. Listed(apply.cfg, u)
        BY <1>1, <2>1
      <3>2. <<u, apply'.reg[u]>> \notin limitRevoked
        <4>1. CASE Kept(u)
          BY <1>1, <3>1, <4>1 DEF Kept
        <4>2. CASE ~Kept(u)
          <5>1. apply'.reg[u] = gen /\ gen \in Nat
            BY <1>1, <3>1, <4>2 DEF TypeOK, TableType
          <5>2. \A e \in limitRevoked : e[2] < gen
            BY DEF Settles, TablesSettle, FlagsOlder
          <5> QED BY <5>1, <5>2
        <4> QED BY <4>1, <4>2
      <3> QED BY <1>2, <3>1, <3>2
    <2>2. \A i \in Inbound : Replaced(i)' = Replaced(i)
      BY <1>1, <1>2 DEF Replaced
    <2> QED BY <1>1, <1>2, <2>1, <2>2 DEF Settles, TablesSettle, InForce
  <1>6. Coming' = Coming
    BY <1>1, <1>2 DEF Coming, Passwords
  <1>7. RegistryAgrees'
    <2>1. gen > 0 /\ \A u \in User : Kept(u) => registry[u] # 0
      BY DEF Settles, TablesSettle, RegistryAgrees, Kept
    <2>2. \A u \in User : apply'.reg[u] # 0 <=> Listed(apply.cfg, u)
      BY <1>1, <2>1
    <2> QED BY <1>1, <1>2, <2>1, <2>2 DEF RegistryAgrees, Listed
  <1> QED BY <1>3, <1>4, <1>5, <1>6, <1>7 DEF TablesSettle

\* With the registry stored, lists remain.
LEMMA StoreSettles ==
  ASSUME TypeOK, Settles, StoreRegistry
  PROVE  TablesSettle' /\ Coming' = Coming
  <1>1. /\ apply'.by = apply.by /\ apply'.pc = "creds" /\ apply'.cfg = apply.cfg
        /\ apply'.left = Inbound \ Gone(apply.cfg) /\ apply'.mid = apply.mid
        /\ apply'.reg = apply.reg /\ apply.pc = "limits" /\ registry' = apply.reg
    BY DEF StoreRegistry, TypeOK, ApplyType
  <1>2. UNCHANGED <<creds, credRevoked, limitRevoked, gen>>
    BY DEF StoreRegistry
  <1>3. apply.left = {} /\ apply.mid = {}
    BY <1>1 DEF Settles, TablesSettle, Progress
  <1>4. Progress'
    BY <1>1, <1>2, <1>3 DEF Settles, TablesSettle, Progress, ToDo, Gone
  <1>5. FlagsOlder'
    <2>1. \A u \in User : registry'[u] <= gen
      BY <1>1 DEF Settles, TablesSettle, FlagsOlder
    <2>2. ASSUME NEW i \in Inbound, ToDo(i)' PROVE ToDo(i)
      BY <1>1, <2>2 DEF ToDo, Gone
    <2> QED BY <1>1, <1>2, <2>1, <2>2 DEF Settles, TablesSettle, FlagsOlder
  <1>6. InForce'
    BY <1>1, <1>2, <1>3 DEF Settles, TablesSettle, InForce
  <1>7. Coming' = Coming
    BY <1>1, <1>2 DEF Coming, Passwords
  <1>8. RegistryAgrees'
    <2>1. Coming = apply.cfg
      BY <1>1 DEF Coming
    <2>2. \A u \in User : registry'[u] # 0 <=> Listed(Coming, u)
      BY <1>1, <2>1 DEF Settles, TablesSettle, RegistryAgrees
    <2> QED BY <1>1, <1>2, <1>7, <2>2 DEF Settles, TablesSettle, RegistryAgrees, Listed
  <1> QED BY <1>4, <1>5, <1>6, <1>7, <1>8 DEF TablesSettle

\* An application that ends has put all of its configuration in force.
LEMMA FinishSettles ==
  ASSUME TypeOK, Settles, Finish
  PROVE  TablesSettle' /\ Coming' = Coming
  <1>1. /\ apply'.pc = "done" /\ apply'.left = {} /\ apply'.mid = {}
        /\ apply.pc = "creds" /\ apply.left = {}
    BY DEF Finish, NoApply
  <1>2. UNCHANGED <<creds, registry, credRevoked, limitRevoked, gen>>
    BY DEF Finish, unchangedTables
  <1>3. apply.mid = {}
    BY <1>1 DEF Settles, TablesSettle, Progress
  <1>4. Progress'
    BY <1>1 DEF Progress
  <1>5. FlagsOlder'
    BY <1>1, <1>2 DEF Settles, TablesSettle, FlagsOlder
  <1>6. InForce'
    BY <1>1, <1>2, <1>3 DEF Settles, TablesSettle, InForce
  <1>7. Passwords = apply.cfg
    <2>1. \A i \in Inbound : [u \in User |-> creds[i][u].pw] = apply.cfg[i]
      BY <1>1 DEF Settles, TablesSettle, Progress, ToDo
    <2>2. apply.cfg \in [Inbound -> Credentials]
      BY DEF TypeOK, ApplyType, Config
    <2> QED BY <2>1, <2>2 DEF Passwords
  <1>8. Coming' = Coming
    BY <1>1, <1>2, <1>7 DEF Coming, Passwords
  <1>9. RegistryAgrees'
    BY <1>1, <1>2, <1>8 DEF Settles, TablesSettle, RegistryAgrees, Listed
  <1> QED BY <1>4, <1>5, <1>6, <1>8, <1>9 DEF TablesSettle

\* Sessions are not what the tables depend on.
LEMMA SessionsOnly ==
  ASSUME NEW s \in Session,
         (\E i \in Inbound, u \in User : Accept(s, i, u)) \/ SessionStep(s) \/ Leave(s)
  PROVE  sessionStep
  BY DEF Accept, SessionStep, Authenticate, CheckCred, TakeLimit, Cut, Leave

\* The invariant is inductive: what is written by hand between a request's write and its
\* application is either read once more, or the request was applied last and overtaken.
LEMMA SettlesStep == TypeOK /\ SInv /\ Settles /\ [Next]_vars => Settles'
  <1> SUFFICES ASSUME TypeOK, SInv, Settles, [Next]_vars PROVE Settles'
    OBVIOUS
  <1> USE UserAssumption DEF TypeOK, FileType
  \* Steps that begin and end no application.
  <1>1. ASSUME UNCHANGED <<apply, creds, registry, credRevoked, limitRevoked, gen>>,
               watcher' = "applies" <=> watcher = "applies",
               api'.pc = "applies" <=> api.pc = "applies", FileOnItsWay'
        PROVE  Settles'
    <2>1. TablesSettle'
      BY <1>1, TablesAlone
    <2>2. OneBegins'
      BY <1>1 DEF Settles, OneBegins
    <2> QED BY <1>1, <2>1, <2>2 DEF Settles
  <1>2. ASSUME UNCHANGED <<apply, creds, registry, credRevoked, limitRevoked, gen, watcher, file,
                           events, overtaken>>,
               api'.pc = "applies" <=> api.pc = "applies"
        PROVE  Settles'
    <2>1. FileOnItsWay'
      BY <1>2, TablesAlone DEF Settles, FileOnItsWay
    <2> QED BY <1>1, <1>2, <2>1
  <1>3. CASE UNCHANGED vars
    BY <1>2, <1>3 DEF vars
  <1>4. CASE EditByHand \/ WriteConfig
    <2>1. events' > 0
      BY <1>4 DEF EditByHand, WriteConfig, Written
    <2>2. /\ UNCHANGED <<apply, creds, registry, credRevoked, limitRevoked, gen, watcher>>
          /\ api' = api \/ (api.pc = "write" /\ api'.pc = "apply")
      BY <1>4 DEF EditByHand, WriteConfig, unchangedTables
    <2>3. FileOnItsWay'
      BY <2>1 DEF FileOnItsWay
    <2> QED BY <1>1, <2>2, <2>3
  <1>5. CASE WriteFails
    <2>1. api.pc = "write" /\ api'.pc = "idle"
      BY <1>5 DEF WriteFails, NoRequest
    <2> QED BY <1>2, <1>5, <2>1 DEF WriteFails, unchangedTables, unchangedFile
  <1>6. CASE ApplyRequest /\ api.cfg.kind = "doubled"
    <2>1. api.pc = "apply" /\ api'.pc = "idle"
      BY <1>6 DEF ApplyRequest, NoRequest
    <2> QED BY <1>2, <1>6, <2>1 DEF ApplyRequest, Untouched, unchangedTables, unchangedFile
  <1>7. CASE ApplyRequest /\ api.cfg.kind # "doubled"
    <2>1. /\ api.pc = "apply" /\ api'.pc = "applies" /\ overtaken' = (file # api.cfg)
          /\ UNCHANGED <<watcher, file, events>> /\ unchangedTables
      BY <1>7 DEF ApplyRequest, unchangedFile
    <2>2. Begin("api", api.cfg.users) /\ api.cfg.users \in Config
      BY <1>7 DEF ApplyRequest, File
    <2>3. TablesSettle' /\ Coming' = api.cfg.users
      BY <2>1, <2>2, BeginSettles
    <2>4. apply.pc = "done" /\ apply'.pc = "gone" /\ apply'.by = "api"
      BY <2>2 DEF Begin, NoApply
    <2>5. FileOnItsWay'
      BY <2>1, <2>3 DEF FileOnItsWay
    <2>6. OneBegins'
      BY <2>1, <2>4 DEF Settles, OneBegins
    <2> QED BY <2>3, <2>5, <2>6 DEF Settles
  <1>8. CASE TakeEvent \/ BuildState
    <2>1. /\ UNCHANGED <<apply, creds, registry, credRevoked, limitRevoked, gen, api, file>>
          /\ watcher # "applies" /\ watcher' # "applies"
      BY <1>8 DEF TakeEvent, BuildState, unchangedTables, unchangedFile
    <2>2. FileOnItsWay'
      BY <1>8 DEF TakeEvent, BuildState, unchangedFile, FileOnItsWay
    <2> QED BY <1>1, <2>1, <2>2
  <1>9. CASE ApplyFile /\ file.kind \in {"broken", "doubled"}
    <2>1. /\ UNCHANGED <<apply, creds, registry, credRevoked, limitRevoked, gen, api, file>>
          /\ watcher = "built" /\ watcher' = "idle"
      BY <1>9 DEF ApplyFile, Untouched, unchangedTables, unchangedFile
    <2>2. FileOnItsWay'
      BY <1>9, <2>1 DEF FileOnItsWay
    <2> QED BY <1>1, <2>1, <2>2
  <1>10. CASE ApplyFile /\ file.kind \notin {"broken", "doubled"}
    <2>1. /\ watcher = "built" /\ watcher' = "applies"
          /\ UNCHANGED <<api, file, events>> /\ unchangedTables
      BY <1>10 DEF ApplyFile, unchangedFile
    <2>2. Begin("watcher", file.users) /\ file.users \in Config
      BY <1>10 DEF ApplyFile, File
    <2>3. TablesSettle' /\ Coming' = file.users
      BY <2>1, <2>2, BeginSettles
    <2>4. apply.pc = "done" /\ apply'.pc = "gone" /\ apply'.by = "watcher"
      BY <2>2 DEF Begin, NoApply
    <2>5. FileOnItsWay'
      BY <2>1, <2>3 DEF FileOnItsWay
    <2>6. OneBegins'
      BY <2>1, <2>4 DEF Settles, OneBegins
    <2> QED BY <2>3, <2>5, <2>6 DEF Settles
  \* Steps of an application, but for the last.
  <1>11. ASSUME TablesSettle' /\ Coming' = Coming,
                UNCHANGED <<file, events, watcher, api, overtaken>>,
                apply'.by = apply.by, apply.pc # "done", apply'.pc # "done"
         PROVE  Settles'
    BY <1>11 DEF Settles, FileOnItsWay, OneBegins
  <1>12. CASE BuildRegistry
    <2>1. /\ apply'.by = apply.by /\ apply.pc = "gone" /\ apply'.pc = "limits"
          /\ UNCHANGED <<file, events, watcher, api, overtaken>>
      BY <1>12 DEF BuildRegistry, ApplyType, unchangedFile
    <2> QED BY <1>11, <1>12, <2>1, BuildSettles
  <1>13. CASE StoreRegistry
    <2>1. /\ apply'.by = apply.by /\ apply.pc = "limits" /\ apply'.pc = "creds"
          /\ UNCHANGED <<file, events, watcher, api, overtaken>>
      BY <1>13 DEF StoreRegistry, ApplyType, unchangedFile
    <2> QED BY <1>11, <1>13, <2>1, StoreSettles
  <1>14. ASSUME NEW i \in Inbound, RevokeEntries(i) PROVE Settles'
    <2>1. /\ apply'.by = apply.by /\ apply'.pc = apply.pc /\ i \in apply.left
          /\ UNCHANGED <<file, events, watcher, api, overtaken>>
      BY <1>14 DEF RevokeEntries, ApplyType, unchangedFile
    <2>2. apply.pc # "done"
      BY <2>1 DEF Settles, TablesSettle, Progress
    <2> QED BY <1>11, <1>14, <2>1, <2>2, RevokeSettles
  <1>15. ASSUME NEW i \in Inbound, SwapCreds(i) PROVE Settles'
    <2>1. /\ apply'.by = apply.by /\ apply'.pc = apply.pc /\ i \in apply.mid
          /\ UNCHANGED <<file, events, watcher, api, overtaken>>
      BY <1>15 DEF SwapCreds, ApplyType, unchangedFile
    <2>2. apply.pc # "done"
      BY <2>1 DEF Settles, TablesSettle, Progress
    <2> QED BY <1>11, <1>15, <2>1, <2>2, SwapSettles
  <1>16. CASE Finish
    <2>1. /\ apply.pc = "creds" /\ apply'.pc = "done"
          /\ watcher' = IF apply.by = "watcher" THEN "idle" ELSE watcher
          /\ api' = IF apply.by = "api" THEN NoRequest ELSE api
          /\ UNCHANGED <<file, events, overtaken>>
      BY <1>16 DEF Finish, NoApply, unchangedFile
    <2>2. NoRequest.pc = "idle"
      BY DEF NoRequest
    <2>3. watcher # "applies" => watcher' = watcher
      BY <2>1 DEF Settles, OneBegins
    <2>4. watcher' # "applies" /\ api'.pc # "applies"
      BY <2>1, <2>2 DEF Settles, OneBegins
    <2>5. TablesSettle' /\ Coming' = Coming
      BY <1>16, FinishSettles
    <2>6. FileOnItsWay'
      BY <2>1, <2>3, <2>5 DEF Settles, FileOnItsWay
    <2>7. OneBegins'
      BY <2>1, <2>4 DEF OneBegins
    <2> QED BY <2>5, <2>6, <2>7 DEF Settles
  <1>17. ASSUME NEW ibs \in Targets, NEW u \in User, NEW p \in Pw \cup {NoPw},
                UpdateUsers(ibs, u, p)
         PROVE  Settles'
    <2>1. api.pc = "idle" /\ api'.pc = "write"
      BY <1>17 DEF UpdateUsers
    <2> QED BY <1>2, <1>17, <2>1 DEF UpdateUsers, unchangedTables
  <1>18. ASSUME NEW s \in Session, sessionStep PROVE Settles'
    BY <1>2, <1>18 DEF sessionStep, unchangedTables, unchangedFile
  <1>19. ASSUME NEW s \in Session, NEW i \in Inbound, NEW u \in User, Accept(s, i, u)
         PROVE  Settles'
    BY <1>18, <1>19, SessionsOnly
  <1>20. ASSUME NEW s \in Session, SessionStep(s) \/ Leave(s) PROVE Settles'
    BY <1>18, <1>20, SessionsOnly
  <1> QED
    BY <1>3, <1>4, <1>5, <1>6, <1>7, <1>8, <1>9, <1>10, <1>12, <1>13, <1>14, <1>15, <1>16, <1>17,
       <1>19, <1>20, NextCases

\* The first configuration is in force at the start.
LEMMA SettlesInit == Init => Settles
  <1> SUFFICES ASSUME Init PROVE Settles
    OBVIOUS
  <1>1. /\ apply.pc = "done" /\ apply.left = {} /\ apply.mid = {}
        /\ api.pc = "idle" /\ watcher = "idle" /\ file.users = Start
    BY DEF Init, NoApply, NoRequest
  <1>2. \A i \in Inbound, u \in User :
          creds[i][u].pw = Start[i][u] /\ creds[i][u].gen \in {0, 1}
    BY EntryFields DEF Init
  <1>3. Coming = Start
    <2>1. \A i \in Inbound : Start[i] \in [User -> Pw \cup {NoPw}]
      BY UserAssumption DEF Config, Credentials
    <2>2. ASSUME NEW i \in Inbound PROVE [u \in User |-> creds[i][u].pw] = Start[i]
      <3>1. \A u \in User : creds[i][u].pw = Start[i][u]
        BY <1>2, <2>2
      <3>2. Start[i] = [u \in User |-> Start[i][u]]
        BY <2>1, <2>2
      <3> QED BY <3>1, <3>2
    <2> QED BY <1>1, <2>2, UserAssumption DEF Coming, Passwords, Config
  <1>4. FileOnItsWay /\ OneBegins /\ Progress
    BY <1>1, <1>3 DEF FileOnItsWay, OneBegins, Progress
  <1>5. FlagsOlder
    BY <1>1, <1>2 DEF Init, FlagsOlder
  <1>6. InForce
    BY <1>1 DEF Init, InForce
  <1>7. RegistryAgrees
    BY <1>1, <1>3 DEF Init, RegistryAgrees
  <1> QED BY <1>4, <1>5, <1>6, <1>7 DEF Settles, TablesSettle

\* Between applications the tables are of one configuration and nothing in force is revoked; and
\* when nothing is left to do the credentials are the file's, unless a request was applied last
\* that another write had overtaken.  Whatever order hand edits, requests, notifications, the
\* two readings and the applications come in.
THEOREM AlwaysConverges == Spec => []Converged
  <1>1. TypeOK /\ SInv /\ Settles /\ [Next]_vars => Settles'
    BY SettlesStep
  <1>2. TypeOK /\ Settles => Converged
    <2> SUFFICES ASSUME TypeOK, Settles PROVE Converged
      OBVIOUS
    <2>1. ASSUME apply.pc = "done"
          PROVE  /\ \A u \in User : registry[u] # 0 <=> Listed(Passwords, u)
                 /\ \A i \in Inbound, u \in User :
                      creds[i][u].pw # NoPw => <<i, u, creds[i][u].gen>> \notin credRevoked
                 /\ \A u \in User : ~LimitGone(u, registry[u])
      <3>1. Coming = Passwords
        BY <2>1 DEF Coming
      <3>2. \A u \in User : registry[u] # 0 <=> Listed(Passwords, u)
        BY <2>1, <3>1 DEF Settles, TablesSettle, RegistryAgrees
      <3>3. apply.mid = {}
        BY <2>1 DEF Settles, TablesSettle, Progress
      <3>4. \A i \in Inbound, u \in User :
              creds[i][u].pw # NoPw => <<i, u, creds[i][u].gen>> \notin credRevoked
        BY <3>3 DEF Settles, TablesSettle, InForce
      <3>5. \A u \in User : ~LimitGone(u, registry[u])
        BY <2>1 DEF Settles, TablesSettle, InForce, LimitGone
      <3> QED BY <3>2, <3>4, <3>5
    <2>2. TablesAgree
      BY <2>1 DEF TablesAgree
    <2>3. ASSUME Quiet, file.kind = "ok", ~overtaken PROVE Passwords = file.users
      BY <2>3 DEF Quiet, Settles, FileOnItsWay, Coming
    <2> QED BY <2>2, <2>3 DEF Converged, FileInForce
  <1> QED BY <1>1, <1>2, SettlesInit, SInvAlways, TypeCorrect, PTL DEF Spec

-----------------------------------------------------------------------------
(* Quotas.                                                                 *)

Label == {"off", "read", "cas", "sub", "eval", "store", "gate", "get", "open", "adding", "flag"}
LocalType == [h : HandleId \cup {0}, cur_start : Now, expected : Now, old_used : Used,
              exh : BOOLEAN, quota : Quota \cup {0}, next : {"off", "gate", "open"}]
JobLabel == {"idle", "quota", "day", "start", "zero", "eval", "store", "loadUsed", "remember",
             "revoke", "drop", "new", "add", "clear", "restored", "flush"}
JobType == [pc : JobLabel, h : HandleId \cup {0}, expected : Now, exh : BOOLEAN, bytes : Used,
            counted : Nat \cup {Void}]
ThreadsType == upc \in [Thread -> Label] /\ local \in [Thread -> LocalType]
JobsType == reload \in JobType /\ reset \in JobType /\ flush \in JobType

\* The last day with a number lies in the past.
LEMMA PeriodStart ==
  ASSUME NEW n \in Now, NEW d \in Day PROVE compute_period_start(n, d) \in 0 .. n
  <1>1. Month \in Nat \ {0} /\ d \in 0 .. Month - 1 /\ n \in Nat
    BY QuotaAssumption DEF Now
  <1>2. /\ n % Month \in 0 .. Month - 1 /\ n \div Month \in Nat
        /\ n = (n \div Month) * Month + (n % Month)
    BY <1>1
  <1> DEFINE q == n \div Month  r == n % Month
  <1>3. (q - 1) * Month = q * Month - Month
    BY <1>1, <1>2
  <1>4. q * Month \in Nat
    BY <1>1, <1>2
  <1> HIDE DEF q, r
  <1>5. CASE r >= d
    BY <1>1, <1>2, <1>3, <1>4, <1>5 DEF compute_period_start, q, r
  <1>6. CASE ~(r >= d)
    BY <1>1, <1>2, <1>3, <1>4, <1>6 DEF compute_period_start, q, r
  <1> QED BY <1>5, <1>6

\* Storing a usage changes that of one handle.
LEMMA PutUsed ==
  ASSUME handles \in [HandleId -> Handle], NEW h \in HandleId, NEW v \in Used, Put(h, "used", v)
  PROVE  /\ handles' \in [HandleId -> Handle]
         /\ handles'[h].used = v
         /\ \A i \in HandleId \ {h} : handles'[i] = handles[i]
         /\ \A i \in HandleId : handles'[i].start = handles[i].start
  BY DEF Put, Handle

\* Storing a start changes no usage.
LEMMA PutStart ==
  ASSUME handles \in [HandleId -> Handle], NEW h \in HandleId, NEW v \in Now, Put(h, "start", v)
  PROVE  /\ handles' \in [HandleId -> Handle]
         /\ \A i \in HandleId : handles'[i].used = handles[i].used
  BY DEF Put, Handle

\* Storing a flag changes neither usage nor start.
LEMMA PutFlag ==
  ASSUME handles \in [HandleId -> Handle], NEW h \in HandleId, NEW v \in BOOLEAN,
         \/ Put(h, "exhausted", v)
         \/ Put(h, "revoked", v)
  PROVE  /\ handles' \in [HandleId -> Handle]
         /\ \A i \in HandleId : handles'[i].used = handles[i].used
         /\ \A i \in HandleId : handles'[i].start = handles[i].start
  BY DEF Put, Handle

\* Storing a limit changes no usage.
LEMMA PutLimit ==
  ASSUME handles \in [HandleId -> Handle], NEW h \in HandleId,
         \/ \E q \in Quota : Put(h, "quota", q)
         \/ \E d \in Day : Put(h, "reset_day", d)
  PROVE  /\ handles' \in [HandleId -> Handle]
         /\ \A i \in HandleId : handles'[i].used = handles[i].used
  BY DEF Put, Handle

-----------------------------------------------------------------------------
(* The inductive invariant.                                                *)

\* A thread in the middle of something holds a handle that was made, and not the one that is
\* being added; a reload works on the handle that is registered, or there is none.
Held(t) == upc[t] \notin {"off", "get"}
HandlesFit ==
  /\ \A t \in Thread : Held(t) => local[t].h \in 1 .. issued
  /\ reload.pc \notin {"idle", "new", "add"} => registered # 0 /\ reload.h = registered
  /\ reload.pc \in {"new", "add"} => registered = 0
  /\ reload.pc = "add" => \A t \in Thread : Held(t) => local[t].h # issued
  /\ reset.pc = "clear" => reset.h # 0
  /\ flush.pc = "start" => flush.h # 0

\* A snapshot that usage has not fallen below is part of the usage; at its subtraction, so is
\* what was counted since the exchange.
Known == counted # Void
SnapshotFits(t) ==
  /\ upc[t] = "cas" /\ t \notin stale /\ local[t].h = registered
       => local[t].old_used <= handles[registered].used
  /\ t \in Subtracting(registered) /\ Known
       => local[t].old_used + counted <= handles[registered].used
SnapshotsFit == \A t \in Thread : SnapshotFits(t)

\* While the count is known, one thread subtracts at most.
OneSubtracts == Known => \A t, u \in Subtracting(registered) : t = u

\* Every copy of the usage on its way out of the registry, into the file or back holds what
\* was counted.
EntryFits(e) == (e.start = Void => e.bytes = 0)
CopiesFit ==
  /\ EntryFits(stats) /\ EntryFits(restored)
  /\ stats.counted # Void => stats.counted <= stats.bytes
  /\ flush.pc = "start" /\ flush.counted # Void => flush.counted <= flush.bytes
CountFits ==
  Known =>
    /\ reload.pc = "remember" => counted <= reload.bytes
    /\ reload.pc \in {"revoke", "drop"} => counted <= restored.bytes
    /\ reload.pc = "add" => counted <= handles[issued].used
    /\ registered = 0 /\ reload.pc # "add" => counted <= restored.bytes

QuotaInv ==
  /\ QuotaTypeOK /\ ThreadsType /\ JobsType /\ HandlesFit
  /\ NothingForgotten /\ SnapshotsFit /\ OneSubtracts /\ CopiesFit /\ CountFits

World == UNCHANGED <<today, config, issued, registered, restored, stats>>

\* The ranges and placeholders.
LEMMA ConstantFacts ==
  /\ Void \notin Nat /\ Void = -1 /\ 0 \in Now /\ 0 \in Used
  /\ HandleId \subseteq Nat \ {0} /\ 1 \in HandleId /\ 0 \notin HandleId
  /\ Used \subseteq Nat /\ Now \subseteq Nat
  /\ Timer \in Thread /\ UserConn \subseteq Thread /\ MaxHandles \in Nat /\ MaxUsed \in Nat
  BY QuotaAssumption DEF Void, Now, Used, HandleId, Thread

\* A thread moves on that has no snapshot afterwards, while no usage changes.
LEMMA ThreadMoves ==
  ASSUME QuotaInv, World, NEW t \in Thread, NEW label \in Label \ {"cas", "sub"},
         NEW l \in LocalType,
         upc' = [upc EXCEPT ![t] = label], local' = [local EXCEPT ![t] = l],
         l.h \in 0 .. issued,
         label \notin {"off", "get"} => l.h # 0 /\ (reload.pc = "add" => l.h # issued),
         UNCHANGED jobs, UNCHANGED counted, stale' = stale \ {t},
         handles' \in [HandleId -> Handle],
         \A i \in HandleId : handles'[i].used = handles[i].used
  PROVE  QuotaInv'
  <1> USE ConstantFacts
  <1>1. /\ upc' \in [Thread -> Label] /\ local' \in [Thread -> LocalType]
        /\ upc'[t] = label /\ local'[t] = l
        /\ \A u \in Thread \ {t} : upc'[u] = upc[u] /\ local'[u] = local[u]
    BY DEF QuotaInv, ThreadsType
  <1>2. ThreadsType' /\ JobsType'
    BY <1>1 DEF QuotaInv, ThreadsType, JobsType, jobs
  <1>3. QuotaTypeOK'
    <2>1. stale' \subseteq Rolling'
      BY <1>1 DEF QuotaInv, QuotaTypeOK, Rolling
    <2>2. \A u \in Thread : local'[u].h \in 0 .. issued'
      BY <1>1 DEF QuotaInv, QuotaTypeOK, World
    <2> QED BY <2>1, <2>2 DEF QuotaInv, QuotaTypeOK, World
  <1>4. HandlesFit'
    <2>1. \A u \in Thread : Held(u)' => local'[u].h \in 1 .. issued'
      BY <1>1 DEF QuotaInv, QuotaTypeOK, HandlesFit, Held, World
    <2>2. reload'.pc = "add" => \A u \in Thread : Held(u)' => local'[u].h # issued'
      BY <1>1 DEF QuotaInv, HandlesFit, Held, World, jobs
    <2> QED BY <2>1, <2>2 DEF QuotaInv, HandlesFit, World, jobs
  <1>5. registered # 0 => /\ registered \in HandleId
                          /\ handles'[registered].used = handles[registered].used
    BY DEF QuotaInv, QuotaTypeOK, HandleId
  <1>6. NothingForgotten'
    BY <1>5 DEF QuotaInv, NothingForgotten, World
  <1>7. \A u \in Thread : local[u].h = registered /\ upc[u] \in {"cas", "sub"} => registered # 0
    BY DEF QuotaInv, HandlesFit, Held
  <1>8. SnapshotsFit'
    <2> SUFFICES ASSUME NEW u \in Thread PROVE SnapshotFits(u)'
      BY DEF SnapshotsFit
    <2>1. SnapshotFits(u)
      BY DEF QuotaInv, SnapshotsFit
    <2>2. CASE u = t
      BY <1>1, <2>2 DEF SnapshotFits, Subtracting
    <2>3. CASE u # t
      BY <1>1, <1>5, <1>7, <2>1, <2>3 DEF SnapshotFits, Subtracting, Known, World
    <2> QED BY <2>2, <2>3
  <1>9. OneSubtracts'
    <2>1. Subtracting(registered)' \subseteq Subtracting(registered)
      BY <1>1 DEF Subtracting, World
    <2> QED BY <2>1 DEF QuotaInv, OneSubtracts, Known
  <1>10. CopiesFit'
    BY DEF QuotaInv, CopiesFit, World, jobs
  <1>11. CountFits'
    <2>1. issued \in HandleId /\ handles'[issued].used = handles[issued].used
      BY DEF QuotaInv, QuotaTypeOK
    <2> QED BY <2>1 DEF QuotaInv, CountFits, Known, World, jobs
  <1> QED
    BY <1>2, <1>3, <1>4, <1>6, <1>8, <1>9, <1>10, <1>11 DEF QuotaInv

\* maybe_rollover, step by step.
LEMMA LocalFacts ==
  ASSUME QuotaInv, NEW t \in Thread
  PROVE  /\ local[t] \in LocalType /\ local[t].h \in 0 .. issued /\ upc[t] \in Label
         /\ t \notin Rolling => stale \ {t} = stale
         /\ NoLocal \in LocalType
  BY ConstantFacts DEF QuotaInv, QuotaTypeOK, ThreadsType, LocalType, NoLocal

\* A thread that returns from a rollover no longer holds a snapshot.
LEMMA ReturnKeeps ==
  ASSUME QuotaInv, World, NEW t \in Thread, RollDone(t), Held(t),
         UNCHANGED jobs, UNCHANGED counted, stale' = stale \ {t},
         handles' \in [HandleId -> Handle],
         \A i \in HandleId : handles'[i].used = handles[i].used
  PROVE  QuotaInv'
  <1> DEFINE l == [NoLocal EXCEPT !.h = local[t].h]
  <1>6. issued \in HandleId
    BY DEF QuotaInv, QuotaTypeOK
  <1>0. issued \in HandleId /\ issued \in Nat
    BY <1>6, ConstantFacts
  <1>4. local[t].h \in 1 .. issued /\ local[t].h \in HandleId
    <2>1. local[t].h \in 1 .. issued
      BY DEF QuotaInv, HandlesFit
    <2> QED BY <1>0, <2>1, ConstantFacts DEF HandleId
  <1>5. l \in LocalType /\ l.h = local[t].h
    BY <1>4, LocalFacts DEF LocalType, NoLocal
  <1> HIDE DEF l
  <1>1. /\ l \in LocalType /\ l.h = local[t].h /\ l.h # 0 /\ l.h \in 0 .. issued
        /\ reload.pc = "add" => l.h # issued
    BY <1>0, <1>4, <1>5 DEF QuotaInv, HandlesFit
  <1>2. local[t].next \in Label \ {"cas", "sub"}
    BY LocalFacts DEF LocalType, Label
  <1>3. upc' = [upc EXCEPT ![t] = local[t].next] /\ local' = [local EXCEPT ![t] = l]
    BY DEF RollDone, ThreadTo, l
  <1> QED BY <1>1, <1>2, <1>3, ThreadMoves

\* A thread that enters one holds nothing yet.
LEMMA EnterKeeps ==
  ASSUME QuotaInv, World, NEW t \in Thread, t \notin Rolling, registered # 0,
         NEW next \in {"off", "gate", "open"}, Enter(t, registered, next),
         UNCHANGED jobs, UNCHANGED history, UNCHANGED handles
  PROVE  QuotaInv'
  <1>1. PICK e : e = compute_period_start(today, handles[registered].reset_day)
    OBVIOUS
  <1>2. registered \in 1 .. issued /\ registered \in HandleId
    BY ConstantFacts DEF QuotaInv, QuotaTypeOK, HandleId
  <1>3. e \in Now
    <2>1. handles[registered].reset_day \in Day /\ today \in Now
      BY <1>2 DEF QuotaInv, QuotaTypeOK, Handle
    <2>2. e \in 0 .. today
      BY <1>1, <2>1, PeriodStart
    <2> QED BY <2>1, <2>2, QuotaAssumption DEF Now
  <1> DEFINE l == [NoLocal EXCEPT !.h = registered, !.next = next, !.expected = e]
  <1>8. l \in LocalType /\ l.h = registered
    BY <1>2, <1>3, LocalFacts DEF LocalType, NoLocal
  <1> HIDE DEF l
  <1>4. /\ l \in LocalType /\ l.h = registered /\ l.h # 0 /\ l.h \in 0 .. issued
        /\ reload.pc = "add" => l.h # issued
    BY <1>2, <1>8 DEF QuotaInv, HandlesFit
  <1>5. upc' = [upc EXCEPT ![t] = "read"] /\ local' = [local EXCEPT ![t] = l]
    BY <1>1 DEF Enter, ThreadTo, l
  <1>6. counted' = counted /\ stale' = stale \ {t} /\ "read" \in Label \ {"cas", "sub"}
    BY LocalFacts DEF history, Label
  <1>7. handles' \in [HandleId -> Handle] /\ handles' = handles
    BY DEF QuotaInv, QuotaTypeOK
  <1> QED BY <1>4, <1>5, <1>6, <1>7, ThreadMoves

\* A thread that stops holds nothing.
LEMMA StopKeeps ==
  ASSUME QuotaInv, World, NEW t \in Thread, t \notin Rolling,
         NEW label \in {"off", "get"},
         upc' = [upc EXCEPT ![t] = label], local' = [local EXCEPT ![t] = NoLocal],
         UNCHANGED jobs, UNCHANGED history,
         handles' \in [HandleId -> Handle],
         \A i \in HandleId : handles'[i].used = handles[i].used
  PROVE  QuotaInv'
  <1>1. NoLocal.h \in 0 .. issued
    BY ConstantFacts DEF NoLocal, QuotaInv, QuotaTypeOK, HandleId
  <1>2. counted' = counted /\ stale' = stale \ {t} /\ label \in Label \ {"cas", "sub"}
    BY LocalFacts DEF history, Label
  <1> QED BY <1>1, <1>2, LocalFacts, ThreadMoves

\* A held thread changes what it remembers, not the handle.
LEMMA GoesOn ==
  ASSUME QuotaInv, World, NEW t \in Thread, t \notin Rolling, Held(t),
         NEW label \in {"read", "eval", "store", "adding", "flag", "open"},
         NEW l \in LocalType, l.h = local[t].h,
         upc' = [upc EXCEPT ![t] = label], local' = [local EXCEPT ![t] = l],
         UNCHANGED jobs, UNCHANGED history, UNCHANGED handles
  PROVE  QuotaInv'
  <1>1. l.h \in 0 .. issued /\ l.h # 0 /\ (reload.pc = "add" => l.h # issued)
    BY ConstantFacts, LocalFacts DEF QuotaInv, HandlesFit
  <1>2. counted' = counted /\ stale' = stale \ {t} /\ label \in Label \ {"cas", "sub"}
    BY LocalFacts DEF history, Label
  <1>3. handles' \in [HandleId -> Handle] /\ handles' = handles
    BY DEF QuotaInv, QuotaTypeOK
  <1> QED BY <1>1, <1>2, <1>3, ThreadMoves

\* Steps of a thread that count nothing and subtract nothing.
LEMMA QuietThreads ==
  ASSUME QuotaInv, NEW t \in Thread
  PROVE  /\ TimerTick => QuotaInv'
         /\ Evaluate(t) => QuotaInv'
         /\ StoreFlag(t) => QuotaInv'
         /\ /\ t \in UserConn
            /\ \/ Knock(t) \/ Close(t) \/ Gate(t) \/ GetUserLimit(t)
               \/ ChargeBlock(t) \/ SetExhausted(t)
            => QuotaInv'
  <1> USE ConstantFacts
  <1>0. \A u \in Thread : upc[u] \notin {"cas", "sub"} => u \notin Rolling
    BY DEF Rolling
  <1>a. local[t] \in LocalType /\ (Held(t) => local[t].h \in HandleId)
    BY LocalFacts DEF QuotaInv, QuotaTypeOK, HandlesFit, HandleId
  <1>b. handles \in [HandleId -> Handle]
    BY DEF QuotaInv, QuotaTypeOK
  <1>1. ASSUME TimerTick PROVE QuotaInv'
    <2>1. World /\ UNCHANGED jobs /\ UNCHANGED history /\ UNCHANGED handles
      BY <1>1 DEF TimerTick, World, jobs, history
    <2>2. Enter(Timer, registered, "off") /\ Timer \notin Rolling /\ registered # 0
      BY <1>0, <1>1 DEF TimerTick
    <2> QED BY <2>1, <2>2, EnterKeeps
  <1>2. ASSUME Evaluate(t) PROVE QuotaInv'
    <2>1. World /\ UNCHANGED jobs /\ UNCHANGED history /\ UNCHANGED handles
      BY <1>2 DEF Evaluate, World, jobs, history
    <2>2. PICK b : b = Over(handles[local[t].h].quota, handles[local[t].h].used)
      OBVIOUS
    <2>3. b \in BOOLEAN
      BY <2>2 DEF Over
    <2> DEFINE l == [local[t] EXCEPT !.exh = b]
    <2>4. l \in LocalType /\ l.h = local[t].h
      BY <1>a, <2>3 DEF LocalType
    <2>5. upc' = [upc EXCEPT ![t] = "store"] /\ local' = [local EXCEPT ![t] = l]
      BY <1>2, <2>2 DEF Evaluate, ThreadTo
    <2>6. Held(t) /\ t \notin Rolling
      BY <1>0, <1>2 DEF Evaluate, Held
    <2> HIDE DEF l
    <2> QED BY <2>1, <2>4, <2>5, <2>6, GoesOn
  <1>3. ASSUME StoreFlag(t) PROVE QuotaInv'
    <2>1. World /\ UNCHANGED jobs /\ UNCHANGED history
      BY <1>3 DEF StoreFlag, World, jobs, history
    <2>2. Held(t) /\ t \notin Rolling /\ RollDone(t)
      BY <1>0, <1>3 DEF StoreFlag, Held
    <2>3. local[t].exh \in BOOLEAN /\ Put(local[t].h, "exhausted", local[t].exh)
      BY <1>a, <1>3 DEF StoreFlag, LocalType
    <2>4. /\ handles' \in [HandleId -> Handle]
          /\ \A i \in HandleId : handles'[i].used = handles[i].used
      BY <1>a, <1>b, <2>2, <2>3, PutFlag
    <2>5. counted' = counted /\ stale' = stale \ {t}
      BY <2>1, <2>2, LocalFacts DEF history
    <2> QED BY <2>1, <2>2, <2>4, <2>5, ReturnKeeps
  <1>4. ASSUME t \in UserConn, Knock(t) PROVE QuotaInv'
    <2>1. World /\ UNCHANGED jobs /\ UNCHANGED history /\ UNCHANGED handles
      BY <1>4 DEF Knock, World, jobs, history
    <2>2. Enter(t, registered, "gate") /\ t \notin Rolling /\ registered # 0
      BY <1>0, <1>4 DEF Knock
    <2> QED BY <2>1, <2>2, EnterKeeps
  <1>5. ASSUME t \in UserConn, Close(t) PROVE QuotaInv'
    <2>1. World /\ UNCHANGED jobs /\ UNCHANGED history /\ UNCHANGED handles
      BY <1>5 DEF Close, World, jobs, history
    <2>2. t \notin Rolling /\ Disconnect(t)
      BY <1>0, <1>5 DEF Close
    <2> QED BY <1>b, <2>1, <2>2, StopKeeps DEF Disconnect, ThreadTo
  <1>6. ASSUME t \in UserConn, Gate(t) PROVE QuotaInv'
    <2>1. World /\ UNCHANGED jobs /\ UNCHANGED history /\ UNCHANGED handles
      BY <1>6 DEF Gate, World, jobs, history
    <2>2. /\ t \notin Rolling
          /\ \E label \in {"off", "get"} : upc' = [upc EXCEPT ![t] = label]
          /\ local' = [local EXCEPT ![t] = NoLocal]
      BY <1>0, <1>6 DEF Gate, ThreadTo
    <2> QED BY <1>b, <2>1, <2>2, StopKeeps
  <1>7. ASSUME t \in UserConn, GetUserLimit(t) PROVE QuotaInv'
    <2>1. World /\ UNCHANGED jobs /\ UNCHANGED history /\ UNCHANGED handles
      BY <1>7 DEF GetUserLimit, World, jobs, history
    <2>2. t \notin Rolling
      BY <1>0, <1>7 DEF GetUserLimit
    <2>3. CASE registered # 0 /\ Enter(t, registered, "open")
      BY <2>1, <2>2, <2>3, EnterKeeps
    <2>4. CASE Disconnect(t)
      BY <1>b, <2>1, <2>2, <2>4, StopKeeps DEF Disconnect, ThreadTo
    <2> QED BY <1>7, <2>3, <2>4 DEF GetUserLimit
  <1>8. ASSUME t \in UserConn, ChargeBlock(t) PROVE QuotaInv'
    <2>1. World /\ UNCHANGED jobs /\ UNCHANGED history /\ UNCHANGED handles
      BY <1>8 DEF ChargeBlock, World, jobs, history
    <2>2. t \notin Rolling /\ Held(t)
      BY <1>0, <1>8 DEF ChargeBlock, Held
    <2>3. CASE Disconnect(t)
      BY <1>b, <2>1, <2>2, <2>3, StopKeeps DEF Disconnect, ThreadTo
    <2>4. ASSUME ThreadTo(t, "adding"),
                 local' = [local EXCEPT ![t].quota = handles[local[t].h].quota]
          PROVE  QuotaInv'
      <3>1. PICK q : q = handles[local[t].h].quota
        OBVIOUS
      <3>2. q \in Quota
        BY <1>a, <1>b, <2>2, <3>1 DEF Handle
      <3> DEFINE l == [local[t] EXCEPT !.quota = q]
      <3>3. l \in LocalType /\ l.h = local[t].h
        BY <1>a, <3>2 DEF LocalType
      <3>4. upc' = [upc EXCEPT ![t] = "adding"] /\ local' = [local EXCEPT ![t] = l]
        BY <2>4, <3>1 DEF ThreadTo
      <3> HIDE DEF l
      <3> QED BY <2>1, <2>2, <3>3, <3>4, GoesOn
    <2> QED BY <1>8, <2>3, <2>4 DEF ChargeBlock
  <1>9. ASSUME t \in UserConn, SetExhausted(t) PROVE QuotaInv'
    <2>1. World /\ UNCHANGED jobs /\ UNCHANGED history
      BY <1>9 DEF SetExhausted, World, jobs, history
    <2>2. t \notin Rolling /\ Held(t) /\ Disconnect(t) /\ Put(local[t].h, "exhausted", TRUE)
      BY <1>0, <1>9 DEF SetExhausted, Held
    <2>3. /\ handles' \in [HandleId -> Handle]
          /\ \A i \in HandleId : handles'[i].used = handles[i].used
      BY <1>a, <1>b, <2>2, PutFlag
    <2> QED BY <2>1, <2>2, <2>3, StopKeeps DEF Disconnect, ThreadTo
  <1> QED
    BY <1>1, <1>2, <1>3, <1>4, <1>5, <1>6, <1>7, <1>8, <1>9

\* What every step of a thread that keeps its handle leaves as it is.
LEMMA ThreadShape ==
  ASSUME QuotaInv, World, UNCHANGED jobs, NEW t \in Thread, Held(t),
         NEW label \in Label \ {"off", "get"}, NEW l \in LocalType, l.h = local[t].h,
         upc' = [upc EXCEPT ![t] = label], local' = [local EXCEPT ![t] = l],
         handles' \in [HandleId -> Handle], counted' \in Nat \cup {Void},
         stale' \subseteq Rolling'
  PROVE  /\ QuotaTypeOK' /\ ThreadsType' /\ JobsType' /\ HandlesFit' /\ CopiesFit'
         /\ upc'[t] = label /\ local'[t] = l
         /\ \A u \in Thread \ {t} : upc'[u] = upc[u] /\ local'[u] = local[u]
  <1>1. /\ upc' \in [Thread -> Label] /\ local' \in [Thread -> LocalType]
        /\ upc'[t] = label /\ local'[t] = l
        /\ \A u \in Thread \ {t} : upc'[u] = upc[u] /\ local'[u] = local[u]
    BY DEF QuotaInv, ThreadsType
  <1>2. ThreadsType' /\ JobsType'
    BY <1>1 DEF QuotaInv, ThreadsType, JobsType, jobs
  <1>3. QuotaTypeOK'
    <2>1. \A u \in Thread : local'[u].h \in 0 .. issued'
      BY <1>1 DEF QuotaInv, QuotaTypeOK, World
    <2> QED BY <2>1 DEF QuotaInv, QuotaTypeOK, World
  <1>4. HandlesFit'
    <2>1. \A u \in Thread : Held(u)' => Held(u) /\ local'[u].h = local[u].h
      BY <1>1 DEF Held
    <2> QED BY <2>1 DEF QuotaInv, HandlesFit, World, jobs
  <1>5. CopiesFit'
    BY DEF QuotaInv, CopiesFit, World, jobs
  <1> QED BY <1>1, <1>2, <1>3, <1>4, <1>5

\* The numbers that the counting compares.
LEMMA Numbers ==
  ASSUME QuotaInv
  PROVE  /\ issued \in HandleId /\ registered \in HandleId \cup {0}
         /\ \A i \in HandleId : handles[i].used \in Nat
         /\ counted = Void \/ counted \in Nat
         /\ reload.bytes \in Nat /\ restored.bytes \in Nat
         /\ \A t \in Thread : local[t].old_used \in Nat
         /\ \A t \in Thread : Held(t) => local[t].h \in HandleId
  <1>1. issued \in HandleId
    BY DEF QuotaInv, QuotaTypeOK
  <1>2. registered \in HandleId \cup {0}
    <2>1. registered \in 0 .. issued
      BY DEF QuotaInv, QuotaTypeOK
    <2> QED BY <1>1, <2>1, ConstantFacts DEF HandleId
  <1>3. \A i \in HandleId : handles[i].used \in Nat
    <2>1. handles \in [HandleId -> Handle]
      BY DEF QuotaInv, QuotaTypeOK
    <2> QED BY <2>1, ConstantFacts DEF Handle
  <1>4. counted = Void \/ counted \in Nat
    BY DEF QuotaInv, QuotaTypeOK
  <1>5. reload.bytes \in Nat
    BY ConstantFacts DEF QuotaInv, JobsType, JobType
  <1>6. restored.bytes \in Nat
    BY ConstantFacts DEF QuotaInv, QuotaTypeOK, QuotaEntry
  <1>7. \A t \in Thread : local[t].old_used \in Nat
    BY ConstantFacts DEF QuotaInv, ThreadsType, LocalType
  <1>8. \A t \in Thread : Held(t) => local[t].h \in HandleId
    <2>1. \A t \in Thread : Held(t) => local[t].h \in 1 .. issued
      BY DEF QuotaInv, HandlesFit
    <2> QED BY <1>1, <2>1, ConstantFacts DEF HandleId
  <1> QED BY <1>1, <1>2, <1>3, <1>4, <1>5, <1>6, <1>7, <1>8

\* A snapshot taken in the period is part of what the handle has.
LEMMA SnapshotKeeps ==
  ASSUME QuotaInv, NEW t \in Thread, Snapshot(t)
  PROVE  QuotaInv'
  <1>0. World /\ UNCHANGED jobs /\ UNCHANGED history /\ UNCHANGED handles
    BY DEF Snapshot, World, jobs, history
  <1>1. Held(t) /\ t \notin Rolling /\ upc[t] = "read"
    BY DEF Snapshot, Held, Rolling
  <1>2. handles \in [HandleId -> Handle]
    BY DEF QuotaInv, QuotaTypeOK
  <1>3. CASE RollDone(t)
    <2>1. counted' = counted /\ stale' = stale \ {t}
      BY <1>0, <1>1, LocalFacts DEF history
    <2> QED BY <1>0, <1>1, <1>2, <1>3, <2>1, ReturnKeeps
  <1>4. ASSUME ThreadTo(t, "cas"),
               local' = [local EXCEPT ![t].cur_start = handles[local[t].h].start,
                                      ![t].old_used = handles[local[t].h].used]
        PROVE  QuotaInv'
    <2>1. PICK s, o : s = handles[local[t].h].start /\ o = handles[local[t].h].used
      OBVIOUS
    <2>2. s \in Now /\ o \in Used
      BY <1>1, <1>2, <2>1, Numbers DEF Handle
    <2> DEFINE l == [local[t] EXCEPT !.cur_start = s, !.old_used = o]
    <2>3. l \in LocalType /\ l.h = local[t].h /\ l.old_used = o
      BY <2>2, LocalFacts DEF LocalType
    <2>4. upc' = [upc EXCEPT ![t] = "cas"] /\ local' = [local EXCEPT ![t] = l]
      BY <1>4, <2>1 DEF ThreadTo
    <2> HIDE DEF l
    <2>5. "cas" \in Label \ {"off", "get"}
      BY DEF Label
    <2>6. stale' \subseteq Rolling' /\ counted' \in Nat \cup {Void}
      BY <1>0, <1>1, <2>4 DEF history, Rolling, QuotaInv, QuotaTypeOK, ThreadsType
    <2>7. /\ QuotaTypeOK' /\ ThreadsType' /\ JobsType' /\ HandlesFit' /\ CopiesFit'
          /\ upc'[t] = "cas" /\ local'[t] = l
          /\ \A u \in Thread \ {t} : upc'[u] = upc[u] /\ local'[u] = local[u]
      BY <1>0, <1>1, <1>2, <2>3, <2>4, <2>5, <2>6, ThreadShape
    <2>8. SnapshotsFit'
      <3> SUFFICES ASSUME NEW u \in Thread PROVE SnapshotFits(u)'
        BY DEF SnapshotsFit
      <3>1. CASE u = t
        <4>1. handles[local[t].h].used \in Nat /\ o <= handles[local[t].h].used
          BY <1>1, <2>1, Numbers
        <4> QED BY <1>0, <2>1, <2>3, <2>7, <3>1, <4>1 DEF SnapshotFits, Subtracting, World
      <3>2. CASE u # t
        <4>1. SnapshotFits(u)
          BY DEF QuotaInv, SnapshotsFit
        <4> QED BY <1>0, <2>7, <3>2, <4>1 DEF SnapshotFits, Subtracting, Known, World, history
      <3> QED BY <3>1, <3>2
    <2>9. OneSubtracts'
      <3>1. Subtracting(registered)' \subseteq Subtracting(registered)
        BY <1>0, <2>7 DEF Subtracting, World
      <3> QED BY <1>0, <3>1 DEF QuotaInv, OneSubtracts, Known, history
    <2>10. NothingForgotten' /\ CountFits'
      BY <1>0 DEF QuotaInv, NothingForgotten, CountFits, Known, World, jobs, history
    <2> QED BY <2>7, <2>8, <2>9, <2>10 DEF QuotaInv
  <1> QED BY <1>3, <1>4 DEF Snapshot

\* Who wins the exchange begins the period: the count starts anew, or is void.
LEMMA ExchangeKeeps ==
  ASSUME QuotaInv, NEW t \in Thread, CompareExchange(t)
  PROVE  QuotaInv'
  <1>0. World /\ UNCHANGED jobs
    BY DEF CompareExchange, World, jobs
  <1>1. Held(t) /\ upc[t] = "cas"
    BY DEF CompareExchange, Held
  <1>2. handles \in [HandleId -> Handle]
    BY DEF QuotaInv, QuotaTypeOK
  <1>3. ASSUME RollDone(t), stale' = stale \ {t}, UNCHANGED <<handles, counted>>
        PROVE  QuotaInv'
    <2>1. counted' = counted /\ handles' = handles
      BY <1>3
    <2> QED BY <1>0, <1>1, <1>2, <1>3, <2>1, ReturnKeeps
  <1>4. ASSUME Put(local[t].h, "start", local[t].expected), ThreadTo(t, "sub"),
               UNCHANGED <<local, stale>>,
               counted' = IF local[t].h # registered THEN counted
                          ELSE IF /\ stale = {} /\ reload.pc # "zero"
                                  /\ Subtracting(local[t].h) = {} THEN 0
                          ELSE Void
        PROVE  QuotaInv'
    <2>1. PICK l : l = local[t]
      OBVIOUS
    <2>2. l \in LocalType /\ l.h \in HandleId /\ l.h = local[t].h
      BY <1>1, <2>1, Numbers, LocalFacts
    <2>3. l.expected \in Now
      BY <2>2 DEF LocalType
    <2>4. /\ handles' \in [HandleId -> Handle]
          /\ \A i \in HandleId : handles'[i].used = handles[i].used
      BY <1>2, <1>4, <2>1, <2>2, <2>3, PutStart
    <2>5. upc' = [upc EXCEPT ![t] = "sub"] /\ local' = [local EXCEPT ![t] = l]
      BY <1>4, <2>1 DEF ThreadTo, QuotaInv, ThreadsType
    <2>6. "sub" \in Label \ {"off", "get"}
      BY DEF Label
    <2>7. stale' \subseteq Rolling'
      BY <1>4, <2>5 DEF Rolling, QuotaInv, QuotaTypeOK, ThreadsType
    <2>8. counted' \in Nat \cup {Void}
      BY <1>4, Numbers
    <2>9. /\ QuotaTypeOK' /\ ThreadsType' /\ JobsType' /\ HandlesFit' /\ CopiesFit'
          /\ upc'[t] = "sub" /\ local'[t] = l
          /\ \A u \in Thread \ {t} : upc'[u] = upc[u] /\ local'[u] = local[u]
      BY <1>0, <1>1, <2>2, <2>4, <2>5, <2>6, <2>7, <2>8, ThreadShape
    <2>10. \/ counted' = Void
           \/ counted' = counted /\ l.h # registered
           \/ counted' = 0 /\ stale = {} /\ Subtracting(registered) = {} /\ l.h = registered
      BY <1>4, <2>2
    <2>11. Known' => counted' \in Nat /\ (counted' # 0 => Known /\ counted' = counted)
      BY <2>10, Numbers DEF Known
    <2>12. NothingForgotten' /\ CountFits'
      <3>1. registered # 0 => handles'[registered].used = handles[registered].used
        BY <2>4, Numbers
      <3>2. handles'[issued].used = handles[issued].used
        BY <2>4, Numbers
      <3>3. ASSUME Known', Known => counted' <= counted \/ counted' = 0, counted' = 0 \/ Known
            PROVE  NothingForgotten' /\ CountFits'
        <4>1. CASE counted' = 0
          BY <1>0, <3>1, <3>2, <4>1, Numbers DEF NothingForgotten, CountFits, World, jobs
        <4>2. CASE counted' # 0
          <5>1. Known /\ counted' = counted
            BY <2>11, <3>3, <4>2
          <5> QED BY <1>0, <3>1, <3>2, <5>1
                  DEF QuotaInv, NothingForgotten, CountFits, Known, World, jobs
        <4> QED BY <4>1, <4>2
      <3>4. CASE ~Known'
        BY <3>4 DEF NothingForgotten, CountFits, Known
      <3>5. CASE Known'
        BY <2>11, <3>3, <3>5, Numbers
      <3> QED BY <3>4, <3>5
    <2>13. SnapshotsFit'
      <3> SUFFICES ASSUME NEW u \in Thread PROVE SnapshotFits(u)'
        BY DEF SnapshotsFit
      <3>1. SnapshotFits(u)
        BY DEF QuotaInv, SnapshotsFit
      <3>2. local[u].h = registered /\ upc[u] \in {"cas", "sub"} => registered \in HandleId
        BY Numbers DEF Held
      <3>3. CASE u = t
        <4>1. SnapshotFits(t)
          BY <3>1, <3>3
        <4> QED BY <1>0, <1>1, <2>1, <2>2, <2>4, <2>9, <2>10, <3>3, <4>1, Numbers
                DEF SnapshotFits, Subtracting, Known, World
      <3>4. CASE u # t
        <4>1. upc'[u] = upc[u] /\ local'[u] = local[u] /\ stale' = stale
          BY <1>4, <2>9, <3>4
        <4>2. u \in Subtracting(registered)' => u \in Subtracting(registered)
          BY <1>0, <4>1 DEF Subtracting, World
        <4>3. u \in Subtracting(registered) => counted' = counted \/ counted' = Void
          BY <2>10
        <4> QED BY <1>0, <2>4, <3>1, <3>2, <4>1, <4>2, <4>3
                DEF SnapshotFits, Known, World, Subtracting
      <3> QED BY <3>3, <3>4
    <2>14. OneSubtracts'
      <3>1. CASE l.h = registered
        <4>1. Subtracting(registered) = {} => Subtracting(registered)' \subseteq {t}
          BY <1>0, <2>9 DEF Subtracting, World
        <4> QED BY <2>10, <3>1, <4>1 DEF OneSubtracts, Known
      <3>2. CASE l.h # registered
        <4>1. Subtracting(registered)' \subseteq Subtracting(registered)
          BY <1>0, <2>9, <3>2 DEF Subtracting, World
        <4> QED BY <2>10, <3>2, <4>1 DEF QuotaInv, OneSubtracts, Known
      <3> QED BY <3>1, <3>2
    <2> QED BY <2>9, <2>12, <2>13, <2>14 DEF QuotaInv
  <1> QED BY <1>3, <1>4 DEF CompareExchange

\* What it then subtracts is its snapshot, of the period before.
LEMMA SubtractKeeps ==
  ASSUME QuotaInv, NEW t \in Thread, Subtract(t)
  PROVE  QuotaInv'
  <1>0. World /\ UNCHANGED jobs /\ counted' = counted
    BY DEF Subtract, World, jobs
  <1>1. Held(t) /\ upc[t] = "sub"
    BY DEF Subtract, Held
  <1>2. handles \in [HandleId -> Handle]
    BY DEF QuotaInv, QuotaTypeOK
  <1>3. PICK l, v : l = local[t] /\ v = RolledUsed(handles[l.h].used, l.old_used)
    OBVIOUS
  <1>4. l \in LocalType /\ l.h \in HandleId /\ l.old_used \in Nat
    BY <1>1, <1>3, Numbers, LocalFacts
  <1>5. /\ v \in Used /\ v \in Nat
        /\ handles[l.h].used >= l.old_used => v = handles[l.h].used - l.old_used
    <2>1. handles[l.h].used \in Used
      BY <1>2, <1>4 DEF Handle
    <2> QED BY <1>3, <1>4, <2>1, ConstantFacts DEF RolledUsed, Used
  <1>6. /\ handles' \in [HandleId -> Handle] /\ handles'[l.h].used = v
        /\ \A i \in HandleId \ {l.h} : handles'[i] = handles[i]
    <2>1. Put(l.h, "used", v)
      BY <1>3 DEF Subtract
    <2> QED BY <1>2, <1>4, <1>5, <2>1, PutUsed
  <1>7. upc' = [upc EXCEPT ![t] = "eval"] /\ local' = [local EXCEPT ![t] = l]
    BY <1>3 DEF Subtract, ThreadTo, QuotaInv, ThreadsType
  <1>8. stale' = (stale \cup Rolling) \ {t}
    BY DEF Subtract
  <1>9. "eval" \in Label \ {"off", "get"}
    BY DEF Label
  <1>10. stale' \subseteq Rolling' /\ counted' \in Nat \cup {Void}
    BY <1>0, <1>7, <1>8 DEF Rolling, QuotaInv, QuotaTypeOK, ThreadsType
  <1>11. /\ QuotaTypeOK' /\ ThreadsType' /\ JobsType' /\ HandlesFit' /\ CopiesFit'
         /\ upc'[t] = "eval" /\ local'[t] = l
         /\ \A u \in Thread \ {t} : upc'[u] = upc[u] /\ local'[u] = local[u]
    BY <1>0, <1>1, <1>3, <1>4, <1>6, <1>7, <1>9, <1>10, ThreadShape
  <1>12. \A i \in HandleId \ {l.h} : handles'[i].used = handles[i].used
    BY <1>6
  <1>13. Known /\ l.h = registered => counted <= v
    <2>1. SnapshotFits(t)
      BY DEF QuotaInv, SnapshotsFit
    <2>2. Known /\ l.h = registered => l.old_used + counted <= handles[l.h].used /\ counted \in Nat
      BY <1>1, <1>3, <2>1, Numbers DEF SnapshotFits, Subtracting, Known
    <2>3. handles[l.h].used \in Nat
      BY <1>4, Numbers
    <2> QED BY <1>4, <1>5, <2>2, <2>3
  <1>14. NothingForgotten'
    <2>1. CASE registered = l.h
      BY <1>0, <1>6, <1>13, <2>1 DEF NothingForgotten, World, Known
    <2>2. CASE registered # l.h
      BY <1>0, <1>12, <2>2, Numbers DEF QuotaInv, NothingForgotten, World
    <2> QED BY <2>1, <2>2
  <1>15. SnapshotsFit'
    <2> SUFFICES ASSUME NEW u \in Thread PROVE SnapshotFits(u)'
      BY DEF SnapshotsFit
    <2>1. CASE u = t
      BY <1>11, <2>1 DEF SnapshotFits, Subtracting
    <2>2. ASSUME u # t, upc'[u] = "cas", u \notin stale' PROVE FALSE
      BY <1>8, <1>11, <2>2 DEF Rolling
    <2>3. ASSUME u # t, u \in Subtracting(registered)', Known'
          PROVE  local'[u].old_used + counted' <= handles'[registered'].used
      <3>1. u \in Subtracting(registered) /\ local'[u] = local[u] /\ Known
        BY <1>0, <1>11, <2>3 DEF Subtracting, World, Known
      <3>2. l.h # registered
        <4>1. l.h = registered => t \in Subtracting(registered)
          BY <1>1, <1>3 DEF Subtracting
        <4> QED BY <2>3, <3>1, <4>1 DEF QuotaInv, OneSubtracts
      <3>3. registered \in HandleId
        BY <3>1, Numbers DEF Subtracting, Held
      <3>4. SnapshotFits(u)
        BY DEF QuotaInv, SnapshotsFit
      <3> QED BY <1>0, <1>12, <3>1, <3>2, <3>3, <3>4 DEF SnapshotFits, World
    <2> QED BY <2>1, <2>2, <2>3 DEF SnapshotFits
  <1>16. OneSubtracts'
    <2>1. Subtracting(registered)' \subseteq Subtracting(registered)
      BY <1>0, <1>11 DEF Subtracting, World
    <2> QED BY <1>0, <2>1 DEF QuotaInv, OneSubtracts, Known
  <1>17. CountFits'
    <2>1. reload.pc = "add" => handles'[issued].used = handles[issued].used
      <3>1. reload.pc = "add" => l.h # issued
        BY <1>1, <1>3 DEF QuotaInv, HandlesFit
      <3> QED BY <1>12, <3>1, Numbers
    <2> QED BY <1>0, <2>1 DEF QuotaInv, CountFits, Known, World, jobs
  <1> QED BY <1>11, <1>14, <1>15, <1>16, <1>17 DEF QuotaInv

\* A block is counted in the handle and in the count together.
LEMMA FetchAddKeeps ==
  ASSUME QuotaInv, NEW t \in UserConn, FetchAdd(t)
  PROVE  QuotaInv'
  <1>0. World /\ UNCHANGED jobs /\ stale' = stale /\ t \in Thread
    BY ConstantFacts DEF FetchAdd, World, jobs
  <1>1. Held(t) /\ upc[t] = "adding" /\ t \notin Rolling
    BY DEF FetchAdd, Held, Rolling
  <1>2. handles \in [HandleId -> Handle]
    BY DEF QuotaInv, QuotaTypeOK
  <1>3. PICK h, v : h = local[t].h /\ v = handles[h].used + 1
    OBVIOUS
  <1>4. h \in HandleId
    BY <1>0, <1>1, <1>3, Numbers
  <1>5. v \in Used /\ v \in Nat
    <2>1. handles[h].used \in Used /\ handles[h].used < MaxUsed
      BY <1>2, <1>3, <1>4 DEF Handle, FetchAdd
    <2> QED BY <1>3, <2>1, ConstantFacts DEF Used
  <1>6. /\ handles' \in [HandleId -> Handle] /\ handles'[h].used = v
        /\ \A i \in HandleId \ {h} : handles'[i] = handles[i]
    <2>1. Put(h, "used", v)
      BY <1>3 DEF FetchAdd
    <2> QED BY <1>2, <1>4, <1>5, <2>1, PutUsed
  <1> DEFINE l == [NoLocal EXCEPT !.h = h]
  <1>7. l \in LocalType /\ l.h = local[t].h
    BY <1>0, <1>3, <1>4, LocalFacts DEF LocalType, NoLocal
  <1>8. PICK label \in {"flag", "open"} : upc' = [upc EXCEPT ![t] = label]
    BY DEF FetchAdd, ThreadTo
  <1>9. local' = [local EXCEPT ![t] = l]
    BY <1>3 DEF FetchAdd
  <1> HIDE DEF l
  <1>10. label \in Label \ {"off", "get", "cas", "sub"}
    BY <1>8 DEF Label
  <1>11. counted' = IF counted = Void \/ h # registered \/ Leaving THEN counted ELSE counted + 1
    BY <1>3 DEF FetchAdd
  <1>12. counted' \in Nat \cup {Void} /\ (Known' <=> Known)
    BY <1>11, Numbers, ConstantFacts DEF Known
  <1>13. stale' \subseteq Rolling'
    BY <1>0, <1>1, <1>8 DEF Rolling, QuotaInv, QuotaTypeOK, ThreadsType
  <1>14. /\ QuotaTypeOK' /\ ThreadsType' /\ JobsType' /\ HandlesFit' /\ CopiesFit'
         /\ upc'[t] = label /\ local'[t] = l
         /\ \A u \in Thread \ {t} : upc'[u] = upc[u] /\ local'[u] = local[u]
    BY <1>0, <1>1, <1>6, <1>7, <1>8, <1>9, <1>10, <1>12, <1>13, ThreadShape
  <1>15. \A i \in HandleId \ {h} : handles'[i].used = handles[i].used
    BY <1>6
  <1>16. \A i \in HandleId : handles[i].used \in Nat /\ handles'[i].used >= handles[i].used
    BY <1>3, <1>4, <1>6, <1>15, Numbers
  <1>17. \/ counted' = counted
         \/ /\ Known /\ h = registered /\ ~Leaving /\ counted' = counted + 1
            /\ handles'[registered].used = handles[registered].used + 1
    BY <1>3, <1>4, <1>6, <1>11 DEF Known
  <1>18. NothingForgotten'
    <2>1. CASE registered = 0
      BY <1>0, <2>1 DEF NothingForgotten, World
    <2>2. CASE registered # 0
      <3>1. registered \in HandleId
        BY <2>2, Numbers
      <3>2. Known => /\ counted \in Nat /\ counted <= handles[registered].used
                     /\ handles'[registered].used \in Nat
        BY <1>5, <1>6, <1>15, <2>2, <3>1, Numbers DEF QuotaInv, NothingForgotten, Known
      <3> QED BY <1>0, <1>12, <1>16, <1>17, <3>1, <3>2 DEF NothingForgotten, World, Known
    <2> QED BY <2>1, <2>2
  <1>19. SnapshotsFit'
    <2> SUFFICES ASSUME NEW u \in Thread PROVE SnapshotFits(u)'
      BY DEF SnapshotsFit
    <2>1. CASE u = t
      BY <1>10, <1>14, <2>1 DEF SnapshotFits, Subtracting
    <2>2. CASE u # t
      <3>1. SnapshotFits(u) /\ upc'[u] = upc[u] /\ local'[u] = local[u]
        BY <1>14, <2>2 DEF QuotaInv, SnapshotsFit
      <3>2. upc[u] \in {"cas", "sub"} /\ local[u].h = registered => registered \in HandleId
        BY Numbers DEF Held
      <3>3. local[u].old_used \in Nat /\ (Known => counted \in Nat)
        BY Numbers DEF Known
      <3>4. registered \in HandleId
              => handles'[registered].used \in Nat /\ handles[registered].used \in Nat
        BY <1>5, <1>6, <1>15, Numbers
      <3>5. upc'[u] = "cas" /\ u \notin stale' /\ local'[u].h = registered'
              => local'[u].old_used <= handles'[registered'].used
        BY <1>0, <1>16, <3>1, <3>2, <3>3, <3>4 DEF SnapshotFits, World
      <3>6. ASSUME u \in Subtracting(registered)', Known'
            PROVE  local'[u].old_used + counted' <= handles'[registered'].used
        <4>1. u \in Subtracting(registered) /\ Known /\ registered \in HandleId
          BY <1>0, <1>12, <3>1, <3>2, <3>6 DEF Subtracting, World
        <4>2. local[u].old_used + counted <= handles[registered].used
          BY <3>1, <4>1 DEF SnapshotFits
        <4> QED BY <1>0, <1>16, <1>17, <3>1, <3>3, <3>4, <4>1, <4>2 DEF World
      <3> QED BY <3>5, <3>6 DEF SnapshotFits
    <2> QED BY <2>1, <2>2
  <1>20. OneSubtracts'
    <2>1. Subtracting(registered)' \subseteq Subtracting(registered)
      BY <1>0, <1>10, <1>14 DEF Subtracting, World
    <2> QED BY <1>12, <2>1 DEF QuotaInv, OneSubtracts
  <1>21. CountFits'
    <2>1. CASE counted' = counted
      <3>1. reload.pc = "add" => handles'[issued].used = handles[issued].used
        <4>1. reload.pc = "add" => h # issued
          BY <1>0, <1>1, <1>3 DEF QuotaInv, HandlesFit
        <4> QED BY <1>15, <4>1, Numbers
      <3> QED BY <1>0, <2>1, <3>1 DEF QuotaInv, CountFits, Known, World, jobs
    <2>2. CASE counted' # counted
      <3>1. ~Leaving /\ registered \in HandleId
        BY <1>4, <1>17, <2>2
      <3>2. registered # 0 /\ reload.pc # "add"
        BY <3>1, ConstantFacts DEF QuotaInv, HandlesFit
      <3> QED BY <1>0, <3>1, <3>2 DEF CountFits, Leaving, World, jobs
    <2> QED BY <2>1, <2>2
  <1> QED BY <1>14, <1>18, <1>19, <1>20, <1>21 DEF QuotaInv

-----------------------------------------------------------------------------
(* Reloads.                                                                *)

\* A job that only moves keeps its handle and what it carries.
LEMMA JobMoves ==
  ASSUME NEW j \in JobType, NEW p \in JobLabel, NEW k, k = [j EXCEPT !.pc = p]
  PROVE  k \in JobType /\ k.pc = p /\ k.h = j.h /\ k.bytes = j.bytes
  BY DEF JobType

\* The same where it notes a flag.
LEMMA JobTests ==
  ASSUME NEW j \in JobType, NEW p \in JobLabel, NEW b \in BOOLEAN, NEW k,
         k = [j EXCEPT !.pc = p, !.exh = b]
  PROVE  k \in JobType /\ k.pc = p /\ k.h = j.h
  BY DEF JobType

\* A job that is not under way has the type.
LEMMA IdleType == NoJob \in JobType /\ NoJob.pc = "idle"
  <1>1. "idle" \in JobLabel
    BY DEF JobLabel
  <1>2. 0 \in HandleId \cup {0} /\ 0 \in Now /\ 0 \in Used /\ Void \in Nat \cup {Void}
    BY ConstantFacts
  <1> QED BY <1>1, <1>2 DEF JobType, NoJob

\* A job that begins has its handle.
LEMMA JobStarts ==
  ASSUME NEW h \in HandleId \cup {0}, NEW e \in Now, NEW p \in JobLabel, NEW k,
         k = [NoJob EXCEPT !.h = h, !.expected = e, !.pc = p]
  PROVE  k \in JobType /\ k.pc = p /\ k.h = h
  BY IdleType DEF JobType

\* The types of all jobs and entries.
LEMMA JobFacts ==
  ASSUME QuotaInv
  PROVE  /\ reload \in JobType /\ reset \in JobType /\ flush \in JobType /\ NoJob \in JobType
         /\ NoJob.pc = "idle" /\ handles \in [HandleId -> Handle] /\ config \in Limits
         /\ today \in Now /\ config.quota \in Quota /\ config.reset_day \in Day
         /\ restored \in QuotaEntry /\ stats \in QuotaEntry /\ NoEntry \in QuotaEntry
         /\ stale \subseteq Rolling
  <1>1. reload \in JobType /\ reset \in JobType /\ flush \in JobType
    BY DEF QuotaInv, JobsType
  <1>2. handles \in [HandleId -> Handle] /\ config \in Limits /\ today \in Now
    BY DEF QuotaInv, QuotaTypeOK
  <1>3. config.quota \in Quota /\ config.reset_day \in Day
    BY <1>2 DEF Limits
  <1>4. restored \in QuotaEntry /\ stats \in QuotaEntry /\ stale \subseteq Rolling
    BY DEF QuotaInv, QuotaTypeOK
  <1>5. NoEntry \in QuotaEntry
    BY ConstantFacts DEF NoEntry, QuotaEntry
  <1> QED BY <1>1, <1>2, <1>3, <1>4, <1>5, IdleType

\* A reload moves on and changes neither the usage nor what is registered.
LEMMA ReloadMoves ==
  ASSUME QuotaInv, UNCHANGED <<today, issued, registered, restored, stats, upc, local, reset,
                               flush>>,
         UNCHANGED history, config' \in Limits,
         handles' \in [HandleId -> Handle],
         \A i \in HandleId : handles'[i].used = handles[i].used,
         reload' \in JobType, reload.pc # "add",
         reload'.pc \notin {"remember", "revoke", "drop", "add"},
         reload'.pc \notin {"idle", "new"} => registered # 0 /\ reload'.h = registered,
         reload'.pc = "new" => registered = 0
  PROVE  QuotaInv'
  <1>1. /\ \A t \in Thread : Held(t)' <=> Held(t)
        /\ \A h \in {registered} : Subtracting(h)' = Subtracting(h)
        /\ Rolling' = Rolling /\ Known' = Known
    BY DEF Held, Subtracting, Rolling, Known, history
  <1>2. QuotaTypeOK'
    BY <1>1 DEF QuotaInv, QuotaTypeOK, history
  <1>3. ThreadsType' /\ JobsType'
    BY DEF QuotaInv, ThreadsType, JobsType
  <1>4. HandlesFit'
    BY <1>1 DEF QuotaInv, HandlesFit
  <1>5. registered # 0 => handles'[registered].used = handles[registered].used
    BY Numbers
  <1>6. NothingForgotten' /\ OneSubtracts'
    BY <1>1, <1>5 DEF QuotaInv, NothingForgotten, OneSubtracts, history
  <1>7. SnapshotsFit'
    <2> SUFFICES ASSUME NEW u \in Thread PROVE SnapshotFits(u)'
      BY DEF SnapshotsFit
    <2>1. SnapshotFits(u)
      BY DEF QuotaInv, SnapshotsFit
    <2>2. upc[u] \in {"cas", "sub"} /\ local[u].h = registered => registered # 0
      BY Numbers, ConstantFacts DEF Held
    <2> QED BY <1>1, <1>5, <2>1, <2>2 DEF SnapshotFits, Subtracting, history
  <1>8. CopiesFit'
    BY DEF QuotaInv, CopiesFit
  <1>9. CountFits'
    <2>1. Known /\ registered = 0 => counted <= restored.bytes
      BY DEF QuotaInv, CountFits
    <2> QED BY <1>1, <2>1 DEF CountFits, history
  <1> QED BY <1>2, <1>3, <1>4, <1>6, <1>7, <1>8, <1>9 DEF QuotaInv

\* Steps of a reload that touch no usage.
LEMMA ReloadQuiet ==
  ASSUME QuotaInv
  PROVE  /\ \A cfg \in Limits : Reload(cfg) => QuotaInv'
         /\ ReloadQuota \/ ReloadDay \/ ReloadEvaluate \/ ReloadStore => QuotaInv'
  <1> USE JobFacts
  <1>0. reload.pc \in {"quota", "day", "eval", "store"}
           => reload.h = registered /\ registered # 0 /\ registered \in HandleId
    BY Numbers DEF QuotaInv, HandlesFit
  <1>1. ASSUME NEW cfg \in Limits, Reload(cfg) PROVE QuotaInv'
    <2>6. PICK p : p = CASE registered # 0 /\ cfg.present -> "quota"
                         [] registered # 0 /\ ~cfg.present -> "loadUsed"
                         [] registered = 0 /\ cfg.present -> "new"
                         [] OTHER -> "idle"
      OBVIOUS
    <2>7. cfg.present \in BOOLEAN
      BY DEF Limits
    <2>8. /\ p \in {"quota", "loadUsed", "new", "idle"}
          /\ p \in {"quota", "loadUsed"} => registered # 0
          /\ p = "new" => registered = 0
      BY <2>6, <2>7
    <2>9. PICK e : e = compute_period_start(today, cfg.reset_day)
      OBVIOUS
    <2>1. /\ e = compute_period_start(today, cfg.reset_day)
          /\ reload' = [NoJob EXCEPT !.h = registered, !.expected = e, !.pc = p]
          /\ p \in {"quota", "loadUsed", "new", "idle"}
          /\ p \in {"quota", "loadUsed"} => registered # 0
          /\ p = "new" => registered = 0
      BY <1>1, <2>6, <2>8, <2>9 DEF Reload
    <2>2. e \in Now
      <3>1. cfg.reset_day \in Day
        BY DEF Limits
      <3>2. e \in 0 .. today
        BY <2>1, <3>1, PeriodStart
      <3> QED BY <3>2, QuotaAssumption DEF Now
    <2>3. registered \in HandleId \cup {0}
      BY Numbers
    <2>4. reload' \in JobType /\ reload'.h = registered /\ reload'.pc = p
      <3>1. p \in JobLabel
        BY <2>1 DEF JobLabel
      <3>2. PICK k : k = reload'
        OBVIOUS
      <3>3. k = [NoJob EXCEPT !.h = registered, !.expected = e, !.pc = p]
        BY <2>1, <3>2
      <3>4. k \in JobType /\ k.h = registered /\ k.pc = p
        BY <2>2, <2>3, <3>1, <3>3, IdleType DEF JobType
      <3> QED BY <3>2, <3>4
    <2>5. /\ UNCHANGED <<today, issued, registered, restored, stats, upc, local, reset, flush>>
          /\ UNCHANGED history /\ config' \in Limits /\ handles' = handles
          /\ reload.pc # "add"
      BY <1>1 DEF Reload, history
    <2> QED BY <2>1, <2>4, <2>5, ReloadMoves
  <1>2. ASSUME ReloadQuota PROVE QuotaInv'
    <2>1. Put(registered, "quota", config.quota) /\ registered \in HandleId
      BY <1>0, <1>2 DEF ReloadQuota
    <2>2. /\ handles' \in [HandleId -> Handle]
          /\ \A i \in HandleId : handles'[i].used = handles[i].used
      BY <2>1, PutLimit
    <2>3. reload' \in JobType /\ reload'.h = reload.h /\ reload'.pc = "day"
      BY <1>2, JobMoves DEF JobLabel, ReloadQuota
    <2>4. /\ UNCHANGED <<today, issued, registered, restored, stats, upc, local, reset, flush>>
          /\ UNCHANGED history /\ config' \in Limits /\ reload.pc = "quota"
      BY <1>2 DEF ReloadQuota, history
    <2> QED BY <1>0, <2>2, <2>3, <2>4, ReloadMoves
  <1>3. ASSUME ReloadDay PROVE QuotaInv'
    <2>1. Put(registered, "reset_day", config.reset_day) /\ registered \in HandleId
      BY <1>0, <1>3 DEF ReloadDay
    <2>2. /\ handles' \in [HandleId -> Handle]
          /\ \A i \in HandleId : handles'[i].used = handles[i].used
      BY <2>1, PutLimit
    <2>3. PICK p \in {"start", "eval"} : reload' = [reload EXCEPT !.pc = p]
      BY <1>3 DEF ReloadDay
    <2>4. reload' \in JobType /\ reload'.h = reload.h /\ reload'.pc = p
      BY <2>3, JobMoves DEF JobLabel
    <2>5. /\ UNCHANGED <<today, issued, registered, restored, stats, upc, local, reset, flush>>
          /\ UNCHANGED history /\ config' \in Limits /\ reload.pc = "day"
      BY <1>3 DEF ReloadDay, history
    <2> QED BY <1>0, <2>2, <2>4, <2>5, ReloadMoves
  <1>4. ASSUME ReloadEvaluate PROVE QuotaInv'
    <2>4. PICK b : b = Over(handles[reload.h].quota, handles[reload.h].used)
      OBVIOUS
    <2>5. b \in BOOLEAN
      BY <2>4 DEF Over
    <2>1. b \in BOOLEAN /\ reload' = [reload EXCEPT !.pc = "store", !.exh = b]
      BY <1>4, <2>4, <2>5 DEF ReloadEvaluate
    <2>2. reload' \in JobType /\ reload'.h = reload.h /\ reload'.pc = "store"
      <3>1. "store" \in JobLabel
        BY DEF JobLabel
      <3>2. PICK j, k : j = reload /\ k = reload'
        OBVIOUS
      <3>3. j \in JobType /\ k = [j EXCEPT !.pc = "store", !.exh = b]
        BY <2>1, <3>2
      <3>4. k \in JobType /\ k.pc = "store" /\ k.h = j.h
        BY <2>1, <3>1, <3>3 DEF JobType
      <3> QED BY <3>2, <3>4
    <2>3. /\ UNCHANGED <<today, issued, registered, restored, stats, upc, local, reset, flush>>
          /\ UNCHANGED history /\ config' \in Limits /\ reload.pc = "eval" /\ handles' = handles
      BY <1>4 DEF ReloadEvaluate, history
    <2> QED BY <1>0, <2>2, <2>3, ReloadMoves
  <1>5. ASSUME ReloadStore PROVE QuotaInv'
    <2>1. reload.exh \in BOOLEAN /\ Put(registered, "exhausted", reload.exh)
          /\ registered \in HandleId
      BY <1>0, <1>5 DEF ReloadStore, JobType
    <2>2. /\ handles' \in [HandleId -> Handle]
          /\ \A i \in HandleId : handles'[i].used = handles[i].used
      BY <2>1, PutFlag
    <2>3. /\ UNCHANGED <<today, issued, registered, restored, stats, upc, local, reset, flush>>
          /\ UNCHANGED history /\ config' \in Limits /\ reload.pc = "store" /\ reload' = NoJob
      BY <1>5 DEF ReloadStore, history
    <2> QED BY <2>2, <2>3, ReloadMoves
  <1> QED BY <1>1, <1>2, <1>3, <1>4, <1>5

\* What no thread does leaves the threads as they are.
LEMMA ThreadsStay ==
  ASSUME QuotaInv, UNCHANGED <<issued, upc, local>>
  PROVE  /\ ThreadsType' /\ Rolling' = Rolling
         /\ \A t \in Thread : Held(t)' <=> Held(t)
         /\ \A t \in Thread : Held(t) => local[t].h \in 1 .. issued
  BY DEF QuotaInv, ThreadsType, Rolling, Held, HandlesFit

\* The usage of the registered handle is set to zero.
LEMMA ZeroKeeps ==
  ASSUME QuotaInv, UNCHANGED <<today, config, issued, registered, restored, stats, upc, local,
                               flush>>,
         registered # 0, Put(registered, "used", 0), Zeroed,
         reload' \in JobType, reset' \in JobType,
         reload'.pc # "add", reload'.pc # "new",
         reload'.pc # "idle" => reload'.h = registered,
         reset'.pc = "clear" => reset'.h # 0
  PROVE  QuotaInv'
  <1> USE JobFacts, ConstantFacts
  <1>1. registered \in HandleId
    BY Numbers
  <1>2. /\ handles' \in [HandleId -> Handle] /\ handles'[registered].used = 0
        /\ \A i \in HandleId \ {registered} : handles'[i] = handles[i]
    BY <1>1, PutUsed
  <1>3. /\ ThreadsType' /\ Rolling' = Rolling
        /\ \A t \in Thread : Held(t)' <=> Held(t)
        /\ \A t \in Thread : Held(t) => local[t].h \in 1 .. issued
    BY ThreadsStay
  <1>4. /\ counted' = (IF Rolling = {} THEN 0 ELSE Void) /\ stale' = stale \cup Rolling
    BY DEF Zeroed
  <1>5. QuotaTypeOK'
    <2>1. counted' \in Nat \cup {Void} /\ stale' \subseteq Rolling'
      BY <1>3, <1>4
    <2> QED BY <1>2, <2>1 DEF QuotaInv, QuotaTypeOK
  <1>6. JobsType'
    BY DEF JobsType
  <1>7. HandlesFit'
    BY <1>3 DEF QuotaInv, HandlesFit
  <1>8. NothingForgotten'
    BY <1>2, <1>4 DEF NothingForgotten
  <1>9. SnapshotsFit' /\ OneSubtracts'
    <2>1. \A t \in Thread : upc[t] \in {"cas", "sub"} => t \in stale' /\ counted' = Void
      BY <1>4 DEF Rolling
    <2> QED BY <2>1 DEF SnapshotsFit, SnapshotFits, OneSubtracts, Subtracting, Known
  <1>10. CopiesFit'
    BY DEF QuotaInv, CopiesFit
  <1>11. CountFits'
    <2>1. reload'.bytes \in Nat /\ restored.bytes \in Nat
      BY Numbers DEF JobType
    <2> QED BY <1>4, <2>1 DEF CountFits, Known
  <1> QED BY <1>3, <1>5, <1>6, <1>7, <1>8, <1>9, <1>10, <1>11 DEF QuotaInv

\* A reload that clears the usage starts the count anew, or makes it void.
LEMMA ReloadZeroKeeps == QuotaInv /\ ReloadZero => QuotaInv'
  <1> SUFFICES ASSUME QuotaInv, ReloadZero PROVE QuotaInv'
    OBVIOUS
  <1>1. reload.h = registered /\ registered # 0
    BY DEF ReloadZero, QuotaInv, HandlesFit
  <1>2. reload' \in JobType /\ reload'.pc = "eval" /\ reload'.h = reload.h
    BY JobFacts, JobMoves DEF JobLabel, ReloadZero
  <1>3. /\ UNCHANGED <<today, config, issued, registered, restored, stats, upc, local, flush>>
        /\ Put(registered, "used", 0) /\ Zeroed /\ reset' = reset
    BY <1>1 DEF ReloadZero
  <1>4. reset' \in JobType /\ (reset'.pc = "clear" => reset'.h # 0)
    BY <1>3, JobFacts DEF QuotaInv, HandlesFit
  <1> QED BY <1>1, <1>2, <1>3, <1>4, ZeroKeeps

\* The start is moved before the clearing: the count is void in between.
LEMMA ReloadStartKeeps == QuotaInv /\ ReloadStart => QuotaInv'
  <1> SUFFICES ASSUME QuotaInv, ReloadStart PROVE QuotaInv'
    OBVIOUS
  <1> USE JobFacts, ConstantFacts
  <1>1. /\ reload.pc = "start" /\ reload.h = registered /\ registered # 0
        /\ registered \in HandleId /\ reload.expected \in Now
        /\ Put(registered, "start", reload.expected)
    BY Numbers DEF ReloadStart, QuotaInv, HandlesFit, JobType
  <1>2. handles' \in [HandleId -> Handle]
    BY <1>1, PutStart
  <1>3. reload' \in JobType /\ reload'.pc = "zero" /\ reload'.h = reload.h
    BY JobMoves DEF JobLabel, ReloadStart
  <1>4. /\ UNCHANGED <<today, config, issued, registered, restored, stats, upc, local, reset,
                       flush>>
        /\ counted' = Void /\ stale' = stale \cup Rolling
    BY DEF ReloadStart
  <1>5. /\ ThreadsType' /\ Rolling' = Rolling
        /\ \A t \in Thread : Held(t)' <=> Held(t)
        /\ \A t \in Thread : Held(t) => local[t].h \in 1 .. issued
    BY <1>4, ThreadsStay
  <1>6. QuotaTypeOK'
    <2>1. counted' \in Nat \cup {Void} /\ stale' \subseteq Rolling'
      BY <1>4, <1>5
    <2> QED BY <1>2, <1>4, <2>1 DEF QuotaInv, QuotaTypeOK
  <1>7. JobsType' /\ HandlesFit'
    BY <1>1, <1>3, <1>4, <1>5 DEF QuotaInv, JobsType, HandlesFit
  <1>8. SnapshotsFit' /\ OneSubtracts' /\ NothingForgotten' /\ CountFits'
    <2>1. \A t \in Thread : upc[t] = "cas" => t \in stale'
      BY <1>4 DEF Rolling
    <2> QED BY <1>4, <2>1
            DEF SnapshotsFit, SnapshotFits, OneSubtracts, NothingForgotten, CountFits, Known
  <1>9. CopiesFit'
    BY <1>4 DEF QuotaInv, CopiesFit
  <1> QED BY <1>5, <1>6, <1>7, <1>8, <1>9 DEF QuotaInv

\* Jobs and copies move on, and neither the threads nor the usage.
LEMMA RecordsMove ==
  ASSUME QuotaInv, UNCHANGED <<issued, registered, upc, local, stale>>,
         today' \in Now, config' \in Limits,
         handles' \in [HandleId -> Handle],
         \A i \in HandleId : handles'[i].used = handles[i].used,
         reload' \in JobType, reset' \in JobType, flush' \in JobType,
         restored' \in QuotaEntry, stats' \in QuotaEntry,
         \/ counted' = counted
         \/ counted' = 0 /\ (Known \/ registered = 0),
         reload'.pc \notin {"idle", "new", "add"} => registered # 0 /\ reload'.h = registered,
         reload'.pc \in {"new", "add"} => registered = 0,
         reload'.pc = "add" => reload.pc = "add",
         reset'.pc = "clear" => reset'.h # 0,
         flush'.pc = "start" => flush'.h # 0,
         CopiesFit', CountFits'
  PROVE  QuotaInv'
  <1>1. /\ ThreadsType' /\ Rolling' = Rolling
        /\ \A t \in Thread : Held(t)' <=> Held(t)
        /\ \A t \in Thread : Held(t) => local[t].h \in 1 .. issued
    BY ThreadsStay
  <1>2. Subtracting(registered)' = Subtracting(registered)
    BY DEF Subtracting
  <1>3. QuotaTypeOK'
    <2>1. counted' \in Nat \cup {Void} /\ stale' \subseteq Rolling'
      BY <1>1, Numbers, JobFacts
    <2> QED BY <2>1 DEF QuotaInv, QuotaTypeOK
  <1>4. JobsType'
    BY DEF JobsType
  <1>5. HandlesFit'
    BY <1>1 DEF QuotaInv, HandlesFit
  <1>6. registered # 0 => /\ handles'[registered].used = handles[registered].used
                          /\ handles[registered].used \in Nat
    BY Numbers
  <1>7. registered # 0 /\ Known' => Known /\ counted' <= counted
    BY Numbers DEF Known
  <1>8. NothingForgotten'
    <2>1. registered # 0 /\ Known' => counted' \in Nat /\ counted \in Nat
      BY <1>7, Numbers DEF Known
    <2> QED BY <1>6, <1>7, <2>1 DEF QuotaInv, NothingForgotten, Known
  <1>9. \A t \in Thread : upc[t] \in {"cas", "sub"} /\ local[t].h = registered => registered # 0
    BY Numbers, ConstantFacts DEF Held
  <1>10. OneSubtracts'
    <2>1. CASE registered = 0
      BY <1>2, <1>9, <2>1 DEF OneSubtracts, Subtracting
    <2>2. CASE registered # 0
      BY <1>2, <1>7, <2>2 DEF QuotaInv, OneSubtracts
    <2> QED BY <2>1, <2>2
  <1>11. SnapshotsFit'
    <2> SUFFICES ASSUME NEW u \in Thread PROVE SnapshotFits(u)'
      BY DEF SnapshotsFit
    <2>1. SnapshotFits(u)
      BY DEF QuotaInv, SnapshotsFit
    <2>2. upc[u] = "cas" /\ u \notin stale /\ local[u].h = registered
            => local[u].old_used <= handles'[registered].used
      BY <1>6, <1>9, <2>1 DEF SnapshotFits
    <2>3. ASSUME u \in Subtracting(registered), Known'
          PROVE  local[u].old_used + counted' <= handles'[registered].used
      <3>1. registered # 0 /\ Known /\ counted' <= counted
        BY <1>7, <1>9, <2>3 DEF Subtracting
      <3>2. counted \in Nat /\ counted' \in Nat /\ local[u].old_used \in Nat
        BY <3>1, Numbers DEF Known
      <3> QED BY <1>6, <2>1, <2>3, <3>1, <3>2 DEF SnapshotFits
    <2> QED BY <1>2, <2>2, <2>3 DEF SnapshotFits
  <1> QED BY <1>1, <1>3, <1>4, <1>5, <1>8, <1>10, <1>11 DEF QuotaInv

\* A removal carries the usage along, as far as it has read it.
LEMMA RemovalKeeps ==
  ASSUME QuotaInv
  PROVE  ReloadLoadUsed \/ ReloadRemember \/ ReloadRevoke => QuotaInv'
  <1>a. /\ reload \in JobType /\ reset \in JobType /\ flush \in JobType
        /\ restored \in QuotaEntry /\ stats \in QuotaEntry
        /\ today \in Now /\ config \in Limits /\ handles \in [HandleId -> Handle]
        /\ reset.pc = "clear" => reset.h # 0
        /\ flush.pc = "start" => flush.h # 0
    BY JobFacts DEF QuotaInv, HandlesFit
  <1>b. reload.pc \notin {"idle", "new", "add"}
          => reload.h = registered /\ registered # 0 /\ registered \in HandleId
    BY Numbers DEF QuotaInv, HandlesFit
  <1>1. ASSUME ReloadLoadUsed PROVE QuotaInv'
    <2>0. PICK v : v = handles[registered].used
      OBVIOUS
    <2>1. reload.pc = "loadUsed" /\ registered \in HandleId /\ reload.h = registered
      BY <1>1, <1>b DEF ReloadLoadUsed
    <2>2. v \in Used
      BY <1>a, <2>0, <2>1 DEF Handle
    <2>3. reload' = [reload EXCEPT !.pc = "remember", !.bytes = v]
      BY <1>1, <2>0, <2>1 DEF ReloadLoadUsed
    <2>4. /\ reload' \in JobType /\ reload'.pc = "remember" /\ reload'.h = reload.h
          /\ reload'.bytes = v
      BY <1>a, <2>2, <2>3 DEF JobType, JobLabel
    <2>5. /\ UNCHANGED <<today, config, handles, issued, registered, restored, stats, upc, local,
                         reset>>
          /\ UNCHANGED <<flush, counted, stale>>
      BY <1>1 DEF ReloadLoadUsed, history
    <2>6. CountFits' /\ CopiesFit'
      <3>1. Known => counted <= v
        BY <2>0, <2>1, ConstantFacts DEF QuotaInv, NothingForgotten, Known
      <3>2. registered # 0
        BY <2>1, ConstantFacts
      <3> QED BY <2>4, <2>5, <3>1, <3>2 DEF QuotaInv, CountFits, CopiesFit, Known
    <2> QED BY <1>a, <1>b, <2>1, <2>4, <2>5, <2>6, RecordsMove
  <1>2. ASSUME ReloadRemember PROVE QuotaInv'
    <2>1. reload.pc = "remember" /\ registered \in HandleId /\ reload.h = registered
      BY <1>2, <1>b DEF ReloadRemember
    <2>0. PICK b, s : b = reload.bytes /\ s = handles[registered].start
      OBVIOUS
    <2>2. b \in Used /\ s \in Now
      BY <1>a, <2>0, <2>1 DEF Handle, JobType
    <2>3. restored' = [NoEntry EXCEPT !.bytes = b, !.start = s]
      BY <1>2, <2>0, <2>1 DEF ReloadRemember
    <2>4. /\ restored' \in QuotaEntry /\ restored'.bytes = b /\ restored'.start = s
          /\ restored'.counted = Void
      BY <2>2, <2>3, JobFacts DEF QuotaEntry, NoEntry
    <2>5. reload' \in JobType /\ reload'.pc = "revoke" /\ reload'.h = reload.h
      BY <1>2, <1>a, JobMoves DEF JobLabel, ReloadRemember
    <2>6. /\ UNCHANGED <<today, config, handles, issued, registered, stats, upc, local, reset>>
          /\ UNCHANGED <<flush, counted, stale>>
      BY <1>2 DEF ReloadRemember, history
    <2>7. CountFits' /\ CopiesFit'
      <3>1. Known => counted <= b
        BY <2>0, <2>1 DEF QuotaInv, CountFits
      <3>2. registered # 0 /\ s # Void
        BY <2>1, <2>2, ConstantFacts
      <3> QED BY <2>4, <2>5, <2>6, <3>1, <3>2 DEF QuotaInv, CountFits, CopiesFit, EntryFits, Known
    <2> QED BY <1>a, <1>b, <2>1, <2>4, <2>5, <2>6, <2>7, RecordsMove
  <1>3. ASSUME ReloadRevoke PROVE QuotaInv'
    <2>1. /\ reload.pc = "revoke" /\ registered \in HandleId /\ reload.h = registered
          /\ Put(registered, "revoked", TRUE)
      BY <1>3, <1>b DEF ReloadRevoke
    <2>2. /\ handles' \in [HandleId -> Handle]
          /\ \A i \in HandleId : handles'[i].used = handles[i].used
      BY <1>a, <2>1, PutFlag
    <2>3. reload' \in JobType /\ reload'.pc = "drop" /\ reload'.h = reload.h
      BY <1>3, <1>a, JobMoves DEF JobLabel, ReloadRevoke
    <2>4. /\ UNCHANGED <<today, config, issued, registered, restored, stats, upc, local, reset>>
          /\ UNCHANGED <<flush, counted, stale>>
      BY <1>3 DEF ReloadRevoke, history
    <2>5. CountFits' /\ CopiesFit'
      BY <2>1, <2>3, <2>4, ConstantFacts DEF QuotaInv, CountFits, CopiesFit, Known
    <2> QED BY <1>a, <1>b, <2>1, <2>2, <2>3, <2>4, <2>5, RecordsMove
  <1> QED BY <1>1, <1>2, <1>3

\* The registry is stored without the handle, of which a copy is remembered.
LEMMA DropKeeps == QuotaInv /\ ReloadDrop => QuotaInv'
  <1> SUFFICES ASSUME QuotaInv, ReloadDrop PROVE QuotaInv'
    OBVIOUS
  <1>1. reload.pc = "drop" /\ registered' = 0 /\ reload' = NoJob
    BY DEF ReloadDrop
  <1>2. UNCHANGED <<today, config, handles, issued, restored, stats, upc, local, reset, flush,
                    counted,
                    stale>>
    BY DEF ReloadDrop, history
  <1>3. /\ ThreadsType' /\ Rolling' = Rolling
        /\ \A t \in Thread : Held(t)' <=> Held(t)
        /\ \A t \in Thread : Held(t) => local[t].h \in 1 .. issued
    BY <1>2, ThreadsStay
  <1>4. QuotaTypeOK' /\ JobsType'
    <2>2. issued \in HandleId
      BY Numbers
    <2>3. issued \in Nat
      BY <2>2, ConstantFacts
    <2>1. registered' \in 0 .. issued'
      BY <1>1, <1>2, <2>3
    <2> QED BY <1>1, <1>2, <1>3, <2>1, IdleType DEF QuotaInv, QuotaTypeOK, JobsType
  <1>5. HandlesFit'
    BY <1>1, <1>2, <1>3, IdleType DEF QuotaInv, HandlesFit
  <1>6. \A t \in Thread : Held(t) => local[t].h # 0
    BY <1>3, Numbers, ConstantFacts
  <1>7. \A t \in Thread : upc[t] \in {"cas", "sub"} => local'[t].h # registered'
    BY <1>1, <1>2, <1>6 DEF Held
  <1>8. SnapshotsFit' /\ OneSubtracts' /\ NothingForgotten'
    BY <1>1, <1>2, <1>7
       DEF SnapshotsFit, SnapshotFits, OneSubtracts, NothingForgotten, Subtracting
  <1>9. CopiesFit' /\ CountFits'
    BY <1>1, <1>2, IdleType DEF QuotaInv, CopiesFit, CountFits, Known
  <1> QED BY <1>3, <1>4, <1>5, <1>8, <1>9 DEF QuotaInv

\* A new handle has what it is given.
LEMMA NewHandleType ==
  ASSUME NEW c \in Limits, NEW s \in Now, NEW u \in Used
  PROVE  NewHandle(c, s, u) \in Handle /\ NewHandle(c, s, u).used = u
  <1>1. Over(c.quota, u) \in BOOLEAN
    BY DEF Over
  <1>2. c.quota \in Quota /\ c.reset_day \in Day
    BY DEF Limits
  <1> QED BY <1>1, <1>2 DEF NewHandle, Handle

\* A user who comes back is given what was remembered of the period.
LEMMA NewKeeps == QuotaInv /\ ReloadNew => QuotaInv'
  <1> SUFFICES ASSUME QuotaInv, ReloadNew PROVE QuotaInv'
    OBVIOUS
  <1>1. PICK m, b : m = issued + 1 /\ b = CarriedOver(restored, reload.expected)
    OBVIOUS
  <1>2. issued \in HandleId /\ issued \in Nat /\ m \in HandleId /\ m \in Nat /\ m > issued
    BY <1>1, Numbers, ConstantFacts DEF ReloadNew, HandleId
  <1>3. b \in Used /\ b = (IF restored.start = reload.expected THEN restored.bytes ELSE 0)
    BY <1>1, JobFacts, ConstantFacts DEF CarriedOver, QuotaEntry
  <1>4. PICK n : n = NewHandle(config, reload.expected, b)
    OBVIOUS
  <1>5. n \in Handle /\ n.used = b
    <2>1. reload.expected \in Now /\ config \in Limits
      BY JobFacts DEF JobType
    <2> QED BY <1>3, <1>4, <2>1, NewHandleType
  <1>6. handles' = [handles EXCEPT ![m] = n]
    BY <1>1, <1>4 DEF ReloadNew
  <1>7. /\ handles' \in [HandleId -> Handle] /\ handles'[m].used = b
    BY <1>2, <1>5, <1>6, JobFacts
  <1>8. /\ issued' = m /\ restored' = NoEntry
        /\ counted' = (IF restored.start = reload.expected THEN counted ELSE 0)
        /\ reload.pc = "new"
        /\ UNCHANGED <<today, config, registered, stats, upc, local, reset, flush, stale>>
    BY <1>1 DEF ReloadNew
  <1>9. reload' \in JobType /\ reload'.pc = "add"
    BY JobFacts, JobMoves DEF JobLabel, ReloadNew
  <1>10. registered = 0
    BY <1>8 DEF QuotaInv, HandlesFit
  <1>11. \A t \in Thread : Held(t) => local[t].h \in 1 .. issued
    BY DEF QuotaInv, HandlesFit
  <1>12. \A t \in Thread : Held(t)' <=> Held(t)
    BY <1>8 DEF Held
  <1>13. ThreadsType' /\ JobsType'
    BY <1>8, <1>9, JobFacts DEF QuotaInv, ThreadsType, JobsType
  <1>14. QuotaTypeOK'
    <2>1. \A t \in Thread : local'[t].h \in 0 .. issued'
      BY <1>2, <1>8 DEF QuotaInv, QuotaTypeOK
    <2>2. counted' \in Nat \cup {Void} /\ stale' \subseteq Rolling'
      BY <1>8, Numbers, JobFacts DEF Rolling
    <2>3. registered' \in 0 .. issued'
      BY <1>2, <1>8, <1>10
    <2>4. restored' \in QuotaEntry
      BY <1>8, JobFacts
    <2> QED BY <1>2, <1>7, <1>8, <2>1, <2>2, <2>3, <2>4 DEF QuotaInv, QuotaTypeOK
  <1>15. HandlesFit'
    <2>1. \A t \in Thread : Held(t)' => local'[t].h \in 1 .. issued' /\ local'[t].h # issued'
      BY <1>2, <1>8, <1>11, <1>12
    <2> QED BY <1>8, <1>9, <1>10, <2>1 DEF QuotaInv, HandlesFit
  <1>16. \A t \in Thread : upc[t] \in {"cas", "sub"} => local[t].h # 0
    BY Numbers, ConstantFacts DEF Held
  <1>17. SnapshotsFit' /\ OneSubtracts' /\ NothingForgotten'
    BY <1>8, <1>10, <1>16
       DEF SnapshotsFit, SnapshotFits, OneSubtracts, NothingForgotten, Subtracting
  <1>18. CopiesFit'
    <2>1. EntryFits(NoEntry)
      BY DEF EntryFits, NoEntry
    <2> QED BY <1>8, <2>1 DEF QuotaInv, CopiesFit
  <1>19. CountFits'
    <2>1. Known' => counted' <= b
      <3>1. CASE restored.start = reload.expected
        BY <1>3, <1>8, <1>10, <3>1 DEF QuotaInv, CountFits, Known
      <3>2. CASE restored.start # reload.expected
        BY <1>3, <1>8, <3>2
      <3> QED BY <3>1, <3>2
    <2> QED BY <1>7, <1>8, <1>9, <2>1 DEF CountFits
  <1> QED BY <1>13, <1>14, <1>15, <1>17, <1>18, <1>19 DEF QuotaInv

\* The new handle is registered with it.
LEMMA AddKeeps == QuotaInv /\ ReloadAdd => QuotaInv'
  <1> SUFFICES ASSUME QuotaInv, ReloadAdd PROVE QuotaInv'
    OBVIOUS
  <1>1. reload.pc = "add" /\ registered' = issued /\ reload' = NoJob
    BY DEF ReloadAdd
  <1>2. UNCHANGED <<today, config, handles, issued, restored, stats, upc, local, reset, flush,
                    counted,
                    stale>>
    BY DEF ReloadAdd, history
  <1>3. /\ ThreadsType' /\ Rolling' = Rolling
        /\ \A t \in Thread : Held(t)' <=> Held(t)
        /\ \A t \in Thread : Held(t) => local[t].h \in 1 .. issued
    BY <1>2, ThreadsStay
  <1>4. QuotaTypeOK' /\ JobsType'
    <2>1. registered' \in 0 .. issued'
      BY <1>1, <1>2, Numbers, ConstantFacts DEF HandleId
    <2> QED BY <1>1, <1>2, <1>3, <2>1, IdleType DEF QuotaInv, QuotaTypeOK, JobsType
  <1>5. HandlesFit'
    BY <1>1, <1>2, <1>3, IdleType DEF QuotaInv, HandlesFit
  <1>6. \A t \in Thread : Held(t) => local[t].h # issued
    BY <1>1 DEF QuotaInv, HandlesFit
  <1>7. \A t \in Thread : upc[t] \in {"cas", "sub"} => local'[t].h # registered'
    BY <1>1, <1>2, <1>6 DEF Held
  <1>8. SnapshotsFit' /\ OneSubtracts'
    BY <1>1, <1>2, <1>7 DEF SnapshotsFit, SnapshotFits, OneSubtracts, Subtracting
  <1>9. NothingForgotten'
    BY <1>1, <1>2 DEF QuotaInv, NothingForgotten, CountFits, Known
  <1>10. CopiesFit' /\ CountFits'
    <2>1. issued # 0
      BY Numbers, ConstantFacts
    <2> QED BY <1>1, <1>2, <2>1, IdleType DEF QuotaInv, CopiesFit, CountFits, Known
  <1> QED BY <1>3, <1>4, <1>5, <1>8, <1>9, <1>10 DEF QuotaInv

-----------------------------------------------------------------------------
(* The console's reset, the statistics file, the clock and restarts.       *)

\* The console's reset starts the count anew, or makes it void.
LEMMA ResetKeeps ==
  ASSUME QuotaInv
  PROVE  ResetZero \/ ResetClear \/ ResetRestored => QuotaInv'
  <1>a. /\ reload \in JobType /\ reset \in JobType /\ flush \in JobType
        /\ restored \in QuotaEntry /\ stats \in QuotaEntry
        /\ today \in Now /\ config \in Limits /\ handles \in [HandleId -> Handle]
    BY JobFacts
  <1>b. /\ reload.pc \notin {"idle", "new", "add"}
             => registered # 0 /\ reload.h = registered
        /\ reload.pc \in {"new", "add"} => registered = 0
        /\ reset.pc = "clear" => reset.h # 0
        /\ flush.pc = "start" => flush.h # 0
    BY DEF QuotaInv, HandlesFit
  <1>1. ASSUME ResetZero PROVE QuotaInv'
    <2>1. /\ UNCHANGED <<today, config, issued, registered, restored, stats, upc, local, flush>>
          /\ registered # 0 /\ Put(registered, "used", 0) /\ Zeroed
          /\ reload' = reload
          /\ reset' = [NoJob EXCEPT !.pc = "clear", !.h = registered]
      BY <1>1 DEF ResetZero
    <2>2. registered \in HandleId
      BY <2>1, Numbers
    <2>3. reset' \in JobType /\ reset'.h = registered
      BY <2>1, <2>2, IdleType DEF JobType, JobLabel
    <2> QED BY <1>a, <1>b, <2>1, <2>3, ZeroKeeps
  <1>2. ASSUME ResetClear PROVE QuotaInv'
    <2>1. /\ UNCHANGED <<today, config, issued, registered, restored, stats, upc, local, reload>>
          /\ UNCHANGED <<flush, counted, stale>>
          /\ Put(reset.h, "exhausted", FALSE)
      BY <1>2 DEF ResetClear, history
    <2>2. reset.h \in HandleId
      <3>1. reset.h \in HandleId \cup {0}
        BY <1>a DEF JobType
      <3> QED BY <1>2, <1>b, <3>1 DEF ResetClear
    <2>3. /\ handles' \in [HandleId -> Handle]
          /\ \A i \in HandleId : handles'[i].used = handles[i].used
      BY <1>a, <2>1, <2>2, PutFlag
    <2>4. reset' \in JobType /\ reset'.pc = "restored"
      BY <1>2, <1>a, JobMoves DEF JobLabel, ResetClear
    <2>5. CopiesFit'
      BY <2>1 DEF QuotaInv, CopiesFit
    <2>6. CountFits'
      BY <2>1, <2>3, Numbers DEF QuotaInv, CountFits, Known
    <2> QED BY <1>a, <1>b, <2>1, <2>3, <2>4, <2>5, <2>6, RecordsMove
  <1>3. ASSUME ResetRestored PROVE QuotaInv'
    <2>1. /\ UNCHANGED <<today, config, handles, issued, registered, stats, upc, local, reload>>
          /\ UNCHANGED <<flush, stale>>
          /\ restored' = [restored EXCEPT !.bytes = 0]
          /\ reset' = [NoJob EXCEPT !.pc = "flush"]
          /\ counted' = IF \/ registered = 0 /\ restored.start # Void
                           \/ reload.pc \in {"revoke", "drop"} /\ counted # Void
                        THEN 0 ELSE counted
      BY <1>3 DEF ResetRestored
    <2>2. /\ restored' \in QuotaEntry /\ restored'.bytes = 0
          /\ restored'.start = restored.start /\ restored'.counted = restored.counted
      BY <1>a, <2>1, ConstantFacts DEF QuotaEntry
    <2>3. reset' \in JobType /\ reset'.pc = "flush"
      BY <2>1, IdleType, JobMoves DEF JobLabel
    <2>4. \/ counted' = counted
          \/ counted' = 0 /\ (Known \/ registered = 0)
      BY <2>1 DEF Known
    <2>5. CopiesFit'
      <3>1. EntryFits(restored)'
        BY <2>2 DEF QuotaInv, CopiesFit, EntryFits
      <3> QED BY <2>1, <3>1 DEF QuotaInv, CopiesFit
    <2>6. CountFits'
      <3>1. issued \in HandleId /\ handles'[issued].used \in Nat /\ reload.bytes \in Nat
            /\ restored.bytes \in Nat
        BY <2>1, Numbers
      <3>2. restored.start = Void => restored.bytes = 0
        BY DEF QuotaInv, CopiesFit, EntryFits
      <3>3. CASE counted' = 0
        BY <2>1, <2>2, <3>1, <3>3 DEF CountFits
      <3>4. CASE counted' # 0
        <4>1. counted' = counted /\ ~(reload.pc \in {"revoke", "drop"} /\ Known)
              /\ (registered = 0 => restored.start = Void)
          BY <2>1, <3>4 DEF Known
        <4> QED BY <2>1, <2>2, <3>2, <4>1 DEF QuotaInv, CountFits, Known
      <3> QED BY <3>3, <3>4
    <2> QED BY <1>a, <1>b, <2>1, <2>2, <2>3, <2>4, <2>5, <2>6, RecordsMove
  <1> QED BY <1>1, <1>2, <1>3

\* A flush carries the usage to the file as far as it has read it.
LEMMA FlushKeeps ==
  ASSUME QuotaInv
  PROVE  FlushUsed \/ FlushStart \/ FlushWithout => QuotaInv'
  <1>a. /\ reload \in JobType /\ reset \in JobType /\ flush \in JobType /\ NoJob \in JobType
        /\ restored \in QuotaEntry /\ stats \in QuotaEntry /\ NoEntry \in QuotaEntry
        /\ today \in Now /\ config \in Limits /\ handles \in [HandleId -> Handle]
        /\ NoJob.pc = "idle"
    BY JobFacts
  <1>b. /\ reload.pc \notin {"idle", "new", "add"}
             => registered # 0 /\ reload.h = registered
        /\ reload.pc \in {"new", "add"} => registered = 0
        /\ reset.pc = "clear" => reset.h # 0
        /\ flush.pc = "start" => flush.h # 0
    BY DEF QuotaInv, HandlesFit
  <1>c. FlushBegins => reset' \in JobType /\ (reset'.pc = "clear" => reset'.h # 0)
    BY <1>a, <1>b DEF FlushBegins
  <1>1. ASSUME FlushUsed PROVE QuotaInv'
    <2>1. /\ UNCHANGED <<today, config, handles, issued, registered, restored, stats, upc, local>>
          /\ UNCHANGED <<reload, counted, stale>>
          /\ registered # 0 /\ FlushBegins
      BY <1>1 DEF FlushUsed, history
    <2>2. PICK v : v = handles[registered].used
      OBVIOUS
    <2>3. registered \in HandleId /\ counted \in Nat \cup {Void}
      BY <2>1, Numbers
    <2>4. v \in Used
      BY <1>a, <2>2, <2>3 DEF Handle
    <2>5. flush' = [NoJob EXCEPT !.pc = "start", !.h = registered, !.bytes = v,
                                !.counted = counted]
      BY <1>1, <2>2 DEF FlushUsed
    <2>6. /\ flush' \in JobType /\ flush'.pc = "start" /\ flush'.h = registered
          /\ flush'.bytes = v /\ flush'.counted = counted
      BY <1>a, <2>3, <2>4, <2>5 DEF JobType, JobLabel
    <2>7. CopiesFit' /\ CountFits'
      <3>1. Known => counted <= v
        BY <2>1, <2>2 DEF QuotaInv, NothingForgotten, Known
      <3>2. CopiesFit'
        BY <2>1, <2>6, <3>1 DEF QuotaInv, CopiesFit, Known
      <3>3. CountFits'
        BY <2>1 DEF QuotaInv, CountFits, Known
      <3> QED BY <3>2, <3>3
    <2>8. \A i \in HandleId : handles'[i].used = handles[i].used
      BY <2>1
    <2> QED BY <1>a, <1>b, <1>c, <2>1, <2>6, <2>7, <2>8, RecordsMove
  <1>2. ASSUME FlushStart PROVE QuotaInv'
    <2>1. /\ UNCHANGED <<today, config, handles, issued, registered, restored, upc, local, reload>>
          /\ UNCHANGED <<reset, counted, stale>> /\ flush' = NoJob /\ flush.pc = "start"
          /\ \/ stats' = [bytes |-> flush.bytes, start |-> handles[flush.h].start,
                          counted |-> flush.counted]
             \/ stats' = stats
      BY <1>2 DEF FlushStart, history
    <2>2. flush.h \in HandleId /\ flush.bytes \in Used /\ flush.counted \in Nat \cup {Void}
      BY <1>a, <1>b, <2>1 DEF JobType
    <2>3. PICK s : s = handles[flush.h].start
      OBVIOUS
    <2>4. s \in Now
      BY <1>a, <2>2, <2>3 DEF Handle
    <2>5. /\ stats' \in QuotaEntry /\ EntryFits(stats)'
          /\ stats'.counted # Void => stats'.counted <= stats'.bytes
      <3>1. CASE stats' = [bytes |-> flush.bytes, start |-> s, counted |-> flush.counted]
        <4>1. s # Void /\ (flush.counted # Void => flush.counted <= flush.bytes)
          BY <2>1, <2>4, ConstantFacts DEF QuotaInv, CopiesFit
        <4> QED BY <2>2, <2>4, <3>1, <4>1 DEF QuotaEntry, EntryFits
      <3>2. CASE stats' = stats
        BY <1>a, <3>2 DEF QuotaInv, CopiesFit, EntryFits
      <3> QED BY <2>1, <2>3, <3>1, <3>2
    <2>6. CopiesFit' /\ CountFits'
      <3>1. CopiesFit'
        BY <1>a, <2>1, <2>5 DEF QuotaInv, CopiesFit
      <3>2. CountFits'
        BY <2>1 DEF QuotaInv, CountFits, Known
      <3> QED BY <3>1, <3>2
    <2>7. \A i \in HandleId : handles'[i].used = handles[i].used
      BY <2>1
    <2> QED BY <1>a, <1>b, <2>1, <2>5, <2>6, <2>7, RecordsMove
  <1>3. ASSUME FlushWithout PROVE QuotaInv'
    <2>1. /\ UNCHANGED <<today, config, handles, issued, registered, restored, upc, local, reload>>
          /\ UNCHANGED <<flush, counted, stale>> /\ stats' \in {NoEntry, stats}
          /\ FlushBegins
      BY <1>3 DEF FlushWithout, history
    <2>2. /\ stats' \in QuotaEntry /\ EntryFits(stats)'
          /\ stats'.counted # Void => stats'.counted <= stats'.bytes
      BY <1>a, <2>1 DEF QuotaInv, CopiesFit, EntryFits, NoEntry
    <2>3. CopiesFit' /\ CountFits'
      <3>1. CopiesFit'
        BY <2>1, <2>2 DEF QuotaInv, CopiesFit
      <3>2. CountFits'
        BY <2>1 DEF QuotaInv, CountFits, Known
      <3> QED BY <3>1, <3>2
    <2>4. \A i \in HandleId : handles'[i].used = handles[i].used
      BY <2>1
    <2> QED BY <1>a, <1>b, <1>c, <2>1, <2>2, <2>3, <2>4, RecordsMove
  <1> QED BY <1>1, <1>2, <1>3

\* The clock moves between rollovers and reloads, and nothing else with it.
LEMMA TickKeeps ==
  ASSUME QuotaInv, NEW n \in Now, Tick(n)
  PROVE  QuotaInv'
  <1>1. /\ UNCHANGED <<config, handles, issued, registered, restored, stats, upc, local, reload>>
        /\ UNCHANGED <<reset, flush, counted, stale>> /\ today' = n
    BY DEF Tick, jobs, history
  <1>2. /\ reload.pc \notin {"idle", "new", "add"}
             => registered # 0 /\ reload.h = registered
        /\ reload.pc \in {"new", "add"} => registered = 0
        /\ reset.pc = "clear" => reset.h # 0
        /\ flush.pc = "start" => flush.h # 0
    BY DEF QuotaInv, HandlesFit
  <1>3. CopiesFit' /\ CountFits'
    BY <1>1 DEF QuotaInv, CopiesFit, CountFits, Known
  <1>4. \A i \in HandleId : handles'[i].used = handles[i].used
    BY <1>1
  <1> QED BY <1>1, <1>2, <1>3, <1>4, JobFacts, RecordsMove

\* A process starts with every thread and job at rest.
LEMMA FreshStart ==
  ASSUME upc' = [t \in Thread |-> "off"], local' = [t \in Thread |-> NoLocal],
         reload' = NoJob, reset' = NoJob, flush' = NoJob, stale' = {},
         issued' = 1, registered' \in {0, 1}, handles' \in [HandleId -> Handle],
         today' \in Now, config' \in Limits, restored' \in QuotaEntry, stats' \in QuotaEntry,
         counted' \in Nat \cup {Void},
         EntryFits(stats)', EntryFits(restored)',
         stats'.counted # Void => stats'.counted <= stats'.bytes,
         registered' # 0 /\ counted' # Void => counted' <= handles'[1].used,
         registered' = 0 /\ counted' # Void => counted' <= restored'.bytes
  PROVE  QuotaInv'
  <1> USE ConstantFacts, IdleType
  <1>1. NoLocal \in LocalType /\ NoLocal.h = 0
    BY DEF LocalType, NoLocal
  <1>2. /\ \A t \in Thread : upc'[t] = "off" /\ local'[t] = NoLocal
        /\ "off" \in Label
    BY DEF Label
  <1>3. ThreadsType' /\ JobsType'
    BY <1>1, <1>2 DEF ThreadsType, JobsType
  <1>4. QuotaTypeOK'
    <2>1. \A t \in Thread : local'[t].h \in 0 .. issued'
      BY <1>1, <1>2
    <2> QED BY <2>1 DEF QuotaTypeOK
  <1>5. HandlesFit'
    BY <1>2 DEF HandlesFit, Held
  <1>6. SnapshotsFit' /\ OneSubtracts'
    BY <1>2 DEF SnapshotsFit, SnapshotFits, OneSubtracts, Subtracting
  <1>7. NothingForgotten' /\ CopiesFit' /\ CountFits'
    BY DEF NothingForgotten, CopiesFit, CountFits, Known
  <1> QED BY <1>3, <1>4, <1>5, <1>6, <1>7 DEF QuotaInv

\* A restart begins with what the file has of the present period.
LEMMA RestartKeeps ==
  ASSUME QuotaInv, StartAgain
  PROVE  QuotaInv'
  <1> DEFINE kept == config.present /\ SamePeriod(stats, Expected(config))
  <1>a. /\ restored \in QuotaEntry /\ stats \in QuotaEntry /\ NoEntry \in QuotaEntry
        /\ today \in Now /\ config \in Limits
    BY JobFacts
  <1>1. PICK e, b : e = Expected(config) /\ b = IF kept THEN stats.bytes ELSE 0
    OBVIOUS
  <1>2. e \in Now
    <2>1. config.reset_day \in Day
      BY JobFacts
    <2>2. e \in 0 .. today
      BY <1>a, <1>1, <2>1, PeriodStart DEF Expected
    <2> QED BY <1>a, <2>2, QuotaAssumption DEF Now
  <1>3. b \in Used
    BY <1>a, <1>1, ConstantFacts DEF QuotaEntry
  <1>4. handles' = [i \in HandleId |-> NewHandle(config, e, b)]
    BY <1>1 DEF StartAgain, HandleId
  <1>5. handles' \in [HandleId -> Handle] /\ handles'[1].used = b
    BY <1>a, <1>2, <1>3, <1>4, NewHandleType, ConstantFacts
  <1>6. /\ issued' = 1 /\ registered' = (IF config.present THEN 1 ELSE 0)
        /\ restored' = (IF config.present THEN NoEntry ELSE stats)
        /\ counted' = (IF stats.start = e THEN stats.counted ELSE 0)
        /\ UNCHANGED <<today, config, stats>>
    BY <1>1 DEF StartAgain
  <1>7. /\ EntryFits(stats) /\ EntryFits(NoEntry)
        /\ stats.counted # Void => stats.counted <= stats.bytes
    BY DEF QuotaInv, CopiesFit, EntryFits, NoEntry
  <1>8. EntryFits(stats)' /\ EntryFits(restored)'
    BY <1>6, <1>7 DEF EntryFits
  <1>9. counted' \in Nat \cup {Void}
    BY <1>a, <1>6 DEF QuotaEntry
  <1>10. registered' # 0 /\ counted' # Void => counted' <= b
    <2>1. CASE stats.start = e
      BY <1>1, <1>6, <1>7, <2>1 DEF EntryFits, SamePeriod
    <2>2. CASE stats.start # e
      BY <1>3, <1>6, <2>2, ConstantFacts
    <2> QED BY <2>1, <2>2
  <1>11. registered' = 0 /\ counted' # Void => counted' <= restored'.bytes
    <2>1. stats.bytes \in Nat
      BY <1>a, ConstantFacts DEF QuotaEntry
    <2> QED BY <1>6, <1>7, <2>1 DEF EntryFits
  <1>12. /\ upc' = [t \in Thread |-> "off"] /\ local' = [t \in Thread |-> NoLocal]
         /\ reload' = NoJob /\ reset' = NoJob /\ flush' = NoJob /\ stale' = {}
    BY DEF StartAgain
  <1>13. restored' \in QuotaEntry /\ registered' \in {0, 1}
    BY <1>a, <1>6
  <1>14. /\ today' \in Now /\ config' \in Limits /\ stats' \in QuotaEntry
         /\ stats'.counted # Void => stats'.counted <= stats'.bytes
         /\ registered' # 0 /\ counted' # Void => counted' <= handles'[1].used
    BY <1>a, <1>5, <1>6, <1>7, <1>10
  <1> QED BY <1>5, <1>6, <1>8, <1>9, <1>11, <1>12, <1>13, <1>14, FreshStart

\* Nothing is used and nobody connected at the start.
LEMMA QuotaStarts == QuotaInit => QuotaInv
  <1> SUFFICES ASSUME QuotaInit PROVE QuotaInv
    OBVIOUS
  <1> USE ConstantFacts, IdleType
  <1>1. PICK e : e = Expected(config)
    OBVIOUS
  <1>2. config \in Limits /\ today = 0 /\ today \in Now
    BY DEF QuotaInit
  <1>3. e \in Now
    <2>1. config.reset_day \in Day
      BY <1>2 DEF Limits
    <2>2. e \in 0 .. today
      BY <1>1, <1>2, <2>1, PeriodStart DEF Expected
    <2> QED BY <1>2, <2>2
  <1>4. handles = [i \in HandleId |-> NewHandle(config, e, 0)]
    BY <1>1 DEF QuotaInit, HandleId
  <1>5. handles \in [HandleId -> Handle] /\ handles[1].used = 0
    BY <1>2, <1>3, <1>4, NewHandleType
  <1>6. NoLocal \in LocalType /\ NoLocal.h = 0
    BY DEF LocalType, NoLocal
  <1>7. /\ \A t \in Thread : upc[t] = "off" /\ local[t] = NoLocal
        /\ upc \in [Thread -> Label] /\ local \in [Thread -> LocalType]
        /\ issued = 1 /\ registered = 1 /\ restored = NoEntry /\ stats = NoEntry
        /\ reload = NoJob /\ reset = NoJob /\ flush = NoJob /\ counted = 0 /\ stale = {}
    BY <1>6 DEF QuotaInit, Label
  <1>8. NoEntry \in QuotaEntry /\ EntryFits(NoEntry) /\ NoEntry.counted = Void
    BY DEF QuotaEntry, EntryFits, NoEntry
  <1>9. QuotaTypeOK
    <2>1. \A t \in Thread : local[t].h \in 0 .. issued
      BY <1>6, <1>7
    <2> QED BY <1>2, <1>5, <1>7, <1>8, <2>1 DEF QuotaTypeOK
  <1>10. ThreadsType /\ JobsType /\ HandlesFit
    BY <1>7 DEF ThreadsType, JobsType, HandlesFit, Held
  <1>11. SnapshotsFit /\ OneSubtracts
    BY <1>7 DEF SnapshotsFit, SnapshotFits, OneSubtracts, Subtracting
  <1>12. NothingForgotten /\ CopiesFit /\ CountFits
    BY <1>5, <1>7, <1>8 DEF NothingForgotten, CopiesFit, CountFits, Known
  <1> QED BY <1>9, <1>10, <1>11, <1>12 DEF QuotaInv

\* The invariant is inductive: one lemma for each action.
LEMMA QuotaSteps == QuotaInv /\ [QuotaNext]_quotaVars => QuotaInv'
  <1> SUFFICES ASSUME QuotaInv, [QuotaNext]_quotaVars PROVE QuotaInv'
    OBVIOUS
  <1>1. ASSUME NEW t \in Thread, Roll(t) PROVE QuotaInv'
    BY <1>1, SnapshotKeeps, ExchangeKeeps, SubtractKeeps, QuietThreads DEF Roll
  <1>2. CASE TimerTick
    BY <1>2, QuietThreads, ConstantFacts
  <1>3. ASSUME NEW c \in UserConn,
               \/ Knock(c) \/ Close(c) \/ Gate(c) \/ GetUserLimit(c) \/ ChargeBlock(c)
               \/ SetExhausted(c)
        PROVE  QuotaInv'
    <2>1. c \in Thread
      BY ConstantFacts
    <2> QED BY <1>3, <2>1, QuietThreads
  <1>4. ASSUME NEW c \in UserConn, FetchAdd(c) PROVE QuotaInv'
    BY <1>4, FetchAddKeeps
  <1>5. ASSUME NEW cfg \in Limits, Reload(cfg) PROVE QuotaInv'
    BY <1>5, ReloadQuiet
  <1>6. CASE ReloadStep
    BY <1>6, ReloadQuiet, ReloadStartKeeps, ReloadZeroKeeps, RemovalKeeps, DropKeeps, NewKeeps,
       AddKeeps DEF ReloadStep
  <1>7. CASE ResetZero \/ ResetClear \/ ResetRestored
    BY <1>7, ResetKeeps
  <1>8. CASE FlushUsed \/ FlushStart \/ FlushWithout
    BY <1>8, FlushKeeps
  <1>9. ASSUME NEW n \in Now, Tick(n) PROVE QuotaInv'
    BY <1>9, TickKeeps
  <1>10. CASE StartAgain
    BY <1>10, RestartKeeps
  <1>11. CASE UNCHANGED quotaVars
    <2>1. /\ UNCHANGED <<today, config, handles, issued, registered, restored, stats, upc, local>>
          /\ UNCHANGED <<reload, reset, flush, counted, stale>>
      BY <1>11 DEF quotaVars
    <2>2. CopiesFit' /\ CountFits'
      BY <2>1 DEF QuotaInv, CopiesFit, CountFits, EntryFits, Known
    <2>3. \A i \in HandleId : handles'[i].used = handles[i].used
      BY <2>1
    <2>4. /\ reload.pc \notin {"idle", "new", "add"}
               => registered # 0 /\ reload.h = registered
          /\ reload.pc \in {"new", "add"} => registered = 0
          /\ reset.pc = "clear" => reset.h # 0
          /\ flush.pc = "start" => flush.h # 0
      BY DEF QuotaInv, HandlesFit
    <2> QED BY <2>1, <2>2, <2>3, <2>4, JobFacts, RecordsMove
  <1> QED
    BY <1>1, <1>2, <1>3, <1>4, <1>5, <1>6, <1>7, <1>8, <1>9, <1>10, <1>11 DEF QuotaNext

\* A period's usage is never forgotten (maybe_rollover and build_registry of user_limits.rs):
\* whatever threads, reloads, resets, flushes and restarts do at once.
THEOREM NothingEverForgotten == QuotaSpec => []NothingForgotten
  <1>1. QuotaInv => NothingForgotten
    BY DEF QuotaInv
  <1> QED BY <1>1, QuotaStarts, QuotaSteps, PTL DEF QuotaSpec

\* The usage never leaves its range, whatever is subtracted when, and every number of a handle
\* is one that was made.
THEOREM UsageInRange == QuotaSpec => []QuotaTypeOK
  <1>1. QuotaInv => QuotaTypeOK
    BY DEF QuotaInv
  <1> QED BY <1>1, QuotaStarts, QuotaSteps, PTL DEF QuotaSpec

-----------------------------------------------------------------------------
(* The places of QUIC: counting.                                           *)

TaskAt == {"off", "arrived", "looked", "seat", "shake", "first", "conn", "stream", "pass",
           "serving", "next", "gone"}
ClaimState == {"none", "counted", "undo", "refused", "held", "freed"}
Key == QuicSource \X BOOLEAN

GateTypes ==
  /\ qpc \in [QuicConn -> TaskAt] /\ valid \in [QuicConn -> BOOLEAN]
  /\ qst \in [AllStreams -> {"off", "hand", "auth", "relay", "ended"}]
  /\ fails \in [QuicConn -> Nat] /\ closed \in [QuicConn -> BOOLEAN]
  /\ claim \in [Owner -> ClaimState]
  /\ total \in [Limiter -> Int] /\ share \in [Limiter -> [Key -> Int]]

Bit(p) == IF p THEN 1 ELSE 0

\* Sets that differ in one element at most.
LEMMA DifferByOne ==
  ASSUME NEW S, IsFiniteSet(S), NEW T, NEW c, T \ {c} = S \ {c}
  PROVE  /\ Cardinality(S) \in Nat
         /\ Cardinality(T) = Cardinality(S) + Bit(c \in T) - Bit(c \in S)
<1>1. Cardinality(S) \in Nat
  BY FS_CardinalityType
<1>2. CASE c \in T <=> c \in S
  <2>1. T = S
    BY <1>2
  <2> QED BY <1>1, <2>1 DEF Bit
<1>3. CASE c \in T /\ c \notin S
  <2>1. T = S \cup {c}
    BY <1>3
  <2>2. Cardinality(T) = Cardinality(S) + 1
    BY <1>3, <2>1, FS_AddElement
  <2> QED BY <1>1, <1>3, <2>2 DEF Bit
<1>4. CASE c \notin T /\ c \in S
  <2>1. T = S \ {c}
    BY <1>4
  <2>2. Cardinality(T) = Cardinality(S) - 1
    BY <1>4, <2>1, FS_RemoveElement
  <2> QED BY <1>1, <1>4, <2>2 DEF Bit
<1> QED BY <1>2, <1>3, <1>4

\* Who takes places is finitely many, and each takes those of one limiter.
LEMMA FiniteOwners == IsFiniteSet(Owner)
<1>1. IsFiniteSet({"handshake", "conn"} \cup QuicStream)
  <2>1. IsFiniteSet({"handshake"}) /\ IsFiniteSet({"conn"})
    BY FS_Singleton
  <2>2. IsFiniteSet(({"handshake"} \cup {"conn"}) \cup QuicStream)
    BY <2>1, ServerQuicAssumption, FS_Union
  <2>3. {"handshake", "conn"} = {"handshake"} \cup {"conn"}
    OBVIOUS
  <2> QED BY <2>2, <2>3
<1> QED BY <1>1, ServerQuicAssumption, FS_Product DEF Owner

\* A limiter counts the places of its own owners.
LEMMA OwnersFit ==
  /\ AllStreams \subseteq Owner
  /\ \A c \in QuicConn : <<"handshake", c>> \in Owner /\ <<"conn", c>> \in Owner
  /\ \A c \in QuicConn : StreamOf(c) \subseteq AllStreams
  /\ \A o \in Owner : /\ o[2] \in QuicConn /\ o = <<o[1], o[2]>>
                      /\ LimiterOf(o) \in Limiter
                      /\ o \in AllStreams <=> o[1] \in QuicStream
                      /\ o \notin AllStreams => o[1] \in {"handshake", "conn"}
                      /\ \A l \in Limiter : o \in OwnersOf(l) <=> LimiterOf(o) = l
  /\ \A l \in Limiter : OwnersOf(l) \subseteq Owner
  BY ServerQuicAssumption DEF AllStreams, Owner, StreamOf, LimiterOf, OwnersOf, Limiter

\* A place is counted for one key.
LEMMA KeyFits ==
  ASSUME GateTypes, NEW o \in Owner
  PROVE  KeyOf(o) \in Key
<1>1. o[2] \in QuicConn
  BY OwnersFit
<1>2. (o[1] = "handshake" => valid[o[2]]) \in BOOLEAN
  OBVIOUS
<1>3. quicSource[o[2]] \in QuicSource
  BY <1>1, ServerQuicAssumption
<1> QED BY <1>2, <1>3 DEF KeyOf, Key

SharesOf(l, k) == {o \in In(l, {"held", "freed"}) : KeyOf(o) = k}
Unvalidated == {o \in In("handshake", {"counted", "held"}) : ~ valid[o[2]]}

\* One claim goes on.
LEMMA ClaimCounts ==
  ASSUME GateTypes, NEW o \in Owner, NEW how \in ClaimState, Claims(o, how), UNCHANGED valid
  PROVE  /\ \A l \in Limiter, w \in SUBSET ClaimState :
              /\ Cardinality(In(l, w)) \in Nat
              /\ Cardinality(In(l, w)') = Cardinality(In(l, w)) +
                   (IF l = LimiterOf(o) THEN Bit(how \in w) - Bit(claim[o] \in w) ELSE 0)
         /\ \A l \in Limiter, k \in Key :
              /\ Cardinality(SharesOf(l, k)) \in Nat
              /\ Cardinality(SharesOf(l, k)') = Cardinality(SharesOf(l, k)) +
                   (IF l = LimiterOf(o) /\ k = KeyOf(o)
                    THEN Bit(how \in {"held", "freed"}) - Bit(claim[o] \in {"held", "freed"})
                    ELSE 0)
         /\ Cardinality(Unvalidated) \in Nat
         /\ Cardinality(Unvalidated') = Cardinality(Unvalidated) +
              (IF LimiterOf(o) = "handshake" /\ ~ valid[o[2]]
               THEN Bit(how \in {"counted", "held"}) - Bit(claim[o] \in {"counted", "held"})
               ELSE 0)
<1>1. claim'[o] = how /\ \A p \in Owner : p # o => claim'[p] = claim[p]
  BY DEF GateTypes, Claims
<1>2. valid' = valid /\ \A p \in Owner : KeyOf(p)' = KeyOf(p)
  BY DEF KeyOf
<1>3. ASSUME NEW l \in Limiter, NEW w \in SUBSET ClaimState
      PROVE  /\ Cardinality(In(l, w)) \in Nat
             /\ Cardinality(In(l, w)') = Cardinality(In(l, w)) +
                  (IF l = LimiterOf(o) THEN Bit(how \in w) - Bit(claim[o] \in w) ELSE 0)
  <2> DEFINE S == In(l, w)
             T == In(l, w)'
  <2>1. /\ S \subseteq Owner /\ T \ {o} = S \ {o}
        /\ o \in T <=> l = LimiterOf(o) /\ how \in w
        /\ o \in S <=> l = LimiterOf(o) /\ claim[o] \in w
    BY <1>1, OwnersFit DEF In
  <2>2. IsFiniteSet(S)
    BY <2>1, FiniteOwners, FS_Subset
  <2> HIDE DEF S, T
  <2>3. /\ Cardinality(S) \in Nat
        /\ Cardinality(T) = Cardinality(S) + Bit(o \in T) - Bit(o \in S)
    BY <2>1, <2>2, DifferByOne
  <2>4. /\ Cardinality(S) \in Nat
        /\ Cardinality(T) = Cardinality(S) +
             (IF l = LimiterOf(o) THEN Bit(how \in w) - Bit(claim[o] \in w) ELSE 0)
    BY <2>1, <2>3 DEF Bit
  <2> QED BY <2>4 DEF S, T
<1>4. ASSUME NEW l \in Limiter, NEW k \in Key
      PROVE  /\ Cardinality(SharesOf(l, k)) \in Nat
             /\ Cardinality(SharesOf(l, k)') = Cardinality(SharesOf(l, k)) +
                  (IF l = LimiterOf(o) /\ k = KeyOf(o)
                   THEN Bit(how \in {"held", "freed"}) - Bit(claim[o] \in {"held", "freed"})
                   ELSE 0)
  <2> DEFINE S == SharesOf(l, k)
             T == SharesOf(l, k)'
  <2>1. /\ S \subseteq Owner /\ T \ {o} = S \ {o}
        /\ o \in T <=> l = LimiterOf(o) /\ k = KeyOf(o) /\ how \in {"held", "freed"}
        /\ o \in S <=> l = LimiterOf(o) /\ k = KeyOf(o) /\ claim[o] \in {"held", "freed"}
    BY <1>1, <1>2, OwnersFit DEF In, SharesOf
  <2>2. IsFiniteSet(S)
    BY <2>1, FiniteOwners, FS_Subset
  <2> HIDE DEF S, T
  <2>3. /\ Cardinality(S) \in Nat
        /\ Cardinality(T) = Cardinality(S) + Bit(o \in T) - Bit(o \in S)
    BY <2>1, <2>2, DifferByOne
  <2>4. /\ Cardinality(S) \in Nat
        /\ Cardinality(T) = Cardinality(S) +
             (IF l = LimiterOf(o) /\ k = KeyOf(o)
              THEN Bit(how \in {"held", "freed"}) - Bit(claim[o] \in {"held", "freed"}) ELSE 0)
    BY <2>1, <2>3 DEF Bit
  <2> QED BY <2>4 DEF S, T
<1>5. /\ Cardinality(Unvalidated) \in Nat
      /\ Cardinality(Unvalidated') = Cardinality(Unvalidated) +
           (IF LimiterOf(o) = "handshake" /\ ~ valid[o[2]]
            THEN Bit(how \in {"counted", "held"}) - Bit(claim[o] \in {"counted", "held"})
            ELSE 0)
  <2> DEFINE S == Unvalidated
             T == Unvalidated'
  <2>1. /\ S \subseteq Owner /\ T \ {o} = S \ {o}
        /\ o \in T <=> LimiterOf(o) = "handshake" /\ ~ valid[o[2]] /\ how \in {"counted", "held"}
        /\ o \in S <=> /\ LimiterOf(o) = "handshake" /\ ~ valid[o[2]]
                      /\ claim[o] \in {"counted", "held"}
    BY <1>1, <1>2, OwnersFit DEF In, Unvalidated, Limiter
  <2>2. IsFiniteSet(S)
    BY <2>1, FiniteOwners, FS_Subset
  <2> HIDE DEF S, T
  <2>3. /\ Cardinality(S) \in Nat
        /\ Cardinality(T) = Cardinality(S) + Bit(o \in T) - Bit(o \in S)
    BY <2>1, <2>2, DifferByOne
  <2>4. /\ Cardinality(S) \in Nat
        /\ Cardinality(T) = Cardinality(S) +
             (IF LimiterOf(o) = "handshake" /\ ~ valid[o[2]]
              THEN Bit(how \in {"counted", "held"}) - Bit(claim[o] \in {"counted", "held"}) ELSE 0)
    BY <2>1, <2>3 DEF Bit
  <2> QED BY <2>4 DEF S, T
<1> QED BY <1>3, <1>4, <1>5

\* Between the look at the count of all handshakes and taking a place, the count does not grow.
SoftRoom ==
  \A c \in QuicConn :
    ~ valid[c] /\ (qpc[c] = "looked" \/ (qpc[c] = "seat" /\ claim[<<"handshake", c>>] = "none"))
      => total["handshake"] < SoftHandshakes

NumbersFit == CountsExact /\ PlacesBounded /\ RoomForValidated

\* What the counts say of the claims.
LEMMA NumbersSay ==
  ASSUME GateTypes
  PROVE  /\ NumbersFit => Cardinality(Unvalidated) <= SoftHandshakes
         /\ \A l \in Limiter : Cardinality(In(l, {"counted", "held"}))
                                <= Cardinality(In(l, {"counted", "undo", "held"}))
         /\ Cardinality(Unvalidated) <= Cardinality(In("handshake", {"counted", "undo", "held"}))
<1>1. ASSUME NEW S, NEW T, S \subseteq T, T \subseteq Owner
      PROVE Cardinality(S) <= Cardinality(T)
  BY <1>1, FiniteOwners, FS_Subset
<1>2. \A l \in Limiter : \A w : In(l, w) \subseteq Owner
  BY OwnersFit DEF In
<1>3. /\ \A l \in Limiter : In(l, {"counted", "held"}) \subseteq In(l, {"counted", "undo", "held"})
      /\ Unvalidated \subseteq In("handshake", {"counted", "undo", "held"})
      /\ "handshake" \in Limiter
  BY DEF In, Unvalidated, Limiter
<1> QED BY <1>1, <1>2, <1>3 DEF NumbersFit, RoomForValidated, Unvalidated

\* Taking a place or giving one back keeps the counts true and within their limits.
LEMMA CountStep ==
  ASSUME GateTypes, NumbersFit, SoftRoom, NEW o \in Owner,
         Acquire(o) \/ Release(o), UNCHANGED valid,
         o[1] = "handshake" /\ claim[o] = "none" => qpc[o[2]] = "seat"
  PROVE  /\ NumbersFit'
         /\ claim' \in [Owner -> ClaimState] /\ total' \in [Limiter -> Int]
         /\ share' \in [Limiter -> [Key -> Int]]
         /\ total'["handshake"] > total["handshake"]
              => claim[o] = "none" /\ LimiterOf(o) = "handshake"
<1> DEFINE lim == LimiterOf(o)
           key == KeyOf(o)
<1>1. PICK how \in ClaimState : Claims(o, how)
  BY DEF Acquire, Release, CountIn, LockShare, FetchSub, ClaimState
<1>2. /\ lim \in Limiter /\ key \in Key
      /\ lim = "handshake" => o = <<"handshake", o[2]>> /\ o[2] \in QuicConn
  <2>1. lim = "handshake" => o[1] = "handshake"
    BY OwnersFit, ServerQuicAssumption DEF LimiterOf, Limiter
  <2> QED BY <2>1, OwnersFit, KeyFits
<1>3. claim' \in [Owner -> ClaimState] /\ claim'[o] = how
  BY <1>1 DEF Claims, GateTypes
<1>4. PICK n \in {-1, 0, 1}, m \in {-1, 0, 1} :
        /\ total' = [total EXCEPT ![lim] = @ + n] /\ share' = [share EXCEPT ![lim][key] = @ + m]
        /\ n = Bit(how \in {"counted", "undo", "held"})
                 - Bit(claim[o] \in {"counted", "undo", "held"})
        /\ m = Bit(how \in {"held", "freed"}) - Bit(claim[o] \in {"held", "freed"})
        /\ n = 1 => claim[o] = "none"
        /\ how \in {"counted", "held"} /\ claim[o] \notin {"counted", "held"}
              => claim[o] = "none" /\ total[lim] < MaxPlaces[lim]
        /\ m = 1 => share[lim][key] < MaxShare[lim]
  <2>0. /\ total = [total EXCEPT ![lim] = @ + 0] /\ share = [share EXCEPT ![lim][key] = @ + 0]
    BY <1>2 DEF GateTypes
  <2> USE <1>3, <1>2 DEF Claims, Bit, AddTotal, AddShare
  <2>1. CASE CountIn(o)
    BY <2>0, <2>1 DEF CountIn
  <2>2. CASE LockShare(o)
    BY <2>0, <2>2 DEF LockShare
  <2>3. CASE FetchSub(o)
    BY <2>0, <2>3 DEF FetchSub
  <2>4. CASE Release(o)
    BY <2>0, <2>4 DEF Release
  <2> QED BY <2>1, <2>2, <2>3, <2>4 DEF Acquire
<1>5. /\ total' \in [Limiter -> Int] /\ share' \in [Limiter -> [Key -> Int]]
      /\ \A l \in Limiter : total'[l] = total[l] + (IF l = lim THEN n ELSE 0)
      /\ \A l \in Limiter, k \in Key :
           share'[l][k] = share[l][k] + (IF l = lim /\ k = key THEN m ELSE 0)
  BY <1>2, <1>4 DEF GateTypes
<1> HIDE DEF lim, key
<1>6. CountsExact'
  <2>1. ASSUME NEW l \in Limiter
        PROVE  total'[l] = Cardinality(In(l, {"counted", "undo", "held"})')
    <3> DEFINE w == {"counted", "undo", "held"}
    <3>1. w \in SUBSET ClaimState
      BY DEF ClaimState
    <3>2. total[l] = Cardinality(In(l, w))
      BY DEF NumbersFit, CountsExact
    <3>3. Cardinality(In(l, w)') = Cardinality(In(l, w)) + (IF l = lim THEN n ELSE 0)
      BY <1>1, <1>4, <3>1, ClaimCounts DEF lim, Bit
    <3> QED BY <1>5, <3>2, <3>3
  <2>2. ASSUME NEW l \in Limiter, NEW k \in Key
        PROVE  share'[l][k] = Cardinality(SharesOf(l, k)')
    <3>1. share[l][k] = Cardinality(SharesOf(l, k))
      BY DEF NumbersFit, CountsExact, SharesOf, Key
    <3>2. Cardinality(SharesOf(l, k)')
            = Cardinality(SharesOf(l, k)) + (IF l = lim /\ k = key THEN m ELSE 0)
      BY <1>1, <1>4, ClaimCounts DEF lim, key, Bit
    <3> QED BY <1>5, <3>1, <3>2
  <2> QED BY <2>1, <2>2 DEF CountsExact, SharesOf, Key
<1>7. PlacesBounded'
  <2>1. ASSUME NEW l \in Limiter
        PROVE  Cardinality(In(l, {"counted", "held"})') <= MaxPlaces[l]
    <3> DEFINE w == {"counted", "held"}
               b == Bit(how \in w) - Bit(claim[o] \in w)
    <3>1. w \in SUBSET ClaimState
      BY DEF ClaimState
    <3>2. /\ Cardinality(In(l, w)) <= MaxPlaces[l] /\ Cardinality(In(l, w)) \in Nat
          /\ Cardinality(In(l, w)) <= total[l] /\ MaxPlaces[l] \in Nat /\ total[l] \in Int
      BY <1>1, <3>1, NumbersSay, ClaimCounts, ServerQuicAssumption
         DEF NumbersFit, CountsExact, PlacesBounded, GateTypes
    <3>3. Cardinality(In(l, w)') = Cardinality(In(l, w)) + (IF l = lim THEN b ELSE 0)
      BY <1>1, <3>1, ClaimCounts DEF lim
    <3>4. b \in {-1, 0, 1} /\ (b = 1 => total[lim] < MaxPlaces[lim])
      BY <1>4 DEF Bit
    <3> HIDE DEF w, b
    <3>5. Cardinality(In(l, w)') <= MaxPlaces[l]
      BY <3>2, <3>3, <3>4
    <3> QED BY <3>5 DEF w
  <2>2. ASSUME NEW l \in Limiter, NEW k \in Key
        PROVE  share'[l][k] <= MaxShare[l]
    <3>1. /\ share[l][k] <= MaxShare[l] /\ share[l][k] \in Int /\ MaxShare[l] \in Nat
      BY ServerQuicAssumption DEF NumbersFit, PlacesBounded, GateTypes, Key
    <3> QED BY <1>4, <1>5, <3>1
  <2> QED BY <2>1, <2>2 DEF PlacesBounded, Key
<1>8. RoomForValidated'
  <2> DEFINE w == {"counted", "held"}
             b == Bit(how \in w) - Bit(claim[o] \in w)
  <2>1. Cardinality(Unvalidated) \in Nat /\ Cardinality(Unvalidated) <= SoftHandshakes
        /\ Cardinality(Unvalidated) <= total["handshake"]
        /\ SoftHandshakes \in Int /\ total["handshake"] \in Int
    BY <1>1, NumbersSay, ClaimCounts, ServerQuicAssumption
       DEF NumbersFit, CountsExact, GateTypes, Limiter
  <2>2. Cardinality(Unvalidated')
          = Cardinality(Unvalidated) + (IF lim = "handshake" /\ ~ valid[o[2]] THEN b ELSE 0)
    BY <1>1, ClaimCounts DEF lim
  <2>3. b \in {-1, 0, 1} /\ (b = 1 => claim[o] = "none")
    BY <1>4 DEF Bit
  <2>4. lim = "handshake" /\ ~ valid[o[2]] /\ claim[o] = "none"
          => total["handshake"] < SoftHandshakes
    BY <1>2 DEF SoftRoom
  <2> HIDE DEF b
  <2> QED BY <2>1, <2>2, <2>3, <2>4 DEF RoomForValidated, Unvalidated
<1> QED
  <2>1. total'["handshake"] > total["handshake"] => claim[o] = "none" /\ LimiterOf(o) = "handshake"
    <3>1. total["handshake"] \in Int /\ "handshake" \in Limiter
      BY DEF GateTypes, Limiter
    <3> QED BY <1>4, <1>5, <3>1 DEF lim
  <2> QED BY <1>3, <1>5, <1>6, <1>7, <1>8, <2>1 DEF NumbersFit

-----------------------------------------------------------------------------
(* The places of QUIC: who holds what.                                     *)

Asking == {"none", "counted", "undo", "refused", "held"}
Giving == {"held", "freed", "none"}

SeatFits(c) ==
  LET h == claim[<<"handshake", c>>]
      k == claim[<<"conn", c>>]
  IN /\ qpc[c] \in {"off", "arrived", "looked", "serving", "next"} => h = "none"
     /\ qpc[c] = "seat" => h \in Asking
     /\ qpc[c] \in {"shake", "first", "conn", "stream"} => h = "held"
     /\ qpc[c] \in {"pass", "gone"} => h \in Giving
     /\ qpc[c] \in {"off", "arrived", "looked", "seat", "shake", "first"} => k = "none"
     /\ qpc[c] = "conn" => k \in Asking
     /\ qpc[c] \in {"stream", "pass", "serving", "next"} => k = "held"
     /\ qpc[c] = "gone" => k \in Giving

PlaceFits(o) ==
  LET c == o[2] IN
  /\ qst[o] = "off" => claim[o] = "none"
  /\ qst[o] = "hand" =>
       /\ claim[o] \in Asking /\ qpc[c] \in {"conn", "stream", "pass", "next"}
       /\ qpc[c] = "conn" => claim[o] = "none"
       /\ qpc[c] = "pass" => claim[o] = "held"
  /\ qst[o] \in {"auth", "relay"} => claim[o] = "held"
  /\ qst[o] = "ended" => claim[o] \in Giving
  /\ qpc[c] \in {"arrived", "looked", "seat", "shake", "first"} => qst[o] = "off"

OneHand == \A o, p \in AllStreams : o[2] = p[2] /\ qst[o] = "hand" /\ qst[p] = "hand" => o = p
OneAccepts ==
  \A c, d \in QuicConn :
    qpc[c] \in {"arrived", "looked", "seat"} /\ qpc[d] \in {"arrived", "looked", "seat"} => c = d

TasksFit ==
  /\ \A c \in QuicConn : SeatFits(c)
  /\ \A o \in AllStreams : PlaceFits(o)
  /\ OneHand /\ OneAccepts

GateInv == GateTypes /\ NumbersFit /\ SoftRoom /\ TasksFit

\* What taking and giving back leave of the claims.
LEMMA PlaceMoves ==
  ASSUME GateTypes, NEW o \in Owner
  PROVE  /\ Acquire(o) \/ Release(o) => \A p \in Owner : p # o => claim'[p] = claim[p]
         /\ Acquire(o) => claim[o] \in {"none", "counted", "undo"}
                           /\ claim'[o] \in {"counted", "undo", "refused", "held"}
         /\ Release(o) => claim[o] \in {"held", "freed"} /\ claim'[o] \in {"freed", "none"}
  BY DEF GateTypes, Acquire, Release, CountIn, LockShare, FetchSub, Claims

\* A place is taken or given back by a task that stays where it is.
LEMMA PlaceSteps ==
  ASSUME GateInv, NEW o \in Owner, UNCHANGED quicTasks,
         \/ Acquire(o) /\ o \in Wanted(o[2])
         \/ Release(o) /\ o[1] = "handshake" /\ qpc[o[2]] \in {"pass", "gone"}
         \/ Release(o) /\ o[1] = "conn" /\ qpc[o[2]] = "gone"
         \/ Release(o) /\ o \in AllStreams /\ qst[o] = "ended"
  PROVE  GateInv'
<1> USE DEF GateInv, quicTasks
<1>1. /\ UNCHANGED <<qpc, valid, qst, fails, closed>>
      /\ Acquire(o) \/ Release(o)
      /\ o[2] \in QuicConn /\ o = <<o[1], o[2]>>
      /\ o \in AllStreams <=> o[1] \in QuicStream
      /\ "handshake" \notin QuicStream /\ "conn" \notin QuicStream
  BY OwnersFit, ServerQuicAssumption DEF Limiter
<1>2. o[1] = "handshake" /\ claim[o] = "none" => qpc[o[2]] = "seat"
  BY <1>1, PlaceMoves DEF Wanted
<1>3. /\ NumbersFit'
      /\ claim' \in [Owner -> ClaimState] /\ total' \in [Limiter -> Int]
      /\ share' \in [Limiter -> [Key -> Int]]
      /\ total'["handshake"] > total["handshake"] => claim[o] = "none" /\ LimiterOf(o) = "handshake"
  BY <1>1, <1>2, CountStep
<1>4. GateTypes'
  BY <1>1, <1>3 DEF GateTypes
<1>5. ASSUME NEW c \in QuicConn PROVE SeatFits(c)'
  <2>1. SeatFits(c) /\ <<"handshake", c>> \in Owner /\ <<"conn", c>> \in Owner
    BY OwnersFit DEF TasksFit
  <2>2. CASE o = <<"handshake", c>>
    <3>1. claim'[<<"conn", c>>] = claim[<<"conn", c>>]
      BY <1>1, <2>1, <2>2, PlaceMoves
    <3>2. o[1] = "handshake" /\ o[2] = c /\ o \notin AllStreams
      BY <1>1, <2>2
    <3>3. (Acquire(o) /\ qpc[c] = "seat") \/ (Release(o) /\ qpc[c] \in {"pass", "gone"})
      BY <1>1, <3>2 DEF Wanted
    <3> QED BY <1>1, <2>1, <2>2, <3>1, <3>3, PlaceMoves DEF SeatFits, Asking, Giving
  <2>3. CASE o = <<"conn", c>>
    <3>1. claim'[<<"handshake", c>>] = claim[<<"handshake", c>>]
      BY <1>1, <2>1, <2>3, PlaceMoves
    <3>2. o[1] = "conn" /\ o[2] = c /\ o \notin AllStreams
      BY <1>1, <2>3
    <3>3. (Acquire(o) /\ qpc[c] = "conn") \/ (Release(o) /\ qpc[c] = "gone")
      BY <1>1, <3>2 DEF Wanted
    <3> QED BY <1>1, <2>1, <2>3, <3>1, <3>3, PlaceMoves DEF SeatFits, Asking, Giving
  <2>4. CASE o # <<"handshake", c>> /\ o # <<"conn", c>>
    BY <1>1, <2>1, <2>4, PlaceMoves DEF SeatFits
  <2> QED BY <2>2, <2>3, <2>4
<1>6. ASSUME NEW p \in AllStreams PROVE PlaceFits(p)'
  <2>1. PlaceFits(p) /\ p \in Owner /\ p[1] \in QuicStream
    BY OwnersFit DEF TasksFit
  <2>2. CASE o = p
    <3>1. (Acquire(o) /\ qst[o] = "hand" /\ qpc[o[2]] \in {"stream", "next"})
            \/ (Release(o) /\ qst[o] = "ended")
      BY <1>1, <2>1, <2>2, ServerQuicAssumption DEF Wanted, Limiter
    <3> QED BY <1>1, <2>1, <2>2, <3>1, PlaceMoves DEF PlaceFits, Asking, Giving
  <2>3. CASE o # p
    BY <1>1, <2>1, <2>3, PlaceMoves DEF PlaceFits
  <2> QED BY <2>2, <2>3
<1>7. OneHand' /\ OneAccepts'
  BY <1>1 DEF TasksFit, OneHand, OneAccepts
<1>8. SoftRoom'
  <2> SUFFICES ASSUME NEW c \in QuicConn, ~ valid[c],
                      qpc[c] = "looked" \/ (qpc[c] = "seat" /\ claim'[<<"handshake", c>>] = "none")
               PROVE  total'["handshake"] < SoftHandshakes
    BY <1>1 DEF SoftRoom
  <2>1. <<"handshake", c>> \in Owner /\ SeatFits(c)
    BY OwnersFit DEF TasksFit
  <2>2. o # <<"handshake", c>>
    <3> SUFFICES ASSUME o = <<"handshake", c>> PROVE FALSE
      OBVIOUS
    <3>1. o[1] = "handshake" /\ o[2] = c /\ o \notin AllStreams
      BY <1>1
    <3>2. Acquire(o) /\ qpc[c] = "seat"
      BY <1>1, <3>1 DEF Wanted
    <3> QED BY <3>2, PlaceMoves
  <2>3. total["handshake"] < SoftHandshakes
    BY <1>1, <2>1, <2>2, PlaceMoves DEF SoftRoom
  <2>4. ~ (total'["handshake"] > total["handshake"])
    <3> SUFFICES ASSUME claim[o] = "none", LimiterOf(o) = "handshake" PROVE FALSE
      BY <1>3
    <3>1. o[1] = "handshake"
      BY <1>1, OwnersFit DEF LimiterOf
    <3>2. qpc[o[2]] = "seat"
      BY <1>2, <3>1
    <3>3. o[2] = c
      BY <1>1, <3>2 DEF TasksFit, OneAccepts
    <3> QED BY <1>1, <2>2, <3>1, <3>3
  <2>5. total["handshake"] \in Int /\ total'["handshake"] \in Int /\ SoftHandshakes \in Int
    BY <1>3, ServerQuicAssumption DEF GateTypes, Limiter
  <2> QED BY <2>3, <2>4, <2>5
<1> QED BY <1>3, <1>4, <1>5, <1>6, <1>7, <1>8 DEF TasksFit

\* The counts stay true where no place is taken or given back.
LEMMA NumbersStay ==
  ASSUME GateInv, UNCHANGED <<total, share>>,
         \A p \in Owner : \/ claim'[p] = claim[p]
                          \/ {claim'[p], claim[p]} \subseteq {"none", "refused"},
         \A c \in QuicConn : valid'[c] = valid[c] \/ claim[<<"handshake", c>>] = "none"
  PROVE  NumbersFit'
<1> USE DEF GateInv
<1>1. ASSUME NEW l \in Limiter
      PROVE  /\ In(l, {"counted", "undo", "held"})' = In(l, {"counted", "undo", "held"})
             /\ In(l, {"counted", "held"})' = In(l, {"counted", "held"})
             /\ In(l, {"held", "freed"})' = In(l, {"held", "freed"})
  BY OwnersFit DEF In
<1>2. ASSUME NEW p \in Owner, claim[p] # "none" PROVE KeyOf(p)' = KeyOf(p)
  <2>1. p[1] = "handshake" => valid'[p[2]] = valid[p[2]]
    BY <1>2, OwnersFit
  <2> QED BY <2>1 DEF KeyOf
<1>3. ASSUME NEW l \in Limiter, NEW k \in Key
      PROVE  SharesOf(l, k)' = SharesOf(l, k)
  <2>1. \A p \in In(l, {"held", "freed"}) : p \in Owner /\ claim[p] # "none"
    BY OwnersFit DEF In
  <2> QED BY <1>1, <1>2, <2>1 DEF SharesOf
<1>4. Unvalidated' = Unvalidated
  <2>1. \A p \in In("handshake", {"counted", "held"}) :
          /\ p \in Owner /\ claim[p] # "none" /\ p = <<"handshake", p[2]>> /\ p[2] \in QuicConn
    BY OwnersFit DEF In, OwnersOf, Limiter
  <2>2. "handshake" \in Limiter
    BY DEF Limiter
  <2> QED BY <1>1, <2>1, <2>2 DEF Unvalidated
<1> QED
  <2>1. CountsExact'
    BY <1>1, <1>3 DEF NumbersFit, CountsExact, SharesOf, Key
  <2>2. PlacesBounded'
    BY <1>1 DEF NumbersFit, PlacesBounded
  <2>3. RoomForValidated'
    BY <1>4 DEF NumbersFit, RoomForValidated, Unvalidated
  <2> QED BY <2>1, <2>2, <2>3 DEF NumbersFit

\* In particular where a task only goes on.
LEMMA NumbersKept ==
  ASSUME GateInv, UNCHANGED places3, UNCHANGED valid PROVE NumbersFit'
  BY NumbersStay DEF places3

\* A connection's task goes on, and takes no place and gives none back.
LEMMA ConnSteps ==
  ASSUME GateInv, NEW c \in QuicConn,
         Pressure(c) \/ Placed(c) \/ Shake(c) \/ First(c) \/ NextStream(c) \/ Closes(c)
  PROVE  GateInv'
<1> USE DEF GateInv
<1>1. UNCHANGED places3 /\ UNCHANGED valid
  BY DEF Pressure, Placed, Shake, First, NextStream, Closes
<1>2. NumbersFit'
  BY <1>1, NumbersKept
<1>3. GateTypes'
  BY <1>1 DEF GateTypes, Pressure, Placed, Shake, First, NextStream, Closes, places3, GoOn, TaskAt
<1>4. /\ \A d \in QuicConn : d # c => qpc'[d] = qpc[d]
      /\ \A o \in AllStreams : o[2] # c => qst'[o] = qst[o]
  BY DEF GateTypes, Pressure, Placed, Shake, First, NextStream, Closes, places3, GoOn,
         StreamOf, Wanted
<1>5. \A d \in QuicConn : d # c => SeatFits(d)'
  BY <1>1, <1>4 DEF TasksFit, SeatFits, places3
<1>6. \A o \in AllStreams : o[2] # c => PlaceFits(o)'
  BY <1>1, <1>4, OwnersFit DEF TasksFit, PlaceFits, places3
<1>7. SeatFits(c)
  BY DEF TasksFit
<1>8. SoftRoom'
  <2>1. ASSUME NEW d \in QuicConn, ~ valid[d],
               qpc'[d] = "looked" \/ (qpc'[d] = "seat" /\ claim[<<"handshake", d>>] = "none")
        PROVE  total["handshake"] < SoftHandshakes
    <3>1. CASE d # c
      BY <1>4, <2>1, <3>1 DEF SoftRoom
    <3>2. CASE d = c
      <4>1. CASE Pressure(c)
        <5>1. CASE qpc[c] = "arrived"
          BY <2>1, <3>2, <4>1, <5>1, ServerQuicAssumption
             DEF Pressure, GoOn, SoftFull, GateTypes, Limiter
        <5>2. CASE qpc[c] = "looked"
          BY <2>1, <3>2, <4>1, <5>2 DEF SoftRoom
        <5> QED BY <4>1, <5>1, <5>2 DEF Pressure
      <4>2. CASE ~ Pressure(c)
        BY <2>1, <3>2, <4>2 DEF Placed, Shake, First, NextStream, Closes, GoOn, GateTypes, SoftRoom
      <4> QED BY <4>1, <4>2
    <3> QED BY <3>1, <3>2
  <2> QED BY <1>1, <2>1 DEF SoftRoom, places3
<1>9. SeatFits(c)'
  <2> USE <1>1, <1>7, OwnersFit DEF SeatFits, places3, GateTypes, GoOn
  <2>1. CASE Pressure(c)
    BY <2>1 DEF Pressure, Asking
  <2>2. CASE Placed(c)
    <3>1. PICK o \in Wanted(c) : claim[o] = "held"
                 /\ qpc' = [qpc EXCEPT ![c] =
                      CASE qpc[c] = "seat" -> "shake" [] qpc[c] = "conn" -> "stream"
                        [] qpc[c] = "stream" -> "pass" [] OTHER -> "serving"]
      BY <2>2 DEF Placed
    <3>2. o \in Owner /\ o[2] = c /\ o = <<o[1], o[2]>>
      BY DEF Wanted
    <3>3. CASE qpc[c] = "seat"
      BY <3>1, <3>2, <3>3 DEF Wanted
    <3>4. CASE qpc[c] = "conn"
      BY <3>1, <3>2, <3>4 DEF Wanted
    <3>5. CASE qpc[c] = "stream"
      BY <3>1, <3>5 DEF Giving
    <3>6. CASE qpc[c] = "next"
      BY <3>1, <3>6
    <3>7. qpc[c] \in {"seat", "conn", "stream", "next"}
      BY <3>1 DEF Wanted
    <3> QED BY <3>3, <3>4, <3>5, <3>6, <3>7
  <2>3. CASE Shake(c) \/ First(c)
    BY <2>3 DEF Shake, First, Asking, Giving
  <2>4. CASE NextStream(c) \/ Closes(c)
    BY <2>4 DEF NextStream, Closes, Asking, Giving
  <2> QED BY <2>1, <2>2, <2>3, <2>4
<1>10. OneAccepts'
  BY <1>4 DEF TasksFit, OneAccepts, GateTypes, Pressure, Placed, Shake, First, NextStream, Closes,
              GoOn, Wanted
<1>11. OneHand' /\ \A o \in AllStreams : o[2] = c => PlaceFits(o)'
  <2> USE <1>1, <1>4 DEF places3, GateTypes, GoOn
  <2>1. CASE Pressure(c) \/ Shake(c) \/ Closes(c)
    BY <2>1 DEF Pressure, Shake, Closes, TasksFit, OneHand, PlaceFits
  <2>2. CASE Placed(c)
    <3>1. PICK o \in Wanted(c) : claim[o] = "held"
                 /\ GoOn(c, CASE qpc[c] = "seat" -> "shake" [] qpc[c] = "conn" -> "stream"
                               [] qpc[c] = "stream" -> "pass" [] OTHER -> "serving")
                 /\ qst' = IF qpc[c] = "next" THEN [qst EXCEPT ![o] = "auth"] ELSE qst
      BY <2>2 DEF Placed
    <3>2. OneHand'
      BY <3>1 DEF TasksFit, OneHand
    <3>3. \A p \in AllStreams : p[2] = c => PlaceFits(p)'
      BY <3>1 DEF TasksFit, OneHand, PlaceFits, Wanted, Asking
    <3> QED BY <3>2, <3>3
  <2>3. CASE First(c)
    BY <2>3 DEF First, TasksFit, OneHand, PlaceFits, StreamOf, Asking
  <2>4. CASE NextStream(c)
    BY <2>4 DEF NextStream, TasksFit, OneHand, PlaceFits, StreamOf, Asking
  <2> QED BY <2>1, <2>2, <2>3, <2>4
<1> QED
  BY <1>2, <1>3, <1>5, <1>6, <1>8, <1>9, <1>10, <1>11 DEF TasksFit

\* A connection comes: it holds nothing.
LEMMA ArriveStep ==
  ASSUME GateInv, NEW c \in QuicConn, Arrive(c) PROVE GateInv'
<1> USE DEF GateInv
<1>1. /\ UNCHANGED places3 /\ UNCHANGED qst /\ qpc[c] = "off"
      /\ qpc' = [qpc EXCEPT ![c] = "arrived"]
      /\ \A d \in QuicConn : d # c => valid'[d] = valid[d]
      /\ \A o \in StreamOf(c) : qst[o] = "off"
      /\ \A d \in QuicConn : qpc[d] \notin {"arrived", "looked", "seat"}
  BY DEF Arrive, GoOn, GateTypes
<1>2. SeatFits(c)
  BY DEF TasksFit
<1>3. NumbersFit'
  BY <1>1, <1>2, NumbersStay DEF SeatFits, places3
<1>4. GateTypes'
  BY <1>1 DEF Arrive, GateTypes, places3, TaskAt
<1>5. \A d \in QuicConn : SeatFits(d)'
  BY <1>1 DEF TasksFit, SeatFits, places3, GateTypes
<1>6. \A o \in AllStreams : PlaceFits(o)'
  <2>1. \A o \in AllStreams : o[2] = c => qst[o] = "off"
    BY <1>1 DEF AllStreams, StreamOf
  <2> QED BY <1>1, <2>1, OwnersFit DEF TasksFit, PlaceFits, places3, GateTypes
<1>7. OneHand' /\ OneAccepts'
  BY <1>1 DEF TasksFit, OneHand, OneAccepts, GateTypes
<1>8. SoftRoom'
  BY <1>1 DEF SoftRoom, GateTypes, places3
<1> QED BY <1>3, <1>4, <1>5, <1>6, <1>7, <1>8 DEF TasksFit

\* No place: the refusal is forgotten.
LEMMA NotPlacedStep ==
  ASSUME GateInv, NEW c \in QuicConn, NotPlaced(c) PROVE GateInv'
<1> USE DEF GateInv
<1>1. PICK o \in Wanted(c) :
        /\ claim[o] = "refused" /\ claim' = [claim EXCEPT ![o] = "none"]
        /\ qpc' = [qpc EXCEPT ![c] = CASE qpc[c] = "seat" -> "off" [] qpc[c] = "next" -> "serving"
                                       [] OTHER -> "gone"]
        /\ qst' = NoneInHand(c)
        /\ closed' = [closed EXCEPT ![c] = qpc[c] \in {"conn", "stream"} \/ @]
        /\ UNCHANGED <<valid, fails, total, share>>
  BY DEF NotPlaced, GoOn, Claims
<1>2. /\ o \in Owner /\ o[2] = c /\ o = <<o[1], o[2]>>
      /\ claim'[o] = "none" /\ \A p \in Owner : p # o => claim'[p] = claim[p]
      /\ qpc[c] \in {"seat", "conn", "stream", "next"}
      /\ \A d \in QuicConn : d # c => qpc'[d] = qpc[d]
      /\ qpc[c] = "seat" => o = <<"handshake", c>> /\ qpc'[c] = "off"
      /\ qpc[c] = "conn" => o = <<"conn", c>> /\ qpc'[c] = "gone"
      /\ qpc[c] = "stream" => o \in AllStreams /\ qst[o] = "hand" /\ qpc'[c] = "gone"
      /\ qpc[c] = "next" => o \in AllStreams /\ qst[o] = "hand" /\ qpc'[c] = "serving"
  <2>1. /\ o \in Owner /\ o[2] = c /\ o = <<o[1], o[2]>>
        /\ qpc[c] \in {"seat", "conn", "stream", "next"}
        /\ qpc[c] = "seat" => o[1] = "handshake"
        /\ qpc[c] = "conn" => o[1] = "conn"
        /\ qpc[c] \in {"stream", "next"} => o \in AllStreams /\ qst[o] = "hand"
    BY OwnersFit DEF Wanted
  <2>2. claim'[o] = "none" /\ \A p \in Owner : p # o => claim'[p] = claim[p]
    BY <1>1, <2>1 DEF GateTypes
  <2>3. qpc'[c] = (CASE qpc[c] = "seat" -> "off" [] qpc[c] = "next" -> "serving"
                     [] OTHER -> "gone")
        /\ \A d \in QuicConn : d # c => qpc'[d] = qpc[d]
    BY <1>1 DEF GateTypes
  <2>4. /\ qpc[c] = "seat" => qpc'[c] = "off"
        /\ qpc[c] = "next" => qpc'[c] = "serving"
        /\ qpc[c] \in {"conn", "stream"} => qpc'[c] = "gone"
    BY <2>3
  <2> QED BY <2>1, <2>2, <2>3, <2>4
<1>3. NumbersFit'
  BY <1>1, <1>2, NumbersStay
<1>4. GateTypes'
  BY <1>1, <1>2 DEF GateTypes, NoneInHand, TaskAt, ClaimState
<1>5. ASSUME NEW d \in QuicConn PROVE SeatFits(d)'
  <2>1. SeatFits(d) /\ <<"handshake", d>> \in Owner /\ <<"conn", d>> \in Owner
    BY OwnersFit DEF TasksFit
  <2>2. o \in AllStreams => o[1] # "handshake" /\ o[1] # "conn"
    BY ServerQuicAssumption, OwnersFit DEF Limiter
  <2> QED BY <1>2, <2>1, <2>2 DEF SeatFits, Giving
<1>6. ASSUME NEW p \in AllStreams PROVE PlaceFits(p)'
  <2>1. PlaceFits(p) /\ p \in Owner /\ p[2] \in QuicConn
    BY OwnersFit DEF TasksFit
  <2>2. qst'[p] = IF p[2] = c /\ qst[p] = "hand" THEN "off" ELSE qst[p]
    BY <1>1 DEF NoneInHand
  <2>3. p[2] = c /\ qst[p] = "hand" => claim'[p] = "none"
    <3> SUFFICES ASSUME p[2] = c, qst[p] = "hand" PROVE claim'[p] = "none"
      OBVIOUS
    <3>1. CASE qpc[c] = "conn" \/ qpc[c] = "seat"
      BY <1>2, <2>1, <3>1 DEF PlaceFits
    <3>2. CASE qpc[c] \in {"stream", "next"}
      BY <1>2, <3>2 DEF TasksFit, OneHand
    <3> QED BY <1>2, <3>1, <3>2
  <2>4. p = o => qst[p] = "hand"
    BY <1>1, <2>1 DEF PlaceFits, Giving, GateTypes
  <2> QED BY <1>2, <2>1, <2>2, <2>3, <2>4 DEF PlaceFits
<1>7. OneHand' /\ OneAccepts'
  BY <1>1, <1>2 DEF TasksFit, OneHand, OneAccepts, NoneInHand
<1>8. SoftRoom'
  <2>1. ASSUME NEW d \in QuicConn, ~ valid[d],
               qpc'[d] = "looked" \/ (qpc'[d] = "seat" /\ claim'[<<"handshake", d>>] = "none")
        PROVE  total["handshake"] < SoftHandshakes
    <3>1. d # c
      BY <1>2, <2>1
    <3>2. claim'[<<"handshake", d>>] = claim[<<"handshake", d>>]
      <4>1. <<"handshake", d>> # o
        BY <1>2, <3>1
      <4> QED BY <1>2, <4>1, OwnersFit
    <3> QED BY <1>2, <2>1, <3>1, <3>2 DEF SoftRoom
  <2> QED BY <1>1, <2>1 DEF SoftRoom
<1> QED BY <1>3, <1>4, <1>5, <1>6, <1>7, <1>8 DEF TasksFit

\* The place of the handshake is given back, then the first stream is relayed.
LEMMA PassOnStep ==
  ASSUME GateInv, NEW c \in QuicConn, PassOn(c) PROVE GateInv'
<1> DEFINE guard == <<"handshake", c>>
<1>1. CASE Release(guard) /\ UNCHANGED quicTasks
  <2>1. qpc[c] = "pass"
    BY DEF PassOn
  <2> QED BY <1>1, <2>1, PlaceSteps, OwnersFit
<1>2. CASE ~ (Release(guard) /\ UNCHANGED quicTasks)
  <2> USE DEF GateInv
  <2>1. /\ qpc[c] = "pass" /\ claim[guard] = "none" /\ qpc' = [qpc EXCEPT ![c] = "serving"]
        /\ qst' = [o \in AllStreams |-> IF o[2] = c /\ qst[o] = "hand" THEN "relay" ELSE qst[o]]
        /\ UNCHANGED <<valid, fails, closed, places3>>
    BY <1>2 DEF PassOn, GoOn
  <2>2. NumbersFit'
    BY <2>1, NumbersKept
  <2>3. GateTypes'
    BY <2>1 DEF GateTypes, TaskAt, places3
  <2>4. \A d \in QuicConn : SeatFits(d)'
    BY <2>1 DEF TasksFit, SeatFits, places3, GateTypes
  <2>5. \A o \in AllStreams : PlaceFits(o)'
    BY <2>1, OwnersFit DEF TasksFit, PlaceFits, places3, GateTypes
  <2>6. OneHand' /\ OneAccepts'
    BY <2>1 DEF TasksFit, OneHand, OneAccepts, GateTypes
  <2>7. SoftRoom'
    BY <2>1 DEF SoftRoom, places3, GateTypes
  <2> QED BY <2>2, <2>3, <2>4, <2>5, <2>6, <2>7 DEF TasksFit
<1> QED BY <1>1, <1>2

\* A task that returns gives back what it holds.
LEMMA ReturnStep ==
  ASSUME GateInv, NEW c \in QuicConn, Return1(c) PROVE GateInv'
<1>1. ASSUME NEW g \in Guards, Release(<<g, c>>), UNCHANGED quicTasks PROVE GateInv'
  <2>1. qpc[c] = "gone" /\ g \in {"conn", "handshake"}
    BY DEF Return1, Guards
  <2> QED BY <1>1, <2>1, PlaceSteps, OwnersFit
<1>2. CASE /\ \A g \in Guards : claim[<<g, c>>] = "none"
           /\ GoOn(c, "off") /\ UNCHANGED <<valid, qst, fails, closed, places3>>
  <2> USE DEF GateInv
  <2>1. /\ claim[<<"conn", c>>] = "none" /\ claim[<<"handshake", c>>] = "none"
        /\ qpc[c] = "gone" /\ qpc' = [qpc EXCEPT ![c] = "off"]
    BY <1>2 DEF Guards, GoOn, Return1
  <2>2. NumbersFit'
    BY <1>2, NumbersKept
  <2>3. GateTypes'
    BY <1>2, <2>1 DEF GateTypes, TaskAt, places3
  <2>4. \A d \in QuicConn : SeatFits(d)'
    BY <1>2, <2>1 DEF TasksFit, SeatFits, places3, GateTypes
  <2>5. \A o \in AllStreams : PlaceFits(o)'
    BY <1>2, <2>1, OwnersFit DEF TasksFit, PlaceFits, places3, GateTypes
  <2>6. OneHand' /\ OneAccepts'
    BY <1>2, <2>1 DEF TasksFit, OneHand, OneAccepts, GateTypes
  <2>7. SoftRoom'
    BY <1>2, <2>1 DEF SoftRoom, places3, GateTypes
  <2> QED BY <2>2, <2>3, <2>4, <2>5, <2>6, <2>7 DEF TasksFit
<1> QED BY <1>1, <1>2 DEF Return1

\* A stream's task goes on, or returns with its place.
LEMMA StreamTaskStep ==
  ASSUME GateInv, NEW o \in AllStreams, StreamTask(o) PROVE GateInv'
<1>1. CASE StreamReturns(o) /\ Release(o) /\ UNCHANGED quicTasks
  BY <1>1, PlaceSteps, OwnersFit DEF StreamReturns
<1>2. CASE ~ (StreamReturns(o) /\ Release(o) /\ UNCHANGED quicTasks)
  <2> USE DEF GateInv
  <2>1. /\ UNCHANGED <<qpc, valid, places3>>
        /\ \/ qst[o] \in {"auth", "relay"} /\ qst' = [qst EXCEPT ![o] = "relay"]
           \/ qst[o] \in {"auth", "relay"} /\ qst' = [qst EXCEPT ![o] = "ended"]
           \/ qst[o] = "ended" /\ claim[o] = "none" /\ qst' = [qst EXCEPT ![o] = "off"]
    BY <1>2 DEF StreamTask, StreamToken, StreamEnds, StreamReturns
  <2>2. NumbersFit'
    BY <2>1, NumbersKept
  <2>3. fails' \in [QuicConn -> Nat] /\ closed' \in [QuicConn -> BOOLEAN]
    <3>1. CASE StreamToken(o)
      <4>1. o[2] \in QuicConn
        BY OwnersFit
      <4>2. \/ UNCHANGED fails
            \/ fails' = [fails EXCEPT ![o[2]] = IF @ < 3 THEN @ + 1 ELSE @]
        BY <3>1 DEF StreamToken
      <4>3. fails' \in [QuicConn -> Nat]
        BY <4>1, <4>2 DEF GateTypes
      <4>4. \/ UNCHANGED closed \/ closed' = [closed EXCEPT ![o[2]] = TRUE]
            \/ closed' = [closed EXCEPT ![o[2]] = @ \/ fails[o[2]] >= 2]
        BY <3>1 DEF StreamToken
      <4>5. (closed[o[2]] \/ fails[o[2]] >= 2) \in BOOLEAN
        OBVIOUS
      <4>6. closed' \in [QuicConn -> BOOLEAN]
        BY <4>1, <4>4, <4>5 DEF GateTypes
      <4> QED BY <4>3, <4>6
    <3>2. CASE StreamEnds(o) \/ StreamReturns(o)
      BY <1>2, <3>2 DEF StreamEnds, StreamReturns, GateTypes
    <3> QED BY <3>1, <3>2 DEF StreamTask
  <2>4. GateTypes'
    BY <2>1, <2>3 DEF GateTypes, places3
  <2>5. \A d \in QuicConn : SeatFits(d)'
    BY <2>1 DEF TasksFit, SeatFits, places3
  <2>6. \A p \in AllStreams : PlaceFits(p)'
    BY <2>1 DEF TasksFit, PlaceFits, places3, GateTypes, Giving
  <2>7. OneHand' /\ OneAccepts' /\ SoftRoom'
    BY <2>1 DEF TasksFit, OneHand, OneAccepts, SoftRoom, GateTypes, places3
  <2> QED BY <2>2, <2>4, <2>5, <2>6, <2>7 DEF TasksFit
<1> QED BY <1>1, <1>2

\* Every step keeps the invariant of the places.
LEMMA GateSteps == GateInv /\ [GateNext]_gateVars => GateInv'
<1> SUFFICES ASSUME GateInv, [GateNext]_gateVars PROVE GateInv'
  OBVIOUS
<1>1. CASE UNCHANGED gateVars
  <2>1. NumbersFit'
    BY <1>1, NumbersKept DEF gateVars, quicTasks
  <2> QED BY <1>1, <2>1 DEF gateVars, quicTasks, places3, GateInv, GateTypes, SoftRoom, TasksFit,
                            SeatFits, PlaceFits, OneHand, OneAccepts
<1>2. ASSUME NEW c \in QuicConn, TakePlace(c) PROVE GateInv'
  <2>1. PICK o \in Wanted(c) : Acquire(o) /\ UNCHANGED quicTasks
    BY <1>2 DEF TakePlace
  <2>2. o \in Owner /\ o[2] = c
    BY DEF Wanted
  <2> QED BY <2>1, <2>2, PlaceSteps
<1>3. ASSUME NEW c \in QuicConn, ConnTask(c) PROVE GateInv'
  BY <1>2, <1>3, ArriveStep, ConnSteps, NotPlacedStep, PassOnStep, ReturnStep DEF ConnTask
<1>4. ASSUME NEW o \in AllStreams, StreamTask(o) PROVE GateInv'
  BY <1>4, StreamTaskStep
<1> QED BY <1>1, <1>3, <1>4 DEF GateNext

\* Nobody holds a place at first.
LEMMA GateStarts == GateInit => GateInv
<1> SUFFICES ASSUME GateInit PROVE GateInv
  OBVIOUS
<1>1. GateTypes
  BY DEF GateInit, GateTypes, TaskAt, ClaimState, Key
<1>2. /\ \A o \in Owner : claim[o] = "none"
      /\ \A l \in Limiter : total[l] = 0 /\ \A k \in Key : share[l][k] = 0
      /\ \A c \in QuicConn : qpc[c] = "off"
      /\ \A o \in AllStreams : qst[o] = "off"
  BY DEF GateInit, Key
<1>3. NumbersFit
  <2>1. \A l \in Limiter : /\ In(l, {"counted", "undo", "held"}) = {}
                          /\ In(l, {"counted", "held"}) = {} /\ In(l, {"held", "freed"}) = {}
    BY <1>2, OwnersFit DEF In
  <2>2. \A l \in Limiter, k \in Key : SharesOf(l, k) = {}
    BY <2>1 DEF SharesOf
  <2>3. Unvalidated = {}
    BY <2>1 DEF Unvalidated, Limiter
  <2>4. Cardinality({}) = 0
    BY FS_EmptySet
  <2>5. \A l \in Limiter : MaxPlaces[l] \in Nat /\ MaxShare[l] \in Nat
    BY ServerQuicAssumption
  <2>6. CountsExact
    BY <1>2, <2>1, <2>2, <2>4 DEF CountsExact, SharesOf, Key
  <2>7. PlacesBounded
    <3>1. \A l \in Limiter : Cardinality(In(l, {"counted", "held"})) = 0
      BY <2>1, <2>4
    <3>2. \A l \in Limiter, k \in Key : share[l][k] = 0
      BY <1>2
    <3> QED BY <2>5, <3>1, <3>2 DEF PlacesBounded, Key
  <2>8. RoomForValidated
    <3>1. SoftHandshakes \in Nat
      BY ServerQuicAssumption DEF Limiter
    <3> QED BY <2>3, <2>4, <3>1 DEF RoomForValidated, Unvalidated
  <2> QED BY <2>6, <2>7, <2>8 DEF NumbersFit
<1>4. SoftRoom /\ TasksFit
  BY <1>2, OwnersFit DEF SoftRoom, TasksFit, SeatFits, PlaceFits, OneHand, OneAccepts
<1> QED BY <1>1, <1>3, <1>4 DEF GateInv

\* The invariant says what the run checks.
LEMMA GateTrue == GateInv => QuicPlaces
<1> SUFFICES ASSUME GateInv PROVE PlacesHeld
  BY DEF GateInv, NumbersFit, QuicPlaces
<1> QED BY DEF GateInv, TasksFit, SeatFits, PlaceFits, PlacesHeld, Seated

-----------------------------------------------------------------------------
(* A stream of QUIC and its two pumps.                                     *)

Legs == {"ask", "route", "connect", "relay", "left", "over"}
PumpAt == {"off", "head", "wait", "charge", "write", "done"}
EndState == {"open", "clean", "broken"}

StreamTypes ==
  /\ leg \in Legs /\ stopped \in BOOLEAN /\ revoked \in BOOLEAN
  /\ given \in [Path -> Nat] /\ waiting \in [Path -> Nat] /\ handed \in [Path -> Nat]
  /\ inHand \in [Path -> Nat] /\ givenThen \in [Path -> Nat]
  /\ close \in [Path -> EndState] /\ shows \in [Path -> EndState]
  /\ qpump \in [Path -> PumpAt] /\ eof \in [Path -> BOOLEAN]

\* Nothing is lost on a way or made up.
WayWhole(d) == given[d] = handed[d] + inHand[d] + waiting[d]

\* A way that its pump has returned an end of is whole, and its sender has ended.
Ended(d) ==
  /\ close[d] = "clean" /\ waiting[d] = 0 /\ inHand[d] = 0 /\ qpump[d] = "done"
PumpFits(d) ==
  /\ qpump[d] \in {"off", "head", "wait"} => inHand[d] = 0
  /\ eof[d] => Ended(d)
  /\ qpump[d] = "done" /\ ~ eof[d] => stopped
LegFits(d) ==
  /\ leg \in {"ask", "route", "connect"} => qpump[d] = "off" /\ shows[d] = "open"
  /\ leg = "relay" => qpump[d] # "off" /\ (shows[d] = "clean" <=> eof[d]) /\ shows[d] # "broken"
  /\ leg = "left" => qpump[d] = "off"
  /\ leg = "over" => qpump[d] = "done" /\ (shows[d] = "clean" => eof[d])

\* What a pump may still write after a revocation was read before it.
NoneAfter(d) ==
  revoked => handed[d] + (IF qpump[d] = "write" THEN inHand[d] ELSE 0) <= givenThen[d]

StreamInv ==
  /\ StreamTypes
  /\ \A d \in Path : WayWhole(d) /\ PumpFits(d) /\ LegFits(d) /\ NoneAfter(d)

\* Nothing was sent at first.
LEMMA StreamStarts == StreamInit => StreamInv
<1> SUFFICES ASSUME StreamInit PROVE StreamInv
  OBVIOUS
<1>1. StreamTypes
  <2>1. [d \in Path |-> 0] \in [Path -> Nat] /\ [d \in Path |-> "open"] \in [Path -> EndState]
    BY DEF EndState
  <2> QED BY <2>1 DEF StreamInit, StreamTypes, Legs, PumpAt
<1>2. \A d \in Path : /\ given[d] = 0 /\ waiting[d] = 0 /\ handed[d] = 0 /\ inHand[d] = 0
                      /\ shows[d] = "open" /\ qpump[d] = "off" /\ ~ eof[d]
  BY DEF StreamInit
<1>3. leg = "ask" /\ ~ revoked
  BY DEF StreamInit
<1> QED BY <1>1, <1>2, <1>3 DEF StreamInv, WayWhole, PumpFits, LegFits, NoneAfter

\* A step of one pump leaves what the other stands on alone.
PumpStays(d) ==
  /\ qpump'[d] = qpump[d] /\ inHand'[d] = inHand[d] /\ waiting'[d] = waiting[d]
  /\ handed'[d] = handed[d] /\ eof'[d] = eof[d] /\ shows'[d] = shows[d]

\* A pump goes on.
LEMMA PumpStep ==
  ASSUME StreamInv, NEW d \in Path, Pump(d)
  PROVE  StreamInv'
<1> USE DEF StreamInv
<1>1. leg = "relay"
  <2>1. qpump[d] \notin {"off", "done"}
    BY DEF Pump, PumpHead, PumpStops, PumpReads, PumpEof, PumpError, PumpTimer, PumpCharge,
           PumpWrite
  <2> QED BY <2>1 DEF LegFits, StreamTypes, Legs
<1>2. UNCHANGED <<leg, given, close, revoked, givenThen>>
  BY DEF Pump, PumpHead, PumpStops, PumpReads, PumpEof, PumpError, PumpTimer, PumpCharge,
         PumpWrite, Cuts, wire, quicEnds, mayGo
<1>3. stopped' \in BOOLEAN /\ (stopped => stopped')
  BY DEF Pump, PumpHead, PumpStops, PumpReads, PumpEof, PumpError, PumpTimer, PumpCharge,
         PumpWrite, Cuts, wire, quicEnds, pumps, mayGo, StreamTypes
<1>4. StreamTypes'
  <2> USE <1>2, <1>3 DEF StreamTypes, PumpTo, Carries, Cuts, wire, quicEnds, mayGo, PumpAt
  <2>1. CASE PumpHead(d) \/ PumpStops(d) \/ PumpError(d) \/ PumpTimer(d) \/ PumpCharge(d)
    BY <2>1 DEF PumpHead, PumpStops, PumpError, PumpTimer, PumpCharge
  <2>2. CASE PumpReads(d)
    BY <2>2 DEF PumpReads
  <2>3. CASE PumpEof(d)
    BY <2>3 DEF PumpEof, EndState
  <2>4. CASE PumpWrite(d)
    BY <2>4 DEF PumpWrite
  <2> QED BY <2>1, <2>2, <2>3, <2>4 DEF Pump
<1>5. ASSUME NEW e \in Path, e # d PROVE PumpStays(e)
  BY <1>5 DEF Pump, PumpHead, PumpStops, PumpReads, PumpEof, PumpError, PumpTimer, PumpCharge,
         PumpWrite, Cuts, wire, quicEnds, pumps, mayGo, StreamTypes, PumpTo, Carries, PumpStays
<1>6. ASSUME NEW e \in Path, e # d
      PROVE (WayWhole(e) /\ PumpFits(e) /\ LegFits(e) /\ NoneAfter(e))'
  BY <1>1, <1>2, <1>3, <1>5, <1>6 DEF PumpStays, WayWhole, PumpFits, Ended, LegFits, NoneAfter
<1>7. (WayWhole(d) /\ PumpFits(d) /\ LegFits(d) /\ NoneAfter(d))'
  <2> USE <1>1, <1>2, <1>3 DEF WayWhole, PumpFits, Ended, LegFits, NoneAfter, StreamTypes, PumpTo,
                               Carries, Cuts, wire, quicEnds, mayGo
  <2>1. CASE PumpHead(d)
    BY <2>1 DEF PumpHead
  <2>2. CASE PumpStops(d)
    BY <2>2 DEF PumpStops
  <2>3. CASE PumpReads(d)
    BY <2>3 DEF PumpReads
  <2>4. CASE PumpEof(d)
    BY <2>4 DEF PumpEof
  <2>5. CASE PumpError(d)
    BY <2>5 DEF PumpError
  <2>6. CASE PumpTimer(d)
    BY <2>6 DEF PumpTimer
  <2>7. CASE PumpCharge(d)
    BY <2>7 DEF PumpCharge, Charged
  <2>8. CASE PumpWrite(d)
    BY <2>8 DEF PumpWrite
  <2> QED BY <2>1, <2>2, <2>3, <2>4, <2>5, <2>6, <2>7, <2>8 DEF Pump
<1> QED BY <1>4, <1>6, <1>7

\* Every step keeps the invariant of a stream.
LEMMA StreamSteps == StreamInv /\ [StreamNext]_streamVars => StreamInv'
<1> SUFFICES ASSUME StreamInv, [StreamNext]_streamVars PROVE StreamInv'
  OBVIOUS
<1> USE DEF StreamInv, StreamTypes, WayWhole, PumpFits, Ended, LegFits, NoneAfter, wire, quicEnds,
            pumps, mayGo
<1>1. CASE UNCHANGED streamVars
  BY <1>1 DEF streamVars
<1>2. CASE Revoke
  BY <1>2 DEF Revoke
<1>3. CASE Ask \/ ServerRoute
  BY <1>3 DEF Ask, ServerRoute, Leaves, Legs, EndState, Path
<1>4. CASE ConnectTarget
  BY <1>4 DEF ConnectTarget, Leaves, Legs, EndState, Path, PumpAt
<1>5. CASE JoinPumps
  BY <1>5 DEF JoinPumps, Legs, EndState, CutShort
<1>6. ASSUME NEW d \in Path, Give(d) PROVE StreamInv'
  BY <1>6 DEF Give, Open
<1>7. ASSUME NEW d \in Path, EndWay(d) PROVE StreamInv'
  BY <1>7 DEF EndWay, Open, EndState
<1>8. ASSUME NEW d \in Path, Pump(d) PROVE StreamInv'
  BY <1>8, PumpStep
<1> QED BY <1>1, <1>2, <1>3, <1>4, <1>5, <1>6, <1>7, <1>8 DEF StreamNext

\* The invariant says what the run checks.
LEMMA StreamTrue == StreamInv => QuicWhole /\ QuicRevoked
  BY DEF StreamInv, StreamTypes, WayWhole, PumpFits, Ended, LegFits, NoneAfter, QuicWhole,
         QuicRevoked

-----------------------------------------------------------------------------
\* No place of a handshake, a connection or a stream is lost or given twice, whichever way a
\* task ends (QuicHandshakeLimiter and QuicRuntimeLimiter of mirage_server/mod.rs), and sources
\* that are not validated leave room for those that are.
THEOREM QuicPlacesAlwaysKept == GateSpec => []QuicPlaces
<1> QED BY GateStarts, GateSteps, GateTrue, PTL DEF GateSpec

\* A way of a relayed stream that looks ended was sent whole, and nothing goes out that was sent
\* after a revocation (quic_pump of mirage_server/mod.rs).
THEOREM QuicStreamsAlwaysTrue == StreamSpec => [](QuicWhole /\ QuicRevoked)
<1> QED BY StreamStarts, StreamSteps, StreamTrue, PTL DEF StreamSpec

\* Both, side by side.
THEOREM QuicAlwaysSound == QuicServerSpec => []QuicSound
<1>1. GateInit /\ StreamInit => GateInv /\ StreamInv
  BY GateStarts, StreamStarts
<1>2. GateInv /\ StreamInv /\ [QuicServerNext]_<<gateVars, streamVars>> => (GateInv /\ StreamInv)'
  <2> SUFFICES ASSUME GateInv, StreamInv, [QuicServerNext]_<<gateVars, streamVars>>
               PROVE  GateInv' /\ StreamInv'
    OBVIOUS
  <2>1. [GateNext]_gateVars /\ [StreamNext]_streamVars
    BY DEF QuicServerNext
  <2> QED BY <2>1, GateSteps, StreamSteps
<1>3. GateInv /\ StreamInv => QuicSound
  BY GateTrue, StreamTrue DEF QuicSound
<1> QED BY <1>1, <1>2, <1>3, PTL DEF QuicServerSpec
=============================================================================
