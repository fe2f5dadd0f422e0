---------------------------- MODULE UserSessions ----------------------------
(***************************************************************************)
(* The users of a server, their credentials, and the sessions that run on  *)
(* them while the configuration changes: update_users of the console       *)
(* (src/src/api/handlers/users.rs), the configuration watcher              *)
(* (src/src/config_watcher.rs), the credentials                            *)
(* (src/src/proxy/mirage_server/mod.rs), the registry of user limits       *)
(* (src/src/proxy/user_limits.rs, without the quotas) and the gates of     *)
(* a connection (handshake.rs, control.rs).                                *)
(*                                                                         *)
(* A configuration gives the passwords of the users of every inbound.  An  *)
(* inbound without a main password is one that the configuration does not  *)
(* have.  What sessions share with the tables are two flags, one for the   *)
(* credential and one for the limits of the user; a flag is known by the   *)
(* number of the application of a configuration that has made it.          *)
(*                                                                         *)
(* A request of the console may carry the version of the file that it was  *)
(* made for.  One with an older version changes nothing; what is modelled  *)
(* are the requests with the version of the file as it is, or without any. *)
(***************************************************************************)
EXTENDS Integers

CONSTANTS
  Inbound, User, Pw, NoPw, Session,
  Default,    \* the user of the main password, who has no limits
  Start,      \* the configuration at the start
  ByHand,     \* configurations that are written into the file by other means
  MaxEdits,   \* bound: edits in all
  MaxEvents   \* bound: notifications of the watcher that wait

Credentials == [User -> Pw \cup {NoPw}]
Config == [Inbound -> Credentials]

ASSUME UserAssumption ==
  /\ Default \in User /\ NoPw \notin Pw
  /\ Start \in Config /\ ByHand \subseteq Config
  /\ MaxEdits \in Nat /\ MaxEvents \in Nat \ {0}

VARIABLES
  file,          \* the configuration file
  events,        \* notifications that wait
  watcher,       \* the watcher: "idle", "asked", "built" or "applies"
  api,           \* the request that has CONFIG_WRITE_LOCK
  apply,         \* the application of a configuration, under APPLY_USER_CONFIG_LOCK
  creds,         \* CREDS_REGISTRY
  registry,      \* USER_LIMITS, the number of the handle of each user, or 0
  credRevoked, limitRevoked,   \* the flags that are set
  gen,           \* applications so far
  session,
  edits,         \* bound counter
  overtaken      \* history: a request was applied last, and the file was not its own any more

vars == <<file, events, watcher, api, apply, creds, registry, credRevoked,
          limitRevoked, gen, session, edits, overtaken>>

NoUsers == [u \in User |-> NoPw]
NoFile == [users |-> [i \in Inbound |-> NoUsers], kind |-> "none"]
Entry(p, n) == [pw |-> p, gen |-> IF p = NoPw THEN 0 ELSE n]
Listed(cfg, u) == u # Default /\ \E i \in Inbound : cfg[i][u] # NoPw

NoApply == [by |-> "nobody", pc |-> "done", cfg |-> NoFile.users, left |-> {}, mid |-> {},
            reg |-> [u \in User |-> 0]]
NoRequest == [pc |-> "idle", cfg |-> NoFile]
NoSession == [pc |-> "idle", ib |-> NoPw, user |-> Default, pw |-> NoPw, gen |-> 0, limit |-> 0]

Init ==
  /\ file = [users |-> Start, kind |-> "ok"] /\ events = 0 /\ watcher = "idle"
  /\ api = NoRequest /\ apply = NoApply
  /\ creds = [i \in Inbound |-> [u \in User |-> Entry(Start[i][u], 1)]]
  /\ registry = [u \in User |-> IF Listed(Start, u) THEN 1 ELSE 0]
  /\ credRevoked = {} /\ limitRevoked = {} /\ gen = 1
  /\ session = [s \in Session |-> NoSession]
  /\ edits = 0 /\ overtaken = FALSE

unchangedFile == UNCHANGED <<file, events, edits>>
unchangedTables == UNCHANGED <<creds, registry, credRevoked, limitRevoked>>

-----------------------------------------------------------------------------
(* The file and who writes it.                                             *)

Written(f) == file' = f /\ events' = IF events < MaxEvents THEN events + 1 ELSE events

\* An editor or the command line tool: the file may be one that the watcher rejects (its
\* routes name an outbound that does not run), one that defines an inbound twice, or one that
\* does not parse.
EditByHand ==
  /\ edits < MaxEdits
  /\ edits' = edits + 1
  /\ \E cfg \in ByHand, k \in {"ok", "rejected", "doubled", "broken"} :
       Written([users |-> cfg, kind |-> k])
  /\ UNCHANGED <<watcher, api, apply, gen, session, overtaken>> /\ unchangedTables

Upsert(cfg, ibs, u, p) ==
  [i \in Inbound |-> IF i \in ibs /\ cfg[i][Default] # NoPw
                     THEN [cfg[i] EXCEPT ![u] = p] ELSE cfg[i]]

\* update_users, upsert or remove, up to the write: CONFIG_WRITE_LOCK is taken.
UpdateUsers(ibs, u, p) ==
  /\ api.pc = "idle" /\ edits < MaxEdits
  /\ file.kind # "broken" /\ u # Default
  /\ LET cfg == Upsert(file.users, ibs, u, p)
     IN  /\ cfg # file.users
         /\ \A i \in Inbound : \A v, w \in User : cfg[i][v] = cfg[i][w] => v = w \/ cfg[i][v] = NoPw
         /\ api' = [pc |-> "write", cfg |-> [users |-> cfg, kind |-> file.kind]]
  /\ edits' = edits + 1
  /\ UNCHANGED <<file, events, watcher, apply, gen, session, overtaken>> /\ unchangedTables

\* atomic_write_config
WriteConfig ==
  /\ api.pc = "write"
  /\ Written(api.cfg)
  /\ api' = [api EXCEPT !.pc = "apply"]
  /\ UNCHANGED <<watcher, apply, gen, session, edits, overtaken>> /\ unchangedTables

\* It cannot write; the request fails.
WriteFails ==
  /\ api.pc = "write"
  /\ api' = NoRequest
  /\ UNCHANGED <<watcher, apply, gen, session, overtaken>> /\ unchangedTables /\ unchangedFile

-----------------------------------------------------------------------------
(* The watcher.                                                            *)

TakeEvent ==
  /\ watcher = "idle" /\ events > 0
  /\ events' = events - 1 /\ watcher' = "asked"
  /\ UNCHANGED <<file, api, apply, gen, session, edits, overtaken>> /\ unchangedTables

\* build_state, up to the users.
BuildState ==
  /\ watcher = "asked"
  /\ watcher' = IF file.kind \in {"ok", "doubled"} THEN "built" ELSE "idle"
  /\ UNCHANGED <<api, apply, gen, session, overtaken>> /\ unchangedTables /\ unchangedFile

-----------------------------------------------------------------------------
(* apply_user_config                                                       *)

Gone(cfg) == {i \in Inbound : cfg[i] = NoUsers}

\* Mutant: inbounds that are gone keep their credentials.
BeginPresent(who, cfg) ==
  /\ apply.pc = "done"
  /\ gen' = gen + 1
  /\ apply' = [NoApply EXCEPT !.by = who, !.pc = "gone", !.cfg = cfg]

\* The lock is taken; inbounds that are gone come first.
Begin(who, cfg) ==
  /\ apply.pc = "done"
  /\ gen' = gen + 1
  /\ apply' = [NoApply EXCEPT !.by = who, !.pc = "gone", !.cfg = cfg, !.left = Gone(cfg)]

\* The lock is taken and given back: what does not parse, or defines an inbound twice, is not
\* applied.
Untouched == apply.pc = "done" /\ UNCHANGED <<apply, gen>>

\* apply_user_config, with the configuration of the request.
ApplyRequest ==
  /\ api.pc = "apply"
  /\ IF api.cfg.kind = "doubled"
     THEN Untouched /\ api' = NoRequest /\ UNCHANGED overtaken
     ELSE /\ Begin("api", api.cfg.users) /\ api' = [api EXCEPT !.pc = "applies"]
          /\ overtaken' = (file # api.cfg)
  /\ UNCHANGED <<watcher, session>> /\ unchangedTables /\ unchangedFile

\* apply_user_config_from_file: the file is read again, under the lock.
ApplyFile ==
  /\ watcher = "built"
  /\ IF file.kind \in {"broken", "doubled"}
     THEN Untouched /\ watcher' = "idle" /\ UNCHANGED overtaken
     ELSE Begin("watcher", file.users) /\ watcher' = "applies" /\ overtaken' = FALSE
  /\ UNCHANGED <<api, session>> /\ unchangedTables /\ unchangedFile

\* reconcile_and_swap_creds: an entry with the same name and password keeps its flag.
Reused(i, u) == creds[i][u].pw = apply.cfg[i][u]

\* Mutant: flags are set for users that are gone, not for changed passwords.
ReplacedGone(i) == {u \in User : creds[i][u].pw # NoPw /\ apply.cfg[i][u] = NoPw}

\* The entries that the new list does not have.
Replaced(i) == {u \in User : creds[i][u].pw # NoPw /\ creds[i][u].pw # apply.cfg[i][u]}

\* The entries that go are revoked ...
RevokeEntries(i) ==
  /\ i \in apply.left /\ apply.mid = {}
  /\ credRevoked' = credRevoked \cup {<<i, u, creds[i][u].gen>> : u \in Replaced(i)}
  /\ apply' = [apply EXCEPT !.mid = {i}]
  /\ UNCHANGED <<watcher, api, creds, registry, limitRevoked, gen, session, overtaken>>
  /\ unchangedFile

\* ... and the new list is put in place.
SwapCreds(i) ==
  /\ i \in apply.mid
  /\ creds' = [creds EXCEPT ![i] =
       [u \in User |-> IF Reused(i, u) THEN creds[i][u] ELSE Entry(apply.cfg[i][u], gen)]]
  /\ apply' = [apply EXCEPT !.mid = {}, !.left = @ \ {i}]
  /\ UNCHANGED <<watcher, api, registry, credRevoked, limitRevoked, gen, session, overtaken>>
  /\ unchangedFile

\* Mutant: every user gets a new handle.
KeptNever(u) == FALSE

\* build_registry: a user who has a handle keeps it.
Kept(u) == registry[u] # 0 /\ <<u, registry[u]>> \notin limitRevoked

\* reload_user_limits: the new registry is made, and users without a place in it are revoked ...
BuildRegistry ==
  /\ apply.pc = "gone" /\ apply.left = {}
  /\ apply' = [apply EXCEPT !.pc = "limits",
       !.reg = [u \in User |-> IF ~Listed(apply.cfg, u) THEN 0
                               ELSE IF Kept(u) THEN registry[u] ELSE gen]]
  /\ limitRevoked' = limitRevoked \cup
       {<<u, registry[u]>> : u \in {v \in User : registry[v] # 0 /\ ~Listed(apply.cfg, v)}}
  /\ UNCHANGED <<watcher, api, creds, registry, credRevoked, gen, session, overtaken>>
  /\ unchangedFile

\* ... before it is stored.
StoreRegistry ==
  /\ apply.pc = "limits"
  /\ registry' = apply.reg
  /\ apply' = [apply EXCEPT !.pc = "creds", !.left = Inbound \ Gone(apply.cfg)]
  /\ UNCHANGED <<watcher, api, creds, credRevoked, limitRevoked, gen, session, overtaken>>
  /\ unchangedFile

\* Both locks of a request are released, or the watcher waits again.
Finish ==
  /\ apply.pc = "creds" /\ apply.left = {}
  /\ apply' = NoApply
  /\ watcher' = IF apply.by = "watcher" THEN "idle" ELSE watcher
  /\ api' = IF apply.by = "api" THEN NoRequest ELSE api
  /\ UNCHANGED <<gen, session, overtaken>> /\ unchangedTables /\ unchangedFile

-----------------------------------------------------------------------------
(* A connection.                                                           *)

InSession(s) == session[s].pc # "idle"
sessionStep == UNCHANGED <<watcher, api, apply, gen, overtaken>> /\ unchangedTables /\ unchangedFile

\* handle_connection: the list of credentials is taken; the client has the password of u.
Accept(s, i, u) ==
  /\ ~InSession(s) /\ creds[i][u].pw # NoPw
  /\ session' = [session EXCEPT ![s] = [pc |-> "hello", ib |-> i, user |-> u,
       pw |-> creds[i][u].pw, gen |-> creds[i][u].gen, limit |-> 0]]
  /\ sessionStep

\* The credential of the session has been revoked.
CredGone(s) == <<session[s].ib, session[s].user, session[s].gen>> \in credRevoked
LimitGone(u, n) == n # 0 /\ <<u, n>> \in limitRevoked

\* verify_creds_and_quota
Authenticate(s) ==
  /\ session[s].pc = "hello"
  /\ session' = IF LimitGone(session[s].user, registry[session[s].user])
                THEN [session EXCEPT ![s] = NoSession]
                ELSE [session EXCEPT ![s].pc = "frame"]
  /\ sessionStep

\* dispatch_authenticated, after the first frame: is the credential revoked?
CheckCred(s) ==
  /\ session[s].pc = "frame"
  /\ session' = IF CredGone(s) THEN [session EXCEPT ![s] = NoSession]
                ELSE [session EXCEPT ![s].pc = "limit"]
  /\ sessionStep

Refused(s) == session[s].user # Default /\ registry[session[s].user] = 0

\* get_user_limit
TakeLimit(s) ==
  /\ session[s].pc = "limit"
  /\ session' = IF Refused(s) THEN [session EXCEPT ![s] = NoSession]
                ELSE [session EXCEPT ![s].pc = "live", ![s].limit = registry[session[s].user]]
  /\ sessionStep

\* SessionAuth::should_stop
ShouldStop(s) == CredGone(s) \/ LimitGone(session[s].user, session[s].limit)

\* A relay looks before every chunk and at intervals.
Cut(s) ==
  /\ session[s].pc = "live" /\ ShouldStop(s)
  /\ session' = [session EXCEPT ![s] = NoSession]
  /\ sessionStep

\* The client leaves, at any time.
Leave(s) ==
  /\ InSession(s)
  /\ session' = [session EXCEPT ![s] = NoSession]
  /\ sessionStep

-----------------------------------------------------------------------------
ApplyStep == \/ BuildRegistry \/ StoreRegistry \/ Finish
             \/ \E i \in Inbound : RevokeEntries(i) \/ SwapCreds(i)
WatcherStep == TakeEvent \/ BuildState \/ ApplyFile
ApiStep == WriteConfig \/ WriteFails \/ ApplyRequest
SessionStep(s) == Authenticate(s) \/ CheckCred(s) \/ TakeLimit(s) \/ Cut(s)
Targets == {Inbound} \cup {{i} : i \in Inbound}

Next ==
  \/ EditByHand \/ ApiStep \/ WatcherStep \/ ApplyStep
  \/ \E ibs \in Targets, u \in User, p \in Pw \cup {NoPw} : UpdateUsers(ibs, u, p)
  \/ \E s \in Session, i \in Inbound, u \in User : Accept(s, i, u)
  \/ \E s \in Session : SessionStep(s) \/ Leave(s)

Spec == Init /\ [][Next]_vars

\* The watcher has a thread, requests and sessions are tasks of the runtime, and whoever has
\* the lock goes on.
Fairness ==
  /\ WF_vars(ApplyStep) /\ WF_vars(ApiStep)
  /\ WF_vars(WatcherStep)
  /\ \A s \in Session : WF_vars(SessionStep(s))

FairSpec == Spec /\ Fairness

-----------------------------------------------------------------------------
(* Properties.                                                             *)

File == [users : Config, kind : {"ok", "rejected", "doubled", "broken", "none"}]

FileType ==
  /\ file \in File /\ events \in Nat /\ edits \in Nat
  /\ watcher \in {"idle", "asked", "built", "applies"}
  /\ api \in [pc : {"idle", "write", "apply", "applies"}, cfg : File]
  /\ overtaken \in BOOLEAN

ApplyType ==
  apply \in [by : {"nobody", "api", "watcher"}, pc : {"done", "gone", "limits", "creds"},
             cfg : Config, left : SUBSET Inbound, mid : SUBSET Inbound, reg : [User -> Nat]]

TableType ==
  /\ creds \in [Inbound -> [User -> [pw : Pw \cup {NoPw}, gen : Nat]]]
  /\ registry \in [User -> Nat] /\ gen \in Nat
  /\ credRevoked \subseteq Inbound \X User \X Nat /\ limitRevoked \subseteq User \X Nat

SessionType ==
  session \in [Session -> [pc : {"idle", "hello", "frame", "limit", "live"},
                           ib : Inbound \cup {NoPw}, user : User, pw : Pw \cup {NoPw},
                           gen : Nat, limit : Nat]]

TypeOK == FileType /\ ApplyType /\ TableType /\ SessionType

Alive(s) == session[s].pc = "live" /\ ~ShouldStop(s)

\* The sessions that go on are those of the credentials that are in force and of the limits
\* that are in the registry, wherever in its handshake a session was when a user was
\* removed, came back or got a new password.
SessionsAreCurrent ==
  \A s \in Session : Alive(s) =>
    /\ creds[session[s].ib][session[s].user] = [pw |-> session[s].pw, gen |-> session[s].gen]
    /\ session[s].limit = registry[session[s].user]

\* No session is told to stop by a configuration that has its credential.
OthersGoOn ==
  [][\A s \in Session :
       /\ Alive(s) /\ session'[s] = session[s] /\ ShouldStop(s)'
       => apply.cfg[session[s].ib][session[s].user] # session[s].pw]_vars

Passwords == [i \in Inbound |-> [u \in User |-> creds[i][u].pw]]

Quiet == events = 0 /\ watcher = "idle" /\ api.pc = "idle" /\ apply.pc = "done"

\* Between two applications the tables are of one configuration: the credentials and the limits
\* name the same users, and whatever was removed and added again before, none of them is revoked.
TablesAgree ==
  apply.pc = "done" =>
    /\ \A u \in User : registry[u] # 0 <=> Listed(Passwords, u)
    /\ \A i \in Inbound, u \in User :
         creds[i][u].pw # NoPw => <<i, u, creds[i][u].gen>> \notin credRevoked
    /\ \A u \in User : ~LimitGone(u, registry[u])

\* When all is done, the credentials are those of the file: the comment of the watcher's second
\* reading (config_watcher.rs:342-348).
FileInForce == Quiet /\ file.kind = "ok" => Passwords = file.users

\* So they are, and each can be used, wherever edits by hand meet requests of the console and
\* applications, unless a request was applied last and the file was already another one then.
Converged == TablesAgree /\ (overtaken \/ FileInForce)

\* A credential that leaves the file for good leaves no session on it, unless a request that
\* was made before is applied last.
RemovedLeave ==
  \A i \in Inbound, u \in User, p \in Pw :
    <>[](file.kind = "ok" /\ file.users[i][u] # p)
    => <>[](\/ overtaken
            \/ \A s \in Session : session[s].pc = "live" =>
                 <<session[s].ib, session[s].user, session[s].pw>> # <<i, u, p>>)
=============================================================================
