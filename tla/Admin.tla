-------------------------------- MODULE Admin --------------------------------
(***************************************************************************)
(* The operator's side of an instance (internal/api/admin_auth.go,         *)
(* admin_management.go and admin.go on the tables of                       *)
(* internal/db/admin_accounts.go, admin_sessions.go, service_identity.go   *)
(* and instance.go): the bootstrap claim, accounts and their sessions, the *)
(* service identity, the configuration with its cache, and the templates.  *)
(*                                                                         *)
(* Nearly every handler reads, decides and writes in separate statements   *)
(* without a transaction.  A job is a request between two statements; its  *)
(* history field "crossed" records that another request wrote what it has  *)
(* read.  Passwords, mail addresses, origins and cookies are left out: a   *)
(* login is one whose password fits.  Bans are in Session.tla.             *)
(***************************************************************************)
EXTENDS Integers, Sequences, FiniteSets

CONSTANTS
  Admins,       \* usernames of instance_admins
  Templates,    \* rows of server_templates
  Workers,      \* requests that can be in flight at once
  SessionTtl,
  RetainFor,    \* how long a revoked session is kept
  MaxSessions,  \* bound of the sessions that are ever made
  MaxKeys,      \* bound of the service identities that are ever generated
  MaxConfig,    \* bound of the configuration updates
  MaxNow,       \* bound of the clock
  Faults,       \* whether statements may fail
  None

VARIABLES
  now,
  admin,       \* instance_admins: role and is_active, or None
  session,     \* instance_admin_sessions in the order they were made
  identity,    \* instance_service_identity: its key, 0 when there is none
  keys,        \* history: keys generated so far
  config,      \* instance_config, as the number of its version
  cache,       \* InstanceCache
  template,    \* server_templates: None, "plain" or "default"
  job,
  claims,      \* history: accounts made by bootstrap claims
  reported,    \* history: service identities that a request has returned
  excused      \* history: what requests that crossed have spoilt

tables == <<admin, session, identity, config, cache, template>>
history == <<claims, keys, reported, excused>>
vars == <<now, tables, job, history>>

Roles == {"owner", "admin"}
OwnerKinds == {"create", "patch", "provision"}     \* RequireAdminRole("owner")
AnyKinds == {"logout", "config", "template", "deleteTemplate"}
Excuses == {"owner", "claim", "identity", "cache", "default"}

ASSUME AdminAssumption ==
  /\ SessionTtl \in Nat /\ RetainFor \in Nat /\ MaxSessions \in Nat /\ MaxKeys \in Nat
  /\ MaxConfig \in Nat /\ MaxNow \in Nat /\ Faults \in BOOLEAN
  /\ Templates # {} /\ None \notin Admins \cup Templates
  /\ None \notin {"plain", "default", "bootstrap"}
  /\ None \notin [role : Roles, active : BOOLEAN]

Idle == [pc |-> "idle", kind |-> None, sess |-> 0, who |-> None, role |-> None,
         active |-> FALSE, row |-> None, read |-> 0, crossed |-> FALSE]

Init ==
  /\ now = 0
  /\ admin = [a \in Admins |-> None]
  /\ session = <<>>
  /\ identity = 0 /\ keys = 0 /\ claims = 0
  /\ config = 0 /\ cache = 0
  /\ \E t \in Templates : template = [x \in Templates |-> IF x = t THEN "default" ELSE None]
  /\ job = [s \in Workers |-> Idle]
  /\ reported = {}
  /\ excused = {}

At(s, pc) == job[s].pc = pc
Goto(s, pc) == job' = [job EXCEPT ![s].pc = pc]
Done(s) == job' = [job EXCEPT ![s] = Idle]
Start(s, j) == job[s] = Idle /\ job' = [job EXCEPT ![s] = j]

\* The job of s becomes j; those at one of pcs have read what it wrote.
Crossing(s, j, pcs) ==
  job' = [w \in Workers |-> IF w = s THEN j
                            ELSE IF job[w].pc \in pcs THEN [job[w] EXCEPT !.crossed = TRUE]
                            ELSE job[w]]
Excuse(s, what) == excused' = IF job[s].crossed THEN excused \cup {what} ELSE excused

(***************************************************************************)
(* Accounts.                                                               *)
(***************************************************************************)
Exists == {a \in Admins : admin[a] # None}
ActiveOwners == {a \in Exists : admin[a].role = "owner" /\ admin[a].active}

\* POST /bootstrap/claim with the right secret: the accounts are counted,
\* then an owner is made.
BootstrapClaim(s, a) ==
  /\ Exists = {}
  /\ Start(s, [Idle EXCEPT !.pc = "bootstrap", !.who = a, !.role = "owner"])
  /\ UNCHANGED <<now, tables, history>>

\* CreateInstanceAdmin: a username that is taken is refused.
CreateInstanceAdmin(s) ==
  /\ (At(s, "bootstrap") \/ At(s, "create")) /\ job[s].who # None
  /\ LET j == job[s] IN
       IF admin[j.who] # None THEN Done(s) /\ UNCHANGED <<admin, claims, excused>>
       ELSE /\ admin' = [admin EXCEPT ![j.who] = [role |-> j.role, active |-> TRUE]]
            /\ IF j.pc = "bootstrap"
               THEN /\ Crossing(s, [j EXCEPT !.pc = "identity", !.kind = "bootstrap"], {"bootstrap"})
                    /\ Excuse(s, "claim")
                    /\ claims' = claims + 1
               ELSE Crossing(s, Idle, {"bootstrap"}) /\ UNCHANGED <<claims, excused>>
  /\ UNCHANGED <<now, session, identity, keys, config, cache, template, reported>>

\* POST /session/login: the account is read and its password compared.
Login(s, a) ==
  /\ admin[a] # None /\ admin[a].active
  /\ Start(s, [Idle EXCEPT !.pc = "session", !.who = a])
  /\ UNCHANGED <<now, tables, history>>

IssueAdminSession(s) ==
  /\ At(s, "session") /\ Len(session) < MaxSessions
  /\ session' = Append(session, [who |-> job[s].who, expires |-> now + SessionTtl, revoked |-> None,
                                 gone |-> FALSE])
  /\ Done(s)
  /\ UNCHANGED <<now, admin, identity, config, cache, template, history>>

\* RequireAdminSession and RequireAdminRole: the session, then the account
\* with its role as they are now.
RequireAdminSession(s, i, kind) ==
  /\ kind \in OwnerKinds \cup AnyKinds
  /\ session[i].revoked = None /\ ~session[i].gone /\ session[i].expires > now
  /\ Start(s, [Idle EXCEPT !.pc = "authAdmin", !.kind = kind, !.sess = i])
  /\ UNCHANGED <<now, tables, history>>

RequireAdminAccount(s) ==
  /\ At(s, "authAdmin")
  /\ LET a == session[job[s].sess].who IN
       IF admin[a].active /\ (job[s].kind \in OwnerKinds => admin[a].role = "owner")
       THEN Goto(s, job[s].kind) ELSE Done(s)
  /\ UNCHANGED <<now, tables, history>>

Logout(s) ==
  /\ At(s, "logout")
  /\ session' = [session EXCEPT ![job[s].sess].revoked = IF @ = None THEN now ELSE @]
  /\ Done(s)
  /\ UNCHANGED <<now, admin, identity, config, cache, template, history>>

\* createAdminAccount names the account; patchAdminAccount reads it, and
\* takes from it what the request does not change.
CreateAdminAccount(s, a, role) ==
  /\ At(s, "create") /\ job[s].who = None
  /\ job' = [job EXCEPT ![s].who = a, ![s].role = role]
  /\ UNCHANGED <<now, tables, history>>

PatchAdminAccount(s, a, role, active) ==
  /\ At(s, "patch") /\ admin[a] # None
  /\ LET r == IF role = None THEN admin[a].role ELSE role
         b == IF active = None THEN admin[a].active ELSE active
     IN  job' = [job EXCEPT ![s] = [@ EXCEPT !.who = a, !.role = r, !.active = b,
                   !.pc = IF admin[a].role # "owner" \/ (r = "owner" /\ b)
                          THEN "update" ELSE "safety"]]
  /\ UNCHANGED <<now, tables, history>>

SafetyOfOne(s) ==    \* mutant: one active owner is enough
  /\ At(s, "safety")
  /\ IF ActiveOwners = {} THEN Done(s) ELSE Goto(s, "update")
  /\ UNCHANGED <<now, tables, history>>

\* The owners are counted in a statement of their own.
EnsureOwnerSafety(s) ==
  /\ At(s, "safety")
  /\ IF Cardinality(ActiveOwners) <= 1 THEN Done(s) ELSE Goto(s, "update")
  /\ UNCHANGED <<now, tables, history>>

UpdateInstanceAdmin(s) ==
  /\ At(s, "update")
  /\ admin' = [admin EXCEPT ![job[s].who] = [role |-> job[s].role, active |-> job[s].active]]
  /\ Crossing(s, Idle, {"update"})
  /\ Excuse(s, "owner")
  /\ UNCHANGED <<now, session, identity, keys, config, cache, template, reported, claims>>

(***************************************************************************)
(* ensureServiceIdentity, of a bootstrap claim and of the owner's request: *)
(* read, generate, upsert.                                                 *)
(***************************************************************************)
AfterIdentity(s) == IF job[s].kind = "bootstrap" THEN [job[s] EXCEPT !.pc = "session"] ELSE Idle

GenerateAnyway(s) ==    \* mutant: the stored identity is not looked at
  /\ At(s, "identity") \/ At(s, "provision")
  /\ keys < MaxKeys
  /\ keys' = keys + 1
  /\ job' = [job EXCEPT ![s].pc = "upsert", ![s].read = keys + 1]
  /\ UNCHANGED <<now, tables, reported, excused, claims>>

EnsureServiceIdentity(s) ==
  /\ At(s, "identity") \/ At(s, "provision")
  /\ IF identity # 0
     THEN job' = [job EXCEPT ![s] = AfterIdentity(s)] /\ reported' = reported \cup {identity}
                    /\ UNCHANGED keys
     ELSE /\ keys < MaxKeys /\ keys' = keys + 1
          /\ job' = [job EXCEPT ![s].pc = "upsert", ![s].read = keys + 1]
          /\ UNCHANGED reported
  /\ UNCHANGED <<now, tables, excused, claims>>

UpsertInstanceServiceIdentity(s) ==
  /\ At(s, "upsert")
  /\ identity' = job[s].read /\ reported' = reported \cup {job[s].read}
  /\ Crossing(s, AfterIdentity(s), {"upsert"})
  /\ Excuse(s, "identity")
  /\ UNCHANGED <<now, admin, session, keys, config, cache, template, claims>>

(***************************************************************************)
(* updateConfig: the row, what it is now, the cache.  A cache that could   *)
(* not be refreshed is left as it is.                                      *)
(***************************************************************************)
UpdateInstanceConfig(s) ==
  /\ At(s, "config") /\ config < MaxConfig
  /\ config' = config + 1
  /\ Crossing(s, [job[s] EXCEPT !.pc = "reload"], {"cache"})
  /\ UNCHANGED <<now, admin, session, identity, cache, template, history>>

GetInstanceConfig(s) ==
  /\ At(s, "reload")
  /\ \/ job' = [job EXCEPT ![s].pc = "cache", ![s].read = config] /\ UNCHANGED excused
     \/ Faults /\ Done(s) /\ excused' = excused \cup {"cache"}
  /\ UNCHANGED <<now, tables, keys, reported, claims>>

CacheSet(s) ==
  /\ At(s, "cache")
  /\ cache' = job[s].read
  /\ Done(s)
  /\ excused' = IF job[s].crossed THEN excused \cup {"cache"} ELSE excused \ {"cache"}
  /\ UNCHANGED <<now, admin, session, identity, keys, config, template, reported, claims>>

(***************************************************************************)
(* Templates, the first of which the schema brings: when one is to be the  *)
(* default, the others are cleared first.  t is None in a POST; a PUT does *)
(* not ask whether there is a template t.                                  *)
(***************************************************************************)
WriteTemplate(s, t, default) ==
  /\ At(s, "template")
  /\ job' = [job EXCEPT ![s].row = t, ![s].active = default,
                        ![s].pc = IF default THEN "clear" ELSE "write"]
  /\ UNCHANGED <<now, tables, history>>

ClearNothing(s) ==    \* mutant: the other templates stay as they are
  /\ At(s, "clear")
  /\ Goto(s, "write")
  /\ UNCHANGED <<now, tables, history>>

ClearDefault(s) ==
  /\ At(s, "clear")
  /\ template' = [t \in Templates |->
                    IF template[t] = "default" /\ t # job[s].row THEN "plain" ELSE template[t]]
  /\ Goto(s, "write")
  /\ UNCHANGED <<now, admin, session, identity, config, cache, history>>

\* The INSERT of a new row, or the UPDATE of the one that was named.
StoreTemplate(s) ==
  /\ At(s, "write")
  /\ LET j == job[s]
         written == {t \in Templates : IF j.row = None THEN template[t] = None
                                       ELSE t = j.row /\ template[t] # None}
     IN  IF written = {} THEN j.row # None /\ UNCHANGED template
         ELSE \E t \in written :
                template' = [template EXCEPT ![t] = IF j.active THEN "default" ELSE "plain"]
  /\ IF job[s].active THEN Crossing(s, Idle, {"write"}) /\ Excuse(s, "default")
     ELSE Done(s) /\ UNCHANGED excused
  /\ UNCHANGED <<now, admin, session, identity, keys, config, cache, reported, claims>>

DeleteServerTemplate(s, t) ==
  /\ At(s, "deleteTemplate") /\ template[t] # None
  /\ template' = [template EXCEPT ![t] = None]
  /\ Done(s)
  /\ UNCHANGED <<now, admin, session, identity, config, cache, history>>

(***************************************************************************)
(* Failures, purge, time.                                                  *)
(***************************************************************************)
\* A statement fails, or the request is cancelled.  A claim whose identity
\* could not be made goes on; an update whose cache is not set has failed to.
Abandon(s) ==
  /\ Faults /\ job[s] # Idle
  /\ IF job[s].kind = "bootstrap" /\ job[s].pc \in {"identity", "upsert"}
     THEN Goto(s, "session") ELSE Done(s)
  /\ excused' = IF job[s].pc \in {"reload", "cache"} THEN excused \cup {"cache"} ELSE excused
  /\ UNCHANGED <<now, tables, keys, reported, claims>>

Stale(i) ==
  /\ ~session[i].gone
  /\ \/ session[i].expires < now
     \/ session[i].revoked # None /\ session[i].revoked + RetainFor < now

PurgeStaleAdminSessions ==
  /\ \E i \in DOMAIN session : Stale(i)
  /\ session' = [i \in DOMAIN session |->
                   IF Stale(i) THEN [session[i] EXCEPT !.gone = TRUE] ELSE session[i]]
  /\ UNCHANGED <<now, admin, identity, config, cache, template, job, history>>

\* The process starts again, and reads the configuration it caches.
Restart ==
  /\ job' = [s \in Workers |-> Idle]
  /\ \/ cache' = config /\ excused' = excused \ {"cache"}
     \/ Faults /\ cache' = 0 /\ excused' = excused \cup {"cache"}
  /\ UNCHANGED <<now, admin, session, identity, keys, config, template, reported, claims>>

Tick ==
  /\ now < MaxNow
  /\ now' = now + 1
  /\ UNCHANGED <<tables, job, history>>

Next ==
  \/ \E s \in Workers :
       \/ \E a \in Admins : BootstrapClaim(s, a) \/ Login(s, a)
       \/ CreateInstanceAdmin(s) \/ IssueAdminSession(s)
       \/ \E i \in DOMAIN session, k \in OwnerKinds \cup AnyKinds : RequireAdminSession(s, i, k)
       \/ RequireAdminAccount(s) \/ Logout(s)
       \/ \E a \in Admins, r \in Roles : CreateAdminAccount(s, a, r)
       \/ \E a \in Admins, r \in Roles \cup {None}, b \in BOOLEAN \cup {None} :
            PatchAdminAccount(s, a, r, b)
       \/ EnsureOwnerSafety(s) \/ UpdateInstanceAdmin(s)
       \/ EnsureServiceIdentity(s) \/ UpsertInstanceServiceIdentity(s)
       \/ UpdateInstanceConfig(s) \/ GetInstanceConfig(s) \/ CacheSet(s)
       \/ \E t \in Templates : DeleteServerTemplate(s, t)
       \/ \E t \in Templates \cup {None}, b \in BOOLEAN : WriteTemplate(s, t, b)
       \/ ClearDefault(s) \/ StoreTemplate(s) \/ Abandon(s)
  \/ PurgeStaleAdminSessions \/ Restart \/ Tick

Spec == Init /\ [][Next]_vars

(***************************************************************************)
(* Properties.                                                             *)
(***************************************************************************)
\* An instance with accounts has an active owner, unless two changes of
\* accounts overlapped (ensureOwnerSafety counts before the update).
OwnerKept == Exists # {} /\ "owner" \notin excused => ActiveOwners # {}

\* An instance is claimed once, and every request that was given a service
\* identity was given the stored one, unless requests that found none
\* overlapped (count and INSERT, SELECT and upsert, are separate statements).
BootstrapOnce ==
  /\ "claim" \notin excused => claims <= 1
  /\ "identity" \notin excused => reported \subseteq {identity}

\* What the instance is configured to do is what its readers see.  When no
\* update is being carried out the handshake serves the stored configuration,
\* unless the last refresh failed or used a row that a later update had
\* replaced (updateConfig); and at most one template is the default, unless two
\* writes of defaults overlapped (clear and write are two statements, and no
\* index forbids it).
SettingsAgree ==
  /\ \/ "cache" \in excused
     \/ cache = config
     \/ \E s \in Workers : job[s].pc \in {"reload", "cache"}
  /\ "default" \notin excused =>
       Cardinality({t \in Templates : template[t] = "default"}) <= 1
=============================================================================
