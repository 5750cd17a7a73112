----------------------------- MODULE AdminProofs -----------------------------
(***************************************************************************)
(* Proofs about Admin.  TypeInv types the tables and says what the job of  *)
(* a request holds at each of its steps (JobOK).  On it rest an invariant  *)
(* for each of the three properties, which says what a job still knows of  *)
(* the row it has read as long as nobody crossed it: OwnerInv, ClaimInv,   *)
(* and CacheInv with DefaultInv.  The lemmas named Lands say, for each     *)
(* group of steps, where the job of the worker goes and what is written;   *)
(* the lemmas named Quiet, what an invariant needs of a step that is none  *)
(* of its business.                                                        *)
(***************************************************************************)
EXTENDS Admin, FiniteSetTheorems, TLAPS

AdminRow == [role : Roles, active : BOOLEAN]
SessionRow == [who : Admins, expires : Nat, revoked : Nat \cup {None}, gone : BOOLEAN]
Kinds == OwnerKinds \cup AnyKinds
Pcs == {"idle", "bootstrap", "session", "authAdmin", "identity", "upsert", "safety", "update",
        "reload", "cache", "clear", "write"} \cup Kinds
Job == [pc : Pcs, kind : Kinds \cup {"bootstrap", None}, sess : Nat, who : Admins \cup {None},
        role : Roles \cup {None}, active : BOOLEAN, row : Templates \cup {None}, read : Nat,
        crossed : BOOLEAN]

\* What a job's record holds at each of its steps, given the accounts that
\* exist and the sessions there are.
JobOK(j, accounts, sessions) ==
  /\ j \in Job
  /\ j.pc = "bootstrap" => j.who \in Admins /\ j.role = "owner"
  /\ j.pc \in {"session", "safety", "update"} \/ j.kind = "bootstrap" => j.who \in accounts
  /\ j.pc \in {"safety", "update"} => j.role \in Roles
  /\ j.pc = "create" => accounts # {} /\ (j.who # None => j.role \in Roles)
  /\ j.pc \in {"authAdmin", "logout"} => j.sess \in sessions
  /\ j.pc = "authAdmin" => j.kind \in Kinds /\ j.who = None
  /\ j.pc = "upsert" => j.read > 0

TablesOK ==
  /\ now \in Nat /\ identity \in Nat /\ keys \in Nat /\ config \in Nat /\ cache \in Nat
  /\ claims \in Nat
  /\ admin \in [Admins -> AdminRow \cup {None}]
  /\ session \in Seq(SessionRow)
  /\ \A i \in DOMAIN session : session[i].who \in Exists
  /\ template \in [Templates -> {None, "plain", "default"}]

JobsOK ==
  /\ job \in [Workers -> Job]
  /\ \A w \in Workers : JobOK(job[w], Exists, DOMAIN session)

TypeInv == TablesOK /\ JobsOK

\* A worker without a request.
LEMMA IdleOK ==
  ASSUME NEW A, NEW D
  PROVE  JobOK(Idle, A, D) /\ Idle.pc = "idle" /\ Idle.kind = None /\ ~Idle.crossed
BY AdminAssumption DEF JobOK, Job, Idle, Pcs, Kinds, OwnerKinds, AnyKinds

\* Accounts are never deleted and sessions stay numbered: a job remains as it
\* should be, crossed or not.
LEMMA JobStays ==
  ASSUME NEW A, NEW B, A \subseteq B, NEW D, NEW E, D \subseteq E, NEW j, JobOK(j, A, D)
  PROVE  JobOK(j, B, E) /\ JobOK([j EXCEPT !.crossed = TRUE], B, E)
<1>1. JobOK(j, B, E)
  BY DEF JobOK
<1> DEFINE k == [j EXCEPT !.crossed = TRUE]
<1>2. k \in Job /\ k.pc = j.pc /\ k.kind = j.kind /\ k.who = j.who /\ k.role = j.role
      /\ k.sess = j.sess /\ k.read = j.read
  BY DEF JobOK, Job
<1> HIDE DEF k
<1>3. JobOK(k, B, E)
  BY <1>1, <1>2 DEF JobOK
<1> QED BY <1>1, <1>3 DEF k

\* One job is replaced by one that is as it should be, the others may be crossed.
LEMMA JobsStay ==
  ASSUME TypeInv, NEW s \in Workers, NEW j, NEW pcs,
         \/ Crossing(s, j, pcs)
         \/ job' = [job EXCEPT ![s] = j],
         Exists \subseteq Exists', DOMAIN session \subseteq DOMAIN session',
         JobOK(j, Exists', DOMAIN session')
  PROVE  JobsOK'
<1>1. job \in [Workers -> Job] /\ \A w \in Workers : JobOK(job[w], Exists, DOMAIN session)
  BY DEF TypeInv, JobsOK
<1>2. \A w \in Workers : w # s => /\ JobOK(job[w], Exists', DOMAIN session')
                                  /\ JobOK([job[w] EXCEPT !.crossed = TRUE], Exists', DOMAIN session')
  BY <1>1, JobStays
<1>3. \A w \in Workers : JobOK(job'[w], Exists', DOMAIN session')
  BY <1>1, <1>2 DEF Crossing
<1>4. \A w \in Workers : job'[w] \in Job
  BY <1>3 DEF JobOK
<1>5. job' = [w \in Workers |-> job'[w]]
  BY <1>1 DEF Crossing
<1>6. job' \in [Workers -> Job]
  BY <1>4, <1>5
<1> QED BY <1>3, <1>6 DEF JobsOK

\* A step that writes no table and replaces one job keeps the types.
LEMMA QuietOK ==
  ASSUME TypeInv, NEW s \in Workers, NEW j, JobOK(j, Exists, DOMAIN session),
         job' = [job EXCEPT ![s] = j], UNCHANGED <<now, tables, claims>>, keys' \in Nat
  PROVE  TypeInv'
<1>1. UNCHANGED <<now, admin, session, identity, config, cache, template, claims>>
  BY DEF tables
<1>2. Exists' = Exists /\ DOMAIN session' = DOMAIN session
  BY <1>1 DEF Exists
<1>3. JobsOK'
  BY <1>2, JobsStay
<1> QED BY <1>1, <1>2, <1>3 DEF TypeInv, TablesOK

\* The requests that start keep the types.
LEMMA StartsOK ==
  ASSUME TypeInv, NEW s \in Workers,
         \/ \E a \in Admins : BootstrapClaim(s, a) \/ Login(s, a)
         \/ \E i \in DOMAIN session, k \in Kinds : RequireAdminSession(s, i, k)
  PROVE  TypeInv'
<1>0. keys \in Nat /\ session \in Seq(SessionRow)
  BY DEF TypeInv, TablesOK
<1>1. ASSUME NEW a \in Admins, BootstrapClaim(s, a) PROVE TypeInv'
  <2> DEFINE j == [Idle EXCEPT !.pc = "bootstrap", !.who = a, !.role = "owner"]
  <2>1. JobOK(j, Exists, DOMAIN session)
    BY AdminAssumption DEF JobOK, Job, Idle, Pcs, Kinds, OwnerKinds, AnyKinds, Roles
  <2>2. job' = [job EXCEPT ![s] = j] /\ UNCHANGED <<now, tables, claims, keys>>
    BY <1>1 DEF BootstrapClaim, Start, history
  <2> HIDE DEF j
  <2> QED BY <1>0, <2>1, <2>2, QuietOK
<1>2. ASSUME NEW a \in Admins, Login(s, a) PROVE TypeInv'
  <2> DEFINE j == [Idle EXCEPT !.pc = "session", !.who = a]
  <2>1. a \in Exists
    BY <1>2 DEF Login, Exists
  <2>2. JobOK(j, Exists, DOMAIN session)
    BY <2>1, AdminAssumption DEF JobOK, Job, Idle, Pcs, Kinds, OwnerKinds, AnyKinds, Roles
  <2>3. job' = [job EXCEPT ![s] = j] /\ UNCHANGED <<now, tables, claims, keys>>
    BY <1>2 DEF Login, Start, history
  <2> HIDE DEF j
  <2> QED BY <1>0, <2>2, <2>3, QuietOK
<1>3. ASSUME NEW i \in DOMAIN session, NEW k \in Kinds, RequireAdminSession(s, i, k) PROVE TypeInv'
  <2> DEFINE j == [Idle EXCEPT !.pc = "authAdmin", !.kind = k, !.sess = i]
  <2>1. i \in Nat
    BY <1>0
  <2>2. JobOK(j, Exists, DOMAIN session)
    BY <2>1, AdminAssumption DEF JobOK, Job, Idle, Pcs, Kinds, OwnerKinds, AnyKinds, Roles
  <2>3. job' = [job EXCEPT ![s] = j] /\ UNCHANGED <<now, tables, claims, keys>>
    BY <1>3 DEF RequireAdminSession, Start, history
  <2> HIDE DEF j
  <2> QED BY <1>0, <2>2, <2>3, QuietOK
<1> QED BY <1>1, <1>2, <1>3

\* A job that ends or moves to a step whose fields it has filled in.
LEMMA DoneOK ==
  ASSUME TypeInv, NEW s \in Workers, Done(s), UNCHANGED <<now, tables, claims>>, keys' \in Nat
  PROVE  TypeInv'
BY IdleOK, QuietOK DEF Done

\* A job that moves on without a new session, kind or account.
LEMMA MoveOK ==
  ASSUME TypeInv, NEW s \in Workers, NEW j \in Job, j.sess = job[s].sess,
         j.kind = job[s].kind, j.who = job[s].who,
         j.pc \notin {"idle", "bootstrap", "authAdmin", "upsert"},
         j.pc \in {"session", "safety", "update"} => j.who \in Exists,
         j.pc \in {"safety", "update"} => j.role \in Roles,
         j.pc = "create" => Exists # {} /\ j.who = None,
         j.pc = "logout" => j.sess \in DOMAIN session
  PROVE  JobOK(j, Exists, DOMAIN session)
BY DEF JobOK, TypeInv, JobsOK

\* The steps of a handler that only read.
LEMMA ReadsOK ==
  ASSUME TypeInv, NEW s \in Workers,
         \/ RequireAdminAccount(s) \/ EnsureOwnerSafety(s) \/ EnsureServiceIdentity(s)
         \/ GetInstanceConfig(s) \/ Abandon(s)
         \/ \E a \in Admins, r \in Roles : CreateAdminAccount(s, a, r)
         \/ \E a \in Admins, r \in Roles \cup {None}, b \in BOOLEAN \cup {None} :
              PatchAdminAccount(s, a, r, b)
         \/ \E t \in Templates \cup {None}, b \in BOOLEAN : WriteTemplate(s, t, b)
  PROVE  TypeInv'
<1>0. /\ JobOK(job[s], Exists, DOMAIN session) /\ keys \in Nat /\ config \in Nat
      /\ session \in Seq(SessionRow) /\ admin \in [Admins -> AdminRow \cup {None}]
  BY DEF TypeInv, TablesOK, JobsOK
<1>a. job[s] \in Job /\ Exists \subseteq Admins
  BY <1>0 DEF JobOK, Exists
<1>b. ASSUME NEW pc \in Pcs, Goto(s, pc), UNCHANGED <<now, tables, claims>>, keys' \in Nat,
             pc \notin {"idle", "bootstrap", "authAdmin", "upsert"},
             pc \in {"session", "safety", "update"} => job[s].who \in Exists,
             pc \in {"safety", "update"} => job[s].role \in Roles,
             pc = "create" => Exists # {} /\ job[s].who = None,
             pc = "logout" => job[s].sess \in DOMAIN session
      PROVE  TypeInv'
  <2> DEFINE j == [job[s] EXCEPT !.pc = pc]
  <2>1. j \in Job /\ j.pc = pc /\ j.sess = job[s].sess /\ j.kind = job[s].kind
        /\ j.who = job[s].who /\ j.role = job[s].role
    BY <1>a DEF Job
  <2>2. job' = [job EXCEPT ![s] = j]
    BY <1>b DEF Goto
  <2> HIDE DEF j
  <2>3. JobOK(j, Exists, DOMAIN session)
    BY <1>b, <2>1, MoveOK
  <2> QED BY <1>b, <2>2, <2>3, QuietOK
<1>1. CASE RequireAdminAccount(s)
  <2>1. /\ job[s].sess \in DOMAIN session /\ session[job[s].sess].who \in Exists
        /\ job[s].kind \in Kinds /\ job[s].who = None
    BY <1>0, <1>1 DEF RequireAdminAccount, At, JobOK, TypeInv, TablesOK
  <2> QED BY <1>0, <1>1, <1>b, <2>1, DoneOK
    DEF RequireAdminAccount, history, Kinds, OwnerKinds, AnyKinds, Pcs
<1>2. CASE EnsureOwnerSafety(s)
  <2>1. job[s].who \in Exists /\ job[s].role \in Roles
    BY <1>0, <1>2 DEF EnsureOwnerSafety, At, JobOK
  <2> QED BY <1>0, <1>2, <1>b, <2>1, DoneOK DEF EnsureOwnerSafety, history, Pcs
<1>3. CASE EnsureServiceIdentity(s)
  <2>1. CASE identity # 0
    <3>1. job' = [job EXCEPT ![s] = AfterIdentity(s)] /\ UNCHANGED <<now, tables, claims, keys>>
      BY <1>3, <2>1 DEF EnsureServiceIdentity
    <3>2. CASE job[s].kind = "bootstrap"
      <4>1. job[s].who \in Exists /\ Goto(s, "session")
        BY <1>0, <3>1, <3>2 DEF JobOK, AfterIdentity, Goto
      <4> QED BY <1>0, <1>b, <3>1, <4>1 DEF Pcs
    <3>3. CASE job[s].kind # "bootstrap"
      BY <1>0, <3>1, <3>3, DoneOK DEF AfterIdentity, Done
    <3> QED BY <3>2, <3>3
  <2>2. CASE identity = 0
    <3> DEFINE k == keys + 1
               j == [job[s] EXCEPT !.pc = "upsert", !.read = k]
    <3>1. /\ job' = [job EXCEPT ![s].pc = "upsert", ![s].read = k]
          /\ UNCHANGED <<now, tables, claims>> /\ keys' = k
      BY <1>3, <2>2 DEF EnsureServiceIdentity
    <3>2. k \in Nat /\ k > 0
      BY <1>0
    <3> HIDE DEF k
    <3>3. j \in Job /\ j.pc = "upsert" /\ j.kind = job[s].kind /\ j.who = job[s].who /\ j.read = k
      BY <1>a, <3>2 DEF Job, Pcs
    <3>4. job' = [job EXCEPT ![s] = j]
      BY <3>1
    <3> HIDE DEF j
    <3>5. JobOK(j, Exists, DOMAIN session)
      BY <1>0, <3>2, <3>3 DEF JobOK
    <3> QED BY <3>1, <3>2, <3>4, <3>5, QuietOK
  <2> QED BY <2>1, <2>2
<1>4. CASE GetInstanceConfig(s)
  <2>1. UNCHANGED <<now, tables, claims, keys>>
    BY <1>4 DEF GetInstanceConfig
  <2>2. CASE Done(s)
    BY <1>0, <2>1, <2>2, DoneOK
  <2>3. CASE job' = [job EXCEPT ![s].pc = "cache", ![s].read = config]
    <3> DEFINE j == [job[s] EXCEPT !.pc = "cache", !.read = config]
    <3>1. job' = [job EXCEPT ![s] = j]
      BY <2>3
    <3>2. JobOK(j, Exists, DOMAIN session)
      BY <1>0, <1>a DEF JobOK, Job, Pcs
    <3> HIDE DEF j
    <3> QED BY <1>0, <2>1, <3>1, <3>2, QuietOK
  <2> QED BY <1>4, <2>2, <2>3 DEF GetInstanceConfig
<1>5. CASE Abandon(s)
  <2>1. UNCHANGED <<now, tables, claims, keys>>
    BY <1>5 DEF Abandon
  <2>2. CASE job[s].kind = "bootstrap" /\ Goto(s, "session")
    BY <1>0, <1>b, <2>1, <2>2 DEF JobOK, Pcs
  <2>3. CASE Done(s)
    BY <1>0, <2>1, <2>3, DoneOK
  <2> QED BY <1>5, <2>2, <2>3 DEF Abandon
<1>6. ASSUME NEW a \in Admins, NEW r \in Roles, CreateAdminAccount(s, a, r) PROVE TypeInv'
  <2> DEFINE j == [job[s] EXCEPT !.who = a, !.role = r]
  <2>1. job' = [job EXCEPT ![s] = j] /\ UNCHANGED <<now, tables, claims, keys>>
    BY <1>6 DEF CreateAdminAccount, history
  <2>2. job[s].pc = "create" /\ Exists # {}
    BY <1>0, <1>6 DEF CreateAdminAccount, At, JobOK
  <2>3. job[s].kind # "bootstrap"
    BY <1>0, <1>6, <1>a, AdminAssumption DEF CreateAdminAccount, At, JobOK
  <2>4. JobOK(j, Exists, DOMAIN session)
    BY <1>0, <1>a, <2>2, <2>3 DEF JobOK, Job, Pcs
  <2> HIDE DEF j
  <2> QED BY <1>0, <2>1, <2>4, QuietOK
<1>7. ASSUME NEW a \in Admins, NEW r \in Roles \cup {None}, NEW b \in BOOLEAN \cup {None},
             PatchAdminAccount(s, a, r, b)
      PROVE  TypeInv'
  <2> DEFINE role == IF r = None THEN admin[a].role ELSE r
             active == IF b = None THEN admin[a].active ELSE b
             pc == IF admin[a].role # "owner" \/ (role = "owner" /\ active)
                   THEN "update" ELSE "safety"
             j == [job[s] EXCEPT !.who = a, !.role = role, !.active = active, !.pc = pc]
  <2>1. job' = [job EXCEPT ![s] = j] /\ UNCHANGED <<now, tables, claims, keys>>
    BY <1>7 DEF PatchAdminAccount, history
  <2>2. a \in Exists /\ admin[a] \in AdminRow
    BY <1>0, <1>7 DEF PatchAdminAccount, Exists
  <2>3. role \in Roles /\ active \in BOOLEAN /\ pc \in {"update", "safety"}
    BY <2>2 DEF AdminRow
  <2> HIDE DEF role, active, pc
  <2>4. j \in Job /\ j.pc = pc /\ j.who = a /\ j.role = role
    BY <1>a, <2>3 DEF Job, Pcs
  <2> HIDE DEF j
  <2>5. JobOK(j, Exists, DOMAIN session)
    BY <2>2, <2>3, <2>4 DEF JobOK
  <2> QED BY <1>0, <2>1, <2>5, QuietOK
<1>8. ASSUME NEW t \in Templates \cup {None}, NEW b \in BOOLEAN, WriteTemplate(s, t, b)
      PROVE  TypeInv'
  <2> DEFINE pc == IF b THEN "clear" ELSE "write"
             j == [job[s] EXCEPT !.row = t, !.active = b, !.pc = pc]
  <2>1. job' = [job EXCEPT ![s] = j] /\ UNCHANGED <<now, tables, claims, keys>>
    BY <1>8 DEF WriteTemplate, history
  <2>2. pc \in {"clear", "write"}
    OBVIOUS
  <2> HIDE DEF pc
  <2>3. j \in Job /\ j.pc = pc /\ j.who = job[s].who /\ j.kind = job[s].kind /\ j.sess = job[s].sess
    BY <1>a, <2>2 DEF Job, Pcs
  <2> HIDE DEF j
  <2>4. JobOK(j, Exists, DOMAIN session)
    BY <2>2, <2>3, MoveOK
  <2> QED BY <1>0, <2>1, <2>4, QuietOK
<1> QED BY <1>1, <1>2, <1>3, <1>4, <1>5, <1>6, <1>7, <1>8

\* A step that writes a table, ends or moves its job and may cross others.
LEMMA WriteOK ==
  ASSUME TypeInv, NEW s \in Workers, NEW j, NEW pcs,
         Crossing(s, j, pcs) \/ job' = [job EXCEPT ![s] = j],
         JobOK(j, Exists', DOMAIN session'), TablesOK',
         Exists \subseteq Exists', DOMAIN session \subseteq DOMAIN session'
  PROVE  TypeInv'
BY JobsStay DEF TypeInv

\* An account that is written exists, and those that did still do.
LEMMA AdminWritten ==
  ASSUME TypeInv, NEW a \in Admins, NEW r \in AdminRow, admin' = [admin EXCEPT ![a] = r]
  PROVE  /\ admin' \in [Admins -> AdminRow \cup {None}]
         /\ Exists' = Exists \cup {a}
         /\ admin'[a] = r /\ \A b \in Admins : b # a => admin'[b] = admin[b]
<1>1. admin \in [Admins -> AdminRow \cup {None}] /\ r # None
  BY AdminAssumption DEF TypeInv, TablesOK, AdminRow
<1> QED BY <1>1 DEF Exists

\* createInstanceAdmin of a claim or of an owner.
LEMMA CreateOK ==
  ASSUME TypeInv, NEW s \in Workers, CreateInstanceAdmin(s)
  PROVE  TypeInv'
<1> DEFINE j == job[s]
           k == [j EXCEPT !.pc = "identity", !.kind = "bootstrap"]
           r == [role |-> j.role, active |-> TRUE]
<1>0. /\ JobOK(j, Exists, DOMAIN session) /\ TablesOK /\ j \in Job
      /\ j.pc \in {"bootstrap", "create"} /\ j.who \in Admins /\ j.role \in Roles
  BY DEF TypeInv, TablesOK, JobsOK, CreateInstanceAdmin, At, JobOK, Job, Roles
<1>1. UNCHANGED <<now, session, identity, keys, config, cache, template>>
  BY DEF CreateInstanceAdmin
<1>2. CASE admin[j.who] # None
  <2>1. Done(s) /\ UNCHANGED <<admin, claims>>
    BY <1>2 DEF CreateInstanceAdmin
  <2> QED BY <1>0, <1>1, <2>1, DoneOK DEF tables, TablesOK
<1>3. CASE admin[j.who] = None
  <2>1. admin' = [admin EXCEPT ![j.who] = r] /\ r \in AdminRow
    BY <1>0, <1>3 DEF CreateInstanceAdmin, AdminRow
  <2>2. Exists' = Exists \cup {j.who} /\ admin' \in [Admins -> AdminRow \cup {None}]
    BY <1>0, <2>1, AdminWritten
  <2>3. claims' \in Nat
    BY <1>0, <1>3 DEF CreateInstanceAdmin, TablesOK
  <2>4. TablesOK'
    BY <1>0, <1>1, <2>2, <2>3 DEF TablesOK
  <2>5. CASE j.pc = "bootstrap"
    <3>1. Crossing(s, k, {"bootstrap"})
      BY <1>3, <2>5 DEF CreateInstanceAdmin
    <3>2. k \in Job /\ k.pc = "identity" /\ k.kind = "bootstrap" /\ k.who = j.who
      BY <1>0 DEF Job, Pcs
    <3> HIDE DEF k, j
    <3>3. JobOK(k, Exists', DOMAIN session')
      BY <2>2, <3>2 DEF JobOK
    <3> QED BY <1>1, <2>2, <2>4, <3>1, <3>3, WriteOK
  <2>6. CASE j.pc # "bootstrap"
    <3>1. Crossing(s, Idle, {"bootstrap"})
      BY <1>3, <2>6 DEF CreateInstanceAdmin
    <3> QED BY <1>1, <2>2, <2>4, <3>1, IdleOK, WriteOK
  <2> QED BY <2>5, <2>6
<1> QED BY <1>2, <1>3

\* The other writes of a handler.
LEMMA WritesOK ==
  ASSUME TypeInv, NEW s \in Workers,
         \/ IssueAdminSession(s) \/ Logout(s) \/ UpdateInstanceAdmin(s)
         \/ UpsertInstanceServiceIdentity(s) \/ UpdateInstanceConfig(s) \/ CacheSet(s)
         \/ \E t \in Templates : DeleteServerTemplate(s, t)
         \/ ClearDefault(s) \/ StoreTemplate(s)
  PROVE  TypeInv'
<1>0. /\ JobOK(job[s], Exists, DOMAIN session) /\ TablesOK /\ job[s] \in Job
  BY DEF TypeInv, TablesOK, JobsOK, JobOK
<1>1. CASE IssueAdminSession(s)
  <2> DEFINE n == now + SessionTtl
             r == [who |-> job[s].who, expires |-> n, revoked |-> None, gone |-> FALSE]
  <2>1. session' = Append(session, r) /\ job' = [job EXCEPT ![s] = Idle]
        /\ UNCHANGED <<now, admin, identity, config, cache, template, keys, claims>>
    BY <1>1 DEF IssueAdminSession, Done, history
  <2>2. job[s].who \in Exists /\ n \in Nat
    BY <1>0, <1>1, AdminAssumption DEF IssueAdminSession, At, JobOK, TablesOK
  <2> HIDE DEF n
  <2>3. r \in SessionRow /\ r.who = job[s].who
    BY <2>2 DEF SessionRow, Exists
  <2> HIDE DEF r
  <2>4. Exists' = Exists
    BY <2>1 DEF Exists
  <2>5. session \in Seq(SessionRow)
    BY <1>0 DEF TablesOK
  <2>6. /\ session' \in Seq(SessionRow) /\ DOMAIN session \subseteq DOMAIN session'
        /\ \A i \in DOMAIN session' : session'[i] = IF i \in DOMAIN session THEN session[i] ELSE r
    BY <2>1, <2>3, <2>5
  <2>7. TablesOK'
    BY <1>0, <2>1, <2>2, <2>3, <2>4, <2>6 DEF TablesOK
  <2> QED BY <2>1, <2>4, <2>6, <2>7, IdleOK, WriteOK
<1>2. CASE Logout(s)
  <2> DEFINE i == job[s].sess
             t == IF session[i].revoked = None THEN now ELSE session[i].revoked
             r == [session[i] EXCEPT !.revoked = t]
  <2>1. session' = [session EXCEPT ![i] = r] /\ job' = [job EXCEPT ![s] = Idle]
        /\ UNCHANGED <<now, admin, identity, config, cache, template, keys, claims>>
    BY <1>2 DEF Logout, Done, history
  <2>2. i \in DOMAIN session /\ session \in Seq(SessionRow) /\ now \in Nat
    BY <1>0, <1>2 DEF Logout, At, JobOK, TablesOK
  <2>a. session[i] \in SessionRow
    BY <2>2
  <2>b. t \in Nat
    BY <2>a, <2>2 DEF SessionRow
  <2> HIDE DEF t
  <2>3. r \in SessionRow /\ r.who = session[i].who
    BY <2>a, <2>b DEF SessionRow
  <2> HIDE DEF r
  <2>4. session' \in Seq(SessionRow) /\ DOMAIN session' = DOMAIN session
        /\ \A k \in DOMAIN session : session'[k].who = session[k].who
    BY <2>1, <2>2, <2>3
  <2>5. Exists' = Exists
    BY <2>1 DEF Exists
  <2>6. TablesOK'
    BY <1>0, <2>1, <2>4, <2>5 DEF TablesOK
  <2> QED BY <2>1, <2>4, <2>5, <2>6, IdleOK, WriteOK
<1>3. CASE UpdateInstanceAdmin(s)
  <2> DEFINE a == job[s].who
             r == [role |-> job[s].role, active |-> job[s].active]
  <2>1. admin' = [admin EXCEPT ![a] = r] /\ Crossing(s, Idle, {"update"})
        /\ UNCHANGED <<now, session, identity, config, cache, template, keys, claims>>
    BY <1>3 DEF UpdateInstanceAdmin
  <2>2. a \in Exists /\ a \in Admins /\ r \in AdminRow
    BY <1>0, <1>3 DEF UpdateInstanceAdmin, At, JobOK, Job, AdminRow, Exists
  <2> HIDE DEF a, r
  <2>a. Exists' = Exists \cup {a} /\ admin' \in [Admins -> AdminRow \cup {None}]
    BY <2>1, <2>2, AdminWritten
  <2>3. Exists' = Exists /\ admin' \in [Admins -> AdminRow \cup {None}]
    BY <2>2, <2>a
  <2>4. TablesOK'
    BY <1>0, <2>1, <2>3 DEF TablesOK
  <2> QED BY <2>1, <2>3, <2>4, IdleOK, WriteOK
<1>4. CASE UpsertInstanceServiceIdentity(s)
  <2>1. identity' = job[s].read /\ Crossing(s, AfterIdentity(s), {"upsert"})
        /\ UNCHANGED <<now, admin, session, config, cache, template, keys, claims>>
    BY <1>4 DEF UpsertInstanceServiceIdentity
  <2>2. Exists' = Exists
    BY <2>1 DEF Exists
  <2>3. TablesOK'
    BY <1>0, <2>1, <2>2 DEF TablesOK, Job
  <2>4. JobOK(AfterIdentity(s), Exists, DOMAIN session)
    <3>1. CASE job[s].kind = "bootstrap"
      <4> DEFINE j == [job[s] EXCEPT !.pc = "session"]
      <4>1. j \in Job /\ j.pc = "session" /\ j.kind = job[s].kind /\ j.who = job[s].who
        BY <1>0 DEF Job, Pcs
      <4>2. AfterIdentity(s) = j
        BY <3>1 DEF AfterIdentity
      <4> HIDE DEF j
      <4> QED BY <1>0, <3>1, <4>1, <4>2 DEF JobOK
    <3>2. CASE job[s].kind # "bootstrap"
      BY <3>2, IdleOK DEF AfterIdentity
    <3> QED BY <3>1, <3>2
  <2> QED BY <2>1, <2>2, <2>3, <2>4, WriteOK
<1>5. CASE UpdateInstanceConfig(s)
  <2> DEFINE j == [job[s] EXCEPT !.pc = "reload"]
  <2>1. config' = config + 1 /\ Crossing(s, j, {"cache"})
        /\ UNCHANGED <<now, admin, session, identity, cache, template, keys, claims>>
    BY <1>5 DEF UpdateInstanceConfig, history
  <2>2. Exists' = Exists
    BY <2>1 DEF Exists
  <2>3. TablesOK'
    BY <1>0, <2>1, <2>2 DEF TablesOK
  <2>4. j \in Job /\ j.pc = "reload" /\ j.kind = job[s].kind /\ j.who = job[s].who
    BY <1>0 DEF Job, Pcs
  <2> HIDE DEF j
  <2>5. JobOK(j, Exists, DOMAIN session)
    BY <1>0, <2>4 DEF JobOK
  <2> QED BY <2>1, <2>2, <2>3, <2>5, WriteOK
<1>6. CASE CacheSet(s)
  <2>1. cache' = job[s].read /\ job' = [job EXCEPT ![s] = Idle]
        /\ UNCHANGED <<now, admin, session, identity, config, template, keys, claims>>
    BY <1>6 DEF CacheSet, Done
  <2>2. Exists' = Exists
    BY <2>1 DEF Exists
  <2>3. TablesOK'
    BY <1>0, <2>1, <2>2 DEF TablesOK, Job
  <2> QED BY <2>1, <2>2, <2>3, IdleOK, WriteOK
<1>7. CASE \/ \E t \in Templates : DeleteServerTemplate(s, t)
           \/ ClearDefault(s) \/ StoreTemplate(s)
  <2>1. UNCHANGED <<now, admin, session, identity, config, cache, keys, claims>>
    BY <1>7 DEF DeleteServerTemplate, ClearDefault, StoreTemplate, history
  <2>2. Exists' = Exists
    BY <2>1 DEF Exists
  <2>3. template' \in [Templates -> {None, "plain", "default"}]
    BY <1>0, <1>7 DEF DeleteServerTemplate, ClearDefault, StoreTemplate, TablesOK
  <2>4. TablesOK'
    BY <1>0, <2>1, <2>2, <2>3 DEF TablesOK
  <2>5. CASE job' = [job EXCEPT ![s] = Idle] \/ Crossing(s, Idle, {"write"})
    BY <2>1, <2>2, <2>4, <2>5, IdleOK, WriteOK
  <2>6. CASE Goto(s, "write")
    <3> DEFINE j == [job[s] EXCEPT !.pc = "write"]
    <3>1. j \in Job /\ j.pc = "write" /\ j.kind = job[s].kind /\ j.who = job[s].who
      BY <1>0 DEF Job, Pcs
    <3>2. job' = [job EXCEPT ![s] = j]
      BY <2>6 DEF Goto
    <3> HIDE DEF j
    <3>3. JobOK(j, Exists, DOMAIN session)
      BY <1>0, <3>1 DEF JobOK
    <3> QED BY <2>1, <2>2, <2>4, <3>2, <3>3, WriteOK
  <2> QED BY <1>7, <2>5, <2>6 DEF DeleteServerTemplate, ClearDefault, StoreTemplate, Done
<1> QED BY <1>1, <1>2, <1>3, <1>4, <1>5, <1>6, <1>7

\* The purge, a restart and the clock keep the types.
LEMMA BackgroundOK ==
  ASSUME TypeInv, PurgeStaleAdminSessions \/ Restart \/ Tick \/ UNCHANGED vars
  PROVE  TypeInv'
<1>0. TablesOK /\ JobsOK
  BY DEF TypeInv
<1>1. CASE PurgeStaleAdminSessions
  <2>1. session' = [i \in DOMAIN session |->
                      IF Stale(i) THEN [session[i] EXCEPT !.gone = TRUE] ELSE session[i]]
        /\ UNCHANGED <<now, admin, identity, config, cache, template, keys, claims, job>>
    BY <1>1 DEF PurgeStaleAdminSessions, history
  <2>2. session \in Seq(SessionRow)
    BY <1>0 DEF TablesOK
  <2>3. \A i \in DOMAIN session : session'[i] \in SessionRow /\ session'[i].who = session[i].who
    <3> SUFFICES ASSUME NEW i \in DOMAIN session
                 PROVE  session'[i] \in SessionRow /\ session'[i].who = session[i].who
      OBVIOUS
    <3>1. session[i] \in SessionRow
      BY <2>2
    <3>2. session'[i] = IF Stale(i) THEN [session[i] EXCEPT !.gone = TRUE] ELSE session[i]
      BY <2>1
    <3> QED BY <3>1, <3>2 DEF SessionRow
  <2>4. session' \in Seq(SessionRow) /\ DOMAIN session' = DOMAIN session
    BY <2>1, <2>2, <2>3
  <2>5. Exists' = Exists
    BY <2>1 DEF Exists
  <2> QED BY <1>0, <2>1, <2>3, <2>4, <2>5 DEF TypeInv, TablesOK, JobsOK
<1>2. CASE Restart
  <2>1. job' = [s \in Workers |-> Idle] /\ (cache' = config \/ cache' = 0)
        /\ UNCHANGED <<now, admin, session, identity, config, template, keys, claims>>
    BY <1>2 DEF Restart
  <2>2. Exists' = Exists /\ Idle \in Job
    BY <2>1, IdleOK DEF Exists, JobOK
  <2> QED BY <1>0, <2>1, <2>2, IdleOK DEF TypeInv, TablesOK, JobsOK
<1>3. CASE Tick \/ UNCHANGED vars
  <2>1. (now' = now \/ now' = now + 1)
        /\ UNCHANGED <<admin, session, identity, config, cache, template, keys, claims, job>>
    BY <1>3 DEF Tick, vars, tables, history
  <2>2. Exists' = Exists
    BY <2>1 DEF Exists
  <2> QED BY <1>0, <2>1, <2>2 DEF TypeInv, TablesOK, JobsOK
<1> QED BY <1>1, <1>2, <1>3

\* Every step keeps the types.
LEMMA NextTypes == TypeInv /\ [Next]_vars => TypeInv'
<1> SUFFICES ASSUME TypeInv, [Next]_vars PROVE TypeInv'
  OBVIOUS
<1>1. ASSUME NEW s \in Workers,
             \/ \E a \in Admins : BootstrapClaim(s, a) \/ Login(s, a)
             \/ \E i \in DOMAIN session, k \in Kinds : RequireAdminSession(s, i, k)
      PROVE  TypeInv'
  BY <1>1, StartsOK
<1>2. CASE \E s \in Workers :
       \/ \E a \in Admins : BootstrapClaim(s, a) \/ Login(s, a)
       \/ CreateInstanceAdmin(s) \/ IssueAdminSession(s)
       \/ \E i \in DOMAIN session, k \in Kinds : RequireAdminSession(s, i, k)
       \/ RequireAdminAccount(s) \/ Logout(s)
       \/ \E a \in Admins, r \in Roles : CreateAdminAccount(s, a, r)
       \/ \E a \in Admins, r \in Roles \cup {None}, b \in BOOLEAN \cup {None} :
            PatchAdminAccount(s, a, r, b)
       \/ EnsureOwnerSafety(s) \/ UpdateInstanceAdmin(s)
       \/ EnsureServiceIdentity(s) \/ UpsertInstanceServiceIdentity(s)
       \/ UpdateInstanceConfig(s) \/ GetInstanceConfig(s) \/ CacheSet(s)
       \/ \E t \in Templates : DeleteServerTemplate(s, t)
       \/ \E t \in Templates \cup {None}, b \in BOOLEAN : WriteTemplate(s, t, b)
       \/ ClearDefault(s) \/ StoreTemplate(s) \/ Abandon(s)
  BY <1>1, <1>2, ReadsOK, CreateOK, WritesOK
<1> QED BY <1>2, BackgroundOK DEF Next, Kinds

\* So does the initial state, which has a template and no account.
LEMMA InitTypes == Init => TypeInv
<1> SUFFICES ASSUME Init PROVE TypeInv
  OBVIOUS
<1>1. Idle \in Job
  BY IdleOK DEF JobOK
<1>2. TablesOK
  BY DEF Init, TablesOK
<1> QED BY <1>1, <1>2, IdleOK DEF Init, TypeInv, JobsOK

-----------------------------------------------------------------------------
(***************************************************************************)
(* What a step does to the jobs: that of worker s moves to one of pcs, and *)
(* every other stays as it is or is crossed.                               *)
(***************************************************************************)
Lands(s, pcs) ==
  /\ job'[s].pc \in pcs
  /\ \A w \in Workers \ {s} : /\ job'[w].pc = job[w].pc
                              /\ job'[w] = job[w] \/ job'[w].crossed

\* The two ways in which the actions write the jobs.
LEMMA LandsBy ==
  ASSUME TypeInv, NEW s \in Workers, NEW j, NEW pcs,
         Crossing(s, j, pcs) \/ job' = [job EXCEPT ![s] = j]
  PROVE  /\ job'[s] = j
         /\ Lands(s, {j.pc})
         /\ \A w \in Workers \ {s} : Crossing(s, j, pcs) /\ job[w].pc \in pcs => job'[w].crossed
<1>1. job \in [Workers -> Job]
  BY DEF TypeInv, JobsOK
<1>2. \A w \in Workers : job[w] \in Job
  BY <1>1
<1>3. \A w \in Workers : LET k == [job[w] EXCEPT !.crossed = TRUE]
                         IN  k.pc = job[w].pc /\ k.crossed
  BY <1>2 DEF Job
<1>4. job'[s] = j
  BY <1>1 DEF Crossing
<1>5. CASE Crossing(s, j, pcs)
  <2>1. ASSUME NEW w \in Workers \ {s}
        PROVE  job'[w] = IF job[w].pc \in pcs THEN [job[w] EXCEPT !.crossed = TRUE] ELSE job[w]
    BY <1>5 DEF Crossing
  <2> QED BY <1>3, <1>4, <2>1 DEF Lands
<1>6. CASE job' = [job EXCEPT ![s] = j]
  <2>1. ASSUME NEW w \in Workers \ {s} PROVE job'[w] = job[w]
    BY <1>1, <1>6
  <2> QED BY <1>1, <1>4, <1>5, <2>1 DEF Lands
<1> QED BY <1>5, <1>6

\* A job that ends, that moves, and that goes on without an identity.
LEMMA LandsDone == ASSUME TypeInv, NEW s \in Workers, Done(s) PROVE Lands(s, {"idle"})
BY LandsBy, IdleOK DEF Done

\* A job that moves to pc.
LEMMA LandsGoto == ASSUME TypeInv, NEW s \in Workers, NEW pc, Goto(s, pc) PROVE Lands(s, {pc})
<1> DEFINE j == [job[s] EXCEPT !.pc = pc]
<1>1. job[s] \in Job
  BY DEF TypeInv, JobsOK
<1>2. j.pc = pc
  BY <1>1 DEF Job
<1>3. job' = [job EXCEPT ![s] = j]
  BY DEF Goto
<1> HIDE DEF j
<1> QED BY <1>2, <1>3, LandsBy

\* A larger set of places.
LEMMA LandsMore == ASSUME NEW s, NEW p, NEW q, p \subseteq q, Lands(s, p) PROVE Lands(s, q)
BY DEF Lands

\* After its identity a claim issues a session, and a provision ends.
LEMMA LandsAfter ==
  ASSUME TypeInv, NEW s \in Workers PROVE AfterIdentity(s).pc \in {"session", "idle"}
<1>1. job[s] \in Job
  BY DEF TypeInv, JobsOK
<1> QED BY <1>1, IdleOK DEF AfterIdentity, Job

\* The steps that no invariant below looks at.
Calm(s) ==
  \/ \E a \in Admins : Login(s, a)
  \/ \E i \in DOMAIN session, k \in Kinds : RequireAdminSession(s, i, k)
  \/ IssueAdminSession(s) \/ RequireAdminAccount(s) \/ Logout(s)
  \/ \E a \in Admins, r \in Roles : CreateAdminAccount(s, a, r)
CalmPcs == {"idle", "session", "authAdmin"} \cup Kinds

\* They write nothing that the invariants speak of.
LEMMA CalmLands ==
  ASSUME TypeInv, NEW s \in Workers, Calm(s)
  PROVE  /\ Lands(s, CalmPcs) /\ job[s].pc \notin {"reload", "cache"}
         /\ UNCHANGED <<admin, identity, config, cache, template, claims, keys, reported, excused>>
<1>0. job[s] \in Job /\ JobOK(job[s], Exists, DOMAIN session)
  BY DEF TypeInv, JobsOK
<1>1. ASSUME NEW a \in Admins, Login(s, a)
      PROVE  Lands(s, CalmPcs) /\ job[s].pc \notin {"reload", "cache"}
  <2> DEFINE j == [Idle EXCEPT !.pc = "session", !.who = a]
  <2>1. j.pc = "session" /\ job' = [job EXCEPT ![s] = j] /\ job[s] = Idle
    BY <1>1 DEF Login, Start, Idle
  <2> HIDE DEF j
  <2> QED BY <2>1, LandsBy, IdleOK DEF Lands, CalmPcs
<1>2. ASSUME NEW i \in DOMAIN session, NEW k \in Kinds, RequireAdminSession(s, i, k)
      PROVE  Lands(s, CalmPcs) /\ job[s].pc \notin {"reload", "cache"}
  <2> DEFINE j == [Idle EXCEPT !.pc = "authAdmin", !.kind = k, !.sess = i]
  <2>1. j.pc = "authAdmin" /\ job' = [job EXCEPT ![s] = j] /\ job[s] = Idle
    BY <1>2 DEF RequireAdminSession, Start, Idle
  <2> HIDE DEF j
  <2> QED BY <2>1, LandsBy, IdleOK DEF Lands, CalmPcs
<1>3. ASSUME IssueAdminSession(s) \/ Logout(s)
      PROVE  Lands(s, CalmPcs) /\ job[s].pc \notin {"reload", "cache"}
  BY <1>3, LandsDone, LandsMore DEF IssueAdminSession, Logout, At, CalmPcs
<1>4. ASSUME RequireAdminAccount(s)
      PROVE  Lands(s, CalmPcs) /\ job[s].pc \notin {"reload", "cache"}
  <2>1. job[s].kind \in Kinds /\ job[s].pc = "authAdmin"
    BY <1>0, <1>4 DEF RequireAdminAccount, At, JobOK
  <2>2. Goto(s, job[s].kind) \/ Done(s)
    BY <1>4 DEF RequireAdminAccount
  <2> QED BY <2>1, <2>2, LandsDone, LandsGoto DEF Lands, CalmPcs
<1>5. ASSUME NEW a \in Admins, NEW r \in Roles, CreateAdminAccount(s, a, r)
      PROVE  Lands(s, CalmPcs) /\ job[s].pc \notin {"reload", "cache"}
  <2> DEFINE j == [job[s] EXCEPT !.who = a, !.role = r]
  <2>1. job' = [job EXCEPT ![s] = j] /\ job[s].pc = "create"
    BY <1>5 DEF CreateAdminAccount, At
  <2>2. j.pc = "create"
    BY <1>0, <2>1 DEF Job
  <2> HIDE DEF j
  <2> QED BY <2>1, <2>2, LandsBy DEF Lands, CalmPcs, Kinds, OwnerKinds
<1>6. Lands(s, CalmPcs) /\ job[s].pc \notin {"reload", "cache"}
  BY <1>1, <1>2, <1>3, <1>4, <1>5 DEF Calm
<1>7. UNCHANGED <<admin, identity, config, cache, template, claims, keys, reported, excused>>
  BY DEF Calm, Login, RequireAdminSession, IssueAdminSession, RequireAdminAccount, Logout,
         CreateAdminAccount, tables, history
<1> QED BY <1>6, <1>7

\* A claim that found no account.
LEMMA ClaimLands ==
  ASSUME TypeInv, NEW s \in Workers, NEW a \in Admins, BootstrapClaim(s, a)
  PROVE  /\ Lands(s, {"bootstrap"}) /\ job[s].pc = "idle" /\ Exists = {}
         /\ UNCHANGED <<admin, identity, config, cache, template, claims, keys, reported, excused>>
<1> DEFINE j == [Idle EXCEPT !.pc = "bootstrap", !.who = a, !.role = "owner"]
<1>1. j.pc = "bootstrap" /\ job' = [job EXCEPT ![s] = j] /\ job[s] = Idle
  BY DEF BootstrapClaim, Start, Idle
<1> HIDE DEF j
<1>2. Lands(s, {"bootstrap"}) /\ job[s].pc = "idle"
  BY <1>1, LandsBy, IdleOK
<1> QED BY <1>2 DEF BootstrapClaim, tables, history

\* An account is made, or its name is found to be taken.
LEMMA CreateLands ==
  ASSUME TypeInv, NEW s \in Workers, CreateInstanceAdmin(s)
  PROVE  /\ job[s].pc \in {"bootstrap", "create"} /\ Lands(s, {"idle", "identity"})
         /\ UNCHANGED <<identity, config, cache, template, keys, reported>>
         /\ excused \subseteq excused' /\ excused' \subseteq excused \cup {"claim"}
         /\ \/ UNCHANGED <<admin, claims, excused>>
            \/ /\ job[s].who \in Admins /\ job[s].role \in Roles
               /\ admin' = [admin EXCEPT ![job[s].who] = [role |-> job[s].role, active |-> TRUE]]
               /\ job[s].pc = "bootstrap" => /\ claims' = claims + 1
                                             /\ job[s].crossed => "claim" \in excused'
               /\ job[s].pc = "create" => claims' = claims
               /\ \A w \in Workers : job'[w].pc = "bootstrap" => job'[w].crossed
<1> DEFINE j == job[s]
           k == [j EXCEPT !.pc = "identity", !.kind = "bootstrap"]
<1>0. /\ JobOK(j, Exists, DOMAIN session) /\ j \in Job
      /\ j.pc \in {"bootstrap", "create"} /\ j.who \in Admins /\ j.role \in Roles
  BY DEF TypeInv, JobsOK, CreateInstanceAdmin, At, JobOK, Job, Roles
<1>1. UNCHANGED <<identity, config, cache, template, keys, reported>>
  BY DEF CreateInstanceAdmin
<1>2. CASE admin[j.who] # None
  <2>1. Done(s) /\ UNCHANGED <<admin, claims, excused>>
    BY <1>2 DEF CreateInstanceAdmin
  <2>2. Lands(s, {"idle", "identity"})
    BY <2>1, LandsDone, LandsMore
  <2> QED BY <1>0, <1>1, <2>1, <2>2
<1>3. CASE admin[j.who] = None /\ j.pc = "bootstrap"
  <2>1. /\ admin' = [admin EXCEPT ![j.who] = [role |-> j.role, active |-> TRUE]]
        /\ Crossing(s, k, {"bootstrap"}) /\ Excuse(s, "claim") /\ claims' = claims + 1
    BY <1>3 DEF CreateInstanceAdmin
  <2>2. k.pc = "identity"
    BY <1>0 DEF Job
  <2> HIDE DEF k, j
  <2>3. /\ Lands(s, {"identity"})
        /\ \A w \in Workers \ {s} : job[w].pc = "bootstrap" => job'[w].crossed
    BY <2>1, <2>2, LandsBy
  <2>4. Lands(s, {"idle", "identity"}) /\ \A w \in Workers : job'[w].pc = "bootstrap" => job'[w].crossed
    BY <2>3, LandsMore DEF Lands
  <2> QED BY <1>0, <1>1, <1>3, <2>1, <2>4 DEF Excuse, j
<1>4. CASE admin[j.who] = None /\ j.pc = "create"
  <2>1. /\ admin' = [admin EXCEPT ![j.who] = [role |-> j.role, active |-> TRUE]]
        /\ Crossing(s, Idle, {"bootstrap"}) /\ UNCHANGED <<claims, excused>>
    BY <1>4 DEF CreateInstanceAdmin
  <2>2. /\ Lands(s, {"idle"})
        /\ \A w \in Workers \ {s} : job[w].pc = "bootstrap" => job'[w].crossed
    BY <2>1, LandsBy, IdleOK
  <2>3. Lands(s, {"idle", "identity"}) /\ \A w \in Workers : job'[w].pc = "bootstrap" => job'[w].crossed
    BY <2>2, LandsMore DEF Lands
  <2> QED BY <1>0, <1>1, <1>4, <2>1, <2>3
<1> QED BY <1>0, <1>2, <1>3, <1>4

\* The steps of patchAdminAccount before its update, and the update.
LEMMA AccountLands ==
  ASSUME TypeInv, NEW s \in Workers,
         \/ \E a \in Admins, r \in Roles \cup {None}, b \in BOOLEAN \cup {None} :
              PatchAdminAccount(s, a, r, b)
         \/ EnsureOwnerSafety(s) \/ UpdateInstanceAdmin(s)
  PROVE  /\ job[s].pc \in {"patch", "safety", "update"} /\ Lands(s, {"update", "safety", "idle"})
         /\ UNCHANGED <<identity, config, cache, template, claims, keys, reported>>
         /\ excused \subseteq excused' /\ excused' \subseteq excused \cup {"owner"}
         /\ Exists' = Exists
<1>0. job[s] \in Job /\ JobOK(job[s], Exists, DOMAIN session)
  BY DEF TypeInv, JobsOK
<1>1. ASSUME NEW a \in Admins, NEW r \in Roles \cup {None}, NEW b \in BOOLEAN \cup {None},
             PatchAdminAccount(s, a, r, b)
      PROVE  /\ job[s].pc = "patch" /\ Lands(s, {"update", "safety", "idle"})
             /\ UNCHANGED <<admin, identity, config, cache, template, claims, keys, reported, excused>>
  <2> DEFINE role == IF r = None THEN admin[a].role ELSE r
             active == IF b = None THEN admin[a].active ELSE b
             pc == IF admin[a].role # "owner" \/ (role = "owner" /\ active)
                   THEN "update" ELSE "safety"
             j == [job[s] EXCEPT !.who = a, !.role = role, !.active = active, !.pc = pc]
  <2>1. /\ job[s].pc = "patch" /\ job' = [job EXCEPT ![s] = j]
        /\ UNCHANGED <<admin, identity, config, cache, template, claims, keys, reported, excused>>
    BY <1>1 DEF PatchAdminAccount, At, tables, history
  <2>2. pc \in {"update", "safety"}
    OBVIOUS
  <2> HIDE DEF role, active, pc
  <2>3. j.pc = pc
    BY <1>0 DEF Job
  <2> HIDE DEF j
  <2> QED BY <2>1, <2>2, <2>3, LandsBy DEF Lands
<1>2. CASE EnsureOwnerSafety(s)
  <2>1. /\ job[s].pc = "safety" /\ (Done(s) \/ Goto(s, "update"))
        /\ UNCHANGED <<admin, identity, config, cache, template, claims, keys, reported, excused>>
    BY <1>2 DEF EnsureOwnerSafety, At, tables, history
  <2>2. Lands(s, {"update", "safety", "idle"})
    BY <2>1, LandsDone, LandsGoto DEF Lands
  <2> QED BY <2>1, <2>2 DEF Exists
<1>3. CASE UpdateInstanceAdmin(s)
  <2> DEFINE a == job[s].who
             r == [role |-> job[s].role, active |-> job[s].active]
  <2>1. /\ job[s].pc = "update" /\ admin' = [admin EXCEPT ![a] = r]
        /\ Crossing(s, Idle, {"update"}) /\ Excuse(s, "owner")
        /\ UNCHANGED <<identity, config, cache, template, claims, keys, reported>>
    BY <1>3 DEF UpdateInstanceAdmin, At
  <2>2. a \in Exists /\ a \in Admins /\ r \in AdminRow
    BY <1>0, <2>1 DEF JobOK, Job, AdminRow, Exists
  <2> HIDE DEF a, r
  <2>3. Exists' = Exists \cup {a}
    BY <2>1, <2>2, AdminWritten
  <2>4. Lands(s, {"update", "safety", "idle"})
    BY <2>1, LandsBy, IdleOK DEF Lands
  <2>5. excused \subseteq excused' /\ excused' \subseteq excused \cup {"owner"}
    BY <2>1 DEF Excuse
  <2>6. Exists' = Exists
    BY <2>2, <2>3
  <2> QED BY <2>1, <2>4, <2>5, <2>6
<1>4. ASSUME NEW a \in Admins, NEW r \in Roles \cup {None}, NEW b \in BOOLEAN \cup {None},
             PatchAdminAccount(s, a, r, b)
      PROVE  Exists' = Exists
  BY <1>1, <1>4 DEF Exists
<1> QED BY <1>1, <1>2, <1>3, <1>4

\* ensureServiceIdentity and its upsert.
LEMMA IdentityLands ==
  ASSUME TypeInv, NEW s \in Workers, EnsureServiceIdentity(s) \/ UpsertInstanceServiceIdentity(s)
  PROVE  /\ job[s].pc \in {"identity", "provision", "upsert"}
         /\ Lands(s, {"upsert", "session", "idle"})
         /\ UNCHANGED <<admin, config, cache, template, claims>>
         /\ excused \subseteq excused' /\ excused' \subseteq excused \cup {"identity"}
<1>0. job[s] \in Job
  BY DEF TypeInv, JobsOK
<1>1. CASE EnsureServiceIdentity(s)
  <2>1. /\ job[s].pc \in {"identity", "provision", "upsert"}
        /\ UNCHANGED <<admin, config, cache, template, claims, excused>>
    BY <1>1 DEF EnsureServiceIdentity, At, tables
  <2>2. CASE identity # 0
    <3>1. job' = [job EXCEPT ![s] = AfterIdentity(s)]
      BY <1>1, <2>2 DEF EnsureServiceIdentity
    <3>2. Lands(s, {"upsert", "session", "idle"})
      BY <3>1, LandsBy, LandsAfter DEF Lands
    <3> QED BY <2>1, <3>2
  <2>3. CASE identity = 0
    <3> DEFINE k == keys + 1
               j == [job[s] EXCEPT !.pc = "upsert", !.read = k]
    <3>1. job' = [job EXCEPT ![s].pc = "upsert", ![s].read = k]
      BY <1>1, <2>3 DEF EnsureServiceIdentity
    <3> HIDE DEF k
    <3>2. j.pc = "upsert" /\ job' = [job EXCEPT ![s] = j]
      BY <1>0, <3>1 DEF Job
    <3> HIDE DEF j
    <3>3. Lands(s, {"upsert", "session", "idle"})
      BY <3>2, LandsBy DEF Lands
    <3> QED BY <2>1, <3>3
  <2> QED BY <2>2, <2>3
<1>2. CASE UpsertInstanceServiceIdentity(s)
  <2>1. /\ job[s].pc = "upsert" /\ Crossing(s, AfterIdentity(s), {"upsert"})
        /\ Excuse(s, "identity") /\ UNCHANGED <<admin, config, cache, template, claims>>
    BY <1>2 DEF UpsertInstanceServiceIdentity, At
  <2>2. Lands(s, {"upsert", "session", "idle"})
    BY <2>1, LandsBy, LandsAfter DEF Lands
  <2> QED BY <2>1, <2>2 DEF Excuse
<1> QED BY <1>1, <1>2

\* The steps of updateConfig.
LEMMA ConfigLands ==
  ASSUME TypeInv, NEW s \in Workers, UpdateInstanceConfig(s) \/ GetInstanceConfig(s) \/ CacheSet(s)
  PROVE  /\ Lands(s, {"reload", "cache", "idle"})
         /\ UNCHANGED <<admin, identity, template, claims, keys, reported>>
         /\ excused' \ {"cache"} = excused \ {"cache"}
<1>0. job[s] \in Job
  BY DEF TypeInv, JobsOK
<1>1. CASE UpdateInstanceConfig(s)
  <2> DEFINE j == [job[s] EXCEPT !.pc = "reload"]
  <2>1. Crossing(s, j, {"cache"}) /\ UNCHANGED <<admin, identity, template, claims, keys, reported, excused>>
    BY <1>1 DEF UpdateInstanceConfig, history
  <2>2. j.pc = "reload"
    BY <1>0 DEF Job
  <2> HIDE DEF j
  <2>3. Lands(s, {"reload", "cache", "idle"})
    BY <2>1, <2>2, LandsBy DEF Lands
  <2> QED BY <2>1, <2>3
<1>2. CASE GetInstanceConfig(s)
  <2> DEFINE j == [job[s] EXCEPT !.pc = "cache", !.read = config]
  <2>1. job' = [job EXCEPT ![s] = j] \/ Done(s)
    BY <1>2 DEF GetInstanceConfig
  <2>2. j.pc = "cache"
    BY <1>0 DEF Job
  <2> HIDE DEF j
  <2>3. Lands(s, {"reload", "cache", "idle"})
    BY <2>1, <2>2, LandsBy, LandsDone DEF Lands
  <2> QED BY <1>2, <2>3 DEF GetInstanceConfig, tables
<1>3. CASE CacheSet(s)
  <2>1. Lands(s, {"reload", "cache", "idle"})
    BY <1>3, LandsDone DEF CacheSet, Lands
  <2> QED BY <1>3, <2>1 DEF CacheSet
<1> QED BY <1>1, <1>2, <1>3

\* The steps of the template handlers.
LEMMA TemplateLands ==
  ASSUME TypeInv, NEW s \in Workers,
         \/ \E t \in Templates : DeleteServerTemplate(s, t)
         \/ \E t \in Templates \cup {None}, b \in BOOLEAN : WriteTemplate(s, t, b)
         \/ ClearDefault(s) \/ StoreTemplate(s)
  PROVE  /\ job[s].pc \in {"deleteTemplate", "template", "clear", "write"}
         /\ Lands(s, {"clear", "write", "idle"})
         /\ UNCHANGED <<admin, identity, config, cache, claims, keys, reported>>
         /\ excused \subseteq excused' /\ excused' \subseteq excused \cup {"default"}
<1>0. job[s] \in Job
  BY DEF TypeInv, JobsOK
<1>1. ASSUME NEW t \in Templates, DeleteServerTemplate(s, t) PROVE Lands(s, {"clear", "write", "idle"})
  BY <1>1, LandsDone DEF DeleteServerTemplate, Lands
<1>2. ASSUME NEW t \in Templates \cup {None}, NEW b \in BOOLEAN, WriteTemplate(s, t, b)
      PROVE  Lands(s, {"clear", "write", "idle"})
  <2> DEFINE pc == IF b THEN "clear" ELSE "write"
             j == [job[s] EXCEPT !.row = t, !.active = b, !.pc = pc]
  <2>1. job' = [job EXCEPT ![s] = j]
    BY <1>2 DEF WriteTemplate
  <2>2. pc \in {"clear", "write"}
    OBVIOUS
  <2> HIDE DEF pc
  <2>3. j.pc = pc
    BY <1>0 DEF Job
  <2> HIDE DEF j
  <2> QED BY <2>1, <2>2, <2>3, LandsBy DEF Lands
<1>3. CASE ClearDefault(s)
  <2>1. Lands(s, {"clear", "write", "idle"})
    BY <1>3, LandsGoto DEF ClearDefault, Lands
  <2> QED BY <1>3, <2>1 DEF ClearDefault, history, At
<1>4. CASE StoreTemplate(s)
  <2>1. Crossing(s, Idle, {"write"}) \/ job' = [job EXCEPT ![s] = Idle]
    BY <1>4 DEF StoreTemplate, Done
  <2>2. Lands(s, {"clear", "write", "idle"})
    BY <2>1, LandsBy, IdleOK DEF Lands
  <2>3. excused \subseteq excused' /\ excused' \subseteq excused \cup {"default"}
    BY <1>4 DEF StoreTemplate, Excuse
  <2> QED BY <1>4, <2>2, <2>3 DEF StoreTemplate, At
<1> QED BY <1>1, <1>2, <1>3, <1>4 DEF DeleteServerTemplate, WriteTemplate, At, tables, history

\* A request that fails, and a restart.
LEMMA AbandonLands ==
  ASSUME TypeInv, NEW s \in Workers, Abandon(s)
  PROVE  /\ Lands(s, {"idle", "session"})
         /\ UNCHANGED <<admin, identity, config, cache, template, claims, keys, reported>>
         /\ excused \subseteq excused' /\ excused' \subseteq excused \cup {"cache"}
         /\ job[s].pc \in {"reload", "cache"} => "cache" \in excused'
<1>1. Lands(s, {"idle", "session"})
  BY LandsDone, LandsGoto DEF Abandon, Lands
<1> QED BY <1>1 DEF Abandon, tables

\* Every request is gone, and the cache is read again or known to be wrong.
LEMMA RestartLands ==
  ASSUME Restart
  PROVE  /\ \A w \in Workers : job'[w] = Idle
         /\ UNCHANGED <<admin, identity, config, template, claims, keys, reported>>
         /\ excused' \ {"cache"} = excused \ {"cache"}
         /\ "cache" \in excused' \/ cache' = config'
BY DEF Restart

\* The purge and the clock write nothing that the invariants speak of.
LEMMA QuietLands ==
  ASSUME PurgeStaleAdminSessions \/ Tick \/ UNCHANGED vars
  PROVE  UNCHANGED <<admin, identity, config, cache, template, claims, keys, reported, excused, job>>
BY DEF PurgeStaleAdminSessions, Tick, vars, tables, history

-----------------------------------------------------------------------------
(***************************************************************************)
(* The inductive invariants.                                               *)
(***************************************************************************)
\* An update that is not excused leaves an active owner whatever it writes:
\* it makes one, or there is one besides the account it changes.
OwnerInv ==
  /\ IsFiniteSet(Exists)
  /\ OwnerKept
  /\ "owner" \notin excused =>
       \A w \in Workers : job[w].pc = "update" /\ ~job[w].crossed =>
          \/ job[w].role = "owner" /\ job[w].active
          \/ ActiveOwners \ {job[w].who} # {}

\* A claim that nobody crossed finds no account, and no account means no
\* claim; an upsert that nobody crossed finds no identity, and none was given.
ClaimInv ==
  /\ Exists = {} => claims = 0
  /\ \A w \in Workers : job[w].pc = "bootstrap" /\ ~job[w].crossed => Exists = {}
  /\ identity = 0 => reported = {}
  /\ \A w \in Workers : job[w].pc = "upsert" /\ ~job[w].crossed => identity = 0
  /\ BootstrapOnce

\* A refresh that nobody crossed holds the stored configuration; a write of a
\* default that nobody crossed finds no default but the row it writes.
Busy == \E s \in Workers : job[s].pc \in {"reload", "cache"}
CacheInv ==
  /\ "cache" \in excused \/ cache = config \/ Busy
  /\ \A w \in Workers : job[w].pc = "cache" /\ ~job[w].crossed => job[w].read = config

IsDefault(t) == template[t] = "default"
DefaultInv ==
  "default" \notin excused =>
    /\ \A t, u \in Templates : IsDefault(t) /\ IsDefault(u) => t = u
    /\ \A w \in Workers : job[w].pc = "write" /\ job[w].active /\ ~job[w].crossed =>
         \A t \in Templates : IsDefault(t) => t = job[w].row

\* A step that writes no account and brings no job to its update keeps the
\* owners.
LEMMA OwnerQuiet ==
  ASSUME OwnerInv, UNCHANGED admin, excused \ {"cache"} \subseteq excused',
         \A w \in Workers : job'[w].pc = "update" /\ ~job'[w].crossed => job'[w] = job[w]
  PROVE  OwnerInv'
<1>1. Exists' = Exists /\ ActiveOwners' = ActiveOwners
  BY DEF Exists, ActiveOwners
<1>2. "owner" \notin excused' => "owner" \notin excused
  OBVIOUS
<1> QED BY <1>1, <1>2 DEF OwnerInv, OwnerKept

\* The accounts that patchAdminAccount and ensureOwnerSafety let through.
LEMMA OwnerPatch ==
  ASSUME TypeInv, OwnerInv, NEW s \in Workers, NEW a \in Admins, NEW r \in Roles \cup {None},
         NEW b \in BOOLEAN \cup {None}, PatchAdminAccount(s, a, r, b)
  PROVE  OwnerInv'
<1> DEFINE role == IF r = None THEN admin[a].role ELSE r
           active == IF b = None THEN admin[a].active ELSE b
           pc == IF admin[a].role # "owner" \/ (role = "owner" /\ active)
                 THEN "update" ELSE "safety"
           j == [job[s] EXCEPT !.who = a, !.role = role, !.active = active, !.pc = pc]
<1>0. job[s] \in Job /\ a \in Exists
  BY DEF TypeInv, JobsOK, PatchAdminAccount, Exists
<1>1. job' = [job EXCEPT ![s] = j] /\ UNCHANGED <<admin, excused>>
  BY DEF PatchAdminAccount, tables, history
<1>2. Exists' = Exists /\ ActiveOwners' = ActiveOwners
  BY <1>1 DEF Exists, ActiveOwners
<1>3. pc = "update" => admin[a].role # "owner" \/ (role = "owner" /\ active)
  OBVIOUS
<1> HIDE DEF role, active, pc
<1>4. j.pc = pc /\ j.who = a /\ j.role = role /\ j.active = active
  BY <1>0 DEF Job
<1> HIDE DEF j
<1>5. job'[s] = j /\ \A w \in Workers \ {s} : job'[w] = job[w]
  BY <1>1 DEF TypeInv, JobsOK
<1>6. "owner" \notin excused /\ pc = "update" => (role = "owner" /\ active) \/ ActiveOwners \ {a} # {}
  <2>1. CASE admin[a].role # "owner"
    BY <1>0, <2>1 DEF OwnerInv, OwnerKept, ActiveOwners
  <2> QED BY <1>3, <2>1
<1>7. OwnerKept' /\ IsFiniteSet(Exists')
  BY <1>1, <1>2 DEF OwnerInv, OwnerKept
<1> QED BY <1>1, <1>2, <1>4, <1>5, <1>6, <1>7 DEF OwnerInv

\* More than one active owner: there is another.
LEMMA OwnerSafety ==
  ASSUME TypeInv, OwnerInv, NEW s \in Workers, EnsureOwnerSafety(s)
  PROVE  OwnerInv'
<1> DEFINE j == [job[s] EXCEPT !.pc = "update"]
<1>0. job[s] \in Job /\ UNCHANGED <<admin, excused>>
  BY DEF TypeInv, JobsOK, EnsureOwnerSafety, tables, history
<1>1. CASE Cardinality(ActiveOwners) <= 1
  <2>1. Done(s)
    BY <1>1 DEF EnsureOwnerSafety
  <2>2. Lands(s, {"idle"})
    BY <2>1, LandsDone
  <2> QED BY <1>0, <2>2, OwnerQuiet DEF Lands
<1>2. CASE ~(Cardinality(ActiveOwners) <= 1)
  <2>1. job' = [job EXCEPT ![s] = j]
    BY <1>2 DEF EnsureOwnerSafety, Goto
  <2>2. j.who = job[s].who
    BY <1>0 DEF Job
  <2> HIDE DEF j
  <2>3. job'[s] = j /\ \A w \in Workers \ {s} : job'[w] = job[w]
    BY <2>1 DEF TypeInv, JobsOK
  <2>4. ActiveOwners \ {job[s].who} # {}
    <3>1. SUFFICES ASSUME ActiveOwners \subseteq {job[s].who} PROVE FALSE
      OBVIOUS
    <3>2. IsFiniteSet({job[s].who}) /\ Cardinality({job[s].who}) = 1
      BY FS_Singleton
    <3>3. Cardinality(ActiveOwners) \in Nat /\ Cardinality(ActiveOwners) <= 1
      BY <3>1, <3>2, FS_Subset, FS_CardinalityType
    <3> QED BY <1>2, <3>3
  <2>5. Exists' = Exists /\ ActiveOwners' = ActiveOwners
    BY <1>0 DEF Exists, ActiveOwners
  <2>6. OwnerKept' /\ IsFiniteSet(Exists')
    BY <1>0, <2>5 DEF OwnerInv, OwnerKept
  <2> QED BY <1>0, <2>2, <2>3, <2>4, <2>5, <2>6 DEF OwnerInv
<1> QED BY <1>1, <1>2

\* The update of an account.
LEMMA OwnerUpdate ==
  ASSUME TypeInv, OwnerInv, NEW s \in Workers, UpdateInstanceAdmin(s)
  PROVE  OwnerInv'
<1> DEFINE a == job[s].who
           r == [role |-> job[s].role, active |-> job[s].active]
<1>0. job[s] \in Job /\ JobOK(job[s], Exists, DOMAIN session)
  BY DEF TypeInv, JobsOK
<1>1. /\ job[s].pc = "update" /\ admin' = [admin EXCEPT ![a] = r]
      /\ Crossing(s, Idle, {"update"}) /\ Excuse(s, "owner")
  BY DEF UpdateInstanceAdmin, At
<1>2. a \in Exists /\ a \in Admins /\ r \in AdminRow /\ r.role = job[s].role /\ r.active = job[s].active
  BY <1>0, <1>1 DEF JobOK, Job, AdminRow, Exists
<1> HIDE DEF r
<1>3. Exists' = Exists /\ admin'[a] = r /\ \A b \in Admins : b # a => admin'[b] = admin[b]
  <2>1. Exists' = Exists \cup {a} /\ admin'[a] = r /\ \A b \in Admins : b # a => admin'[b] = admin[b]
    BY <1>1, <1>2, AdminWritten
  <2> QED BY <1>2, <2>1
<1>4. \A w \in Workers : job'[w].pc = "update" => job'[w].crossed
  BY <1>1, LandsBy, IdleOK DEF Lands
<1>5. OwnerKept'
  <2>1. SUFFICES ASSUME "owner" \notin excused' PROVE ActiveOwners' # {}
    BY DEF OwnerKept
  <2>2. "owner" \notin excused /\ ~job[s].crossed
    BY <1>1, <2>1 DEF Excuse
  <2>3. CASE job[s].role = "owner" /\ job[s].active
    <3>1. a \in ActiveOwners'
      BY <1>2, <1>3, <2>3 DEF ActiveOwners
    <3> QED BY <3>1
  <2>4. CASE ActiveOwners \ {a} # {}
    <3>1. PICK b \in ActiveOwners : b # a
      BY <2>4
    <3>2. b \in ActiveOwners'
      BY <1>3, <3>1 DEF ActiveOwners, Exists
    <3> QED BY <3>2
  <2> QED BY <1>1, <2>2, <2>3, <2>4 DEF OwnerInv
<1> QED BY <1>3, <1>4, <1>5 DEF OwnerInv

\* A new account: the first is an active owner, and later ones take nothing
\* away.
LEMMA OwnerCreate ==
  ASSUME TypeInv, OwnerInv, NEW s \in Workers, CreateInstanceAdmin(s)
  PROVE  OwnerInv'
<1> DEFINE a == job[s].who
           r == [role |-> job[s].role, active |-> TRUE]
<1>0. /\ job[s].pc \in {"bootstrap", "create"} /\ Lands(s, {"idle", "identity"})
      /\ excused \subseteq excused' /\ excused' \subseteq excused \cup {"claim"}
  BY CreateLands
<1>1. CASE UNCHANGED admin
  BY <1>0, <1>1, OwnerQuiet DEF Lands
<1>2. CASE ~ UNCHANGED admin
  <2>1. a \in Admins /\ job[s].role \in Roles /\ admin' = [admin EXCEPT ![a] = r]
    BY <1>2, CreateLands
  <2>2. r \in AdminRow /\ r.role = job[s].role /\ r.active
    BY <2>1 DEF AdminRow
  <2> HIDE DEF r
  <2>3. Exists' = Exists \cup {a} /\ admin'[a] = r /\ \A b \in Admins : b # a => admin'[b] = admin[b]
    BY <2>1, <2>2, AdminWritten
  <2>4. admin[a] = None
    BY <1>2 DEF CreateInstanceAdmin
  <2>5. ActiveOwners \subseteq ActiveOwners'
    BY <2>3, <2>4 DEF ActiveOwners, Exists
  <2>6. IsFiniteSet(Exists')
    BY <2>3, FS_AddElement DEF OwnerInv
  <2>7. ASSUME "owner" \notin excused' PROVE ActiveOwners' # {}
    <3>1. CASE job[s].pc = "bootstrap"
      <4>1. r.role = "owner"
        BY <2>2, <3>1 DEF TypeInv, JobsOK, JobOK
      <4>2. a \in ActiveOwners'
        BY <2>2, <2>3, <4>1 DEF ActiveOwners
      <4> QED BY <4>2
    <3>2. CASE job[s].pc = "create"
      <4>1. Exists # {}
        BY <3>2 DEF TypeInv, JobsOK, JobOK
      <4> QED BY <1>0, <2>5, <2>7, <4>1 DEF OwnerInv, OwnerKept
    <3> QED BY <1>0, <3>1, <3>2
  <2>8. \A w \in Workers : job'[w].pc = "update" /\ ~job'[w].crossed => job'[w] = job[w]
    BY <1>0 DEF Lands
  <2> QED BY <1>0, <2>5, <2>6, <2>7, <2>8 DEF OwnerInv, OwnerKept
<1> QED BY <1>1, <1>2

\* The steps of a worker; what Next offers it, by what it touches.
AccountStep(s) ==
  \/ \E a \in Admins, r \in Roles \cup {None}, b \in BOOLEAN \cup {None} :
       PatchAdminAccount(s, a, r, b)
  \/ EnsureOwnerSafety(s) \/ UpdateInstanceAdmin(s)
IdentityStep(s) == EnsureServiceIdentity(s) \/ UpsertInstanceServiceIdentity(s)
ConfigStep(s) == UpdateInstanceConfig(s) \/ GetInstanceConfig(s) \/ CacheSet(s)
TemplateStep(s) ==
  \/ \E t \in Templates : DeleteServerTemplate(s, t)
  \/ \E t \in Templates \cup {None}, b \in BOOLEAN : WriteTemplate(s, t, b)
  \/ ClearDefault(s) \/ StoreTemplate(s)

\* Every step is one of these.
LEMMA NextCases ==
  ASSUME [Next]_vars
  PROVE  \/ \E s \in Workers :
              \/ Calm(s) \/ \E a \in Admins : BootstrapClaim(s, a)
              \/ CreateInstanceAdmin(s) \/ AccountStep(s) \/ IdentityStep(s) \/ ConfigStep(s)
              \/ TemplateStep(s) \/ Abandon(s)
         \/ Restart \/ PurgeStaleAdminSessions \/ Tick \/ UNCHANGED vars
BY DEF Next, Calm, AccountStep, IdentityStep, ConfigStep, TemplateStep, Kinds

\* Every step keeps the owners.
LEMMA NextOwner == ASSUME TypeInv, OwnerInv, [Next]_vars PROVE OwnerInv'
<1>1. ASSUME NEW s \in Workers,
             \/ Calm(s) \/ \E a \in Admins : BootstrapClaim(s, a)
             \/ IdentityStep(s) \/ ConfigStep(s) \/ TemplateStep(s) \/ Abandon(s)
      PROVE  OwnerInv'
  <2>1. PICK pcs : "update" \notin pcs /\ Lands(s, pcs) /\ UNCHANGED admin
                   /\ excused \ {"cache"} \subseteq excused'
    <3>1. CASE Calm(s)
      <4>1. "update" \notin CalmPcs
        BY DEF CalmPcs, Kinds, OwnerKinds, AnyKinds
      <4> QED BY <3>1, <4>1, CalmLands
    <3>2. CASE \E a \in Admins : BootstrapClaim(s, a)
      <4>1. Lands(s, {"bootstrap"}) /\ UNCHANGED <<admin, excused>>
        BY <3>2, ClaimLands
      <4> QED BY <4>1
    <3>3. CASE IdentityStep(s)
      <4>1. Lands(s, {"upsert", "session", "idle"}) /\ UNCHANGED admin /\ excused \subseteq excused'
        BY <3>3, IdentityLands DEF IdentityStep
      <4> QED BY <4>1
    <3>4. CASE ConfigStep(s)
      <4>1. Lands(s, {"reload", "cache", "idle"}) /\ UNCHANGED admin
            /\ excused' \ {"cache"} = excused \ {"cache"}
        BY <3>4, ConfigLands DEF ConfigStep
      <4>2. excused \ {"cache"} \subseteq excused'
        BY <4>1
      <4> QED BY <4>1, <4>2
    <3>5. CASE TemplateStep(s)
      <4>1. Lands(s, {"clear", "write", "idle"}) /\ UNCHANGED admin /\ excused \subseteq excused'
        BY <3>5, TemplateLands DEF TemplateStep
      <4> QED BY <4>1
    <3>6. CASE Abandon(s)
      <4>1. Lands(s, {"idle", "session"}) /\ UNCHANGED admin /\ excused \subseteq excused'
        BY <3>6, AbandonLands
      <4> QED BY <4>1
    <3> QED BY <1>1, <3>1, <3>2, <3>3, <3>4, <3>5, <3>6
  <2> QED BY <2>1, OwnerQuiet DEF Lands
<1>2. ASSUME Restart PROVE OwnerInv'
  <2>1. excused \ {"cache"} \subseteq excused'
    BY <1>2, RestartLands
  <2>2. \A w \in Workers : job'[w].pc = "idle"
    BY <1>2, RestartLands, IdleOK
  <2> QED BY <1>2, <2>1, <2>2, RestartLands, OwnerQuiet
<1>3. ASSUME PurgeStaleAdminSessions \/ Tick \/ UNCHANGED vars PROVE OwnerInv'
  BY <1>3, QuietLands, OwnerQuiet
<1>4. ASSUME NEW s \in Workers, CreateInstanceAdmin(s) \/ AccountStep(s) PROVE OwnerInv'
  BY <1>4, OwnerCreate, OwnerPatch, OwnerSafety, OwnerUpdate DEF AccountStep
<1> QED BY <1>1, <1>2, <1>3, <1>4, NextCases

\* There is no account at first.
LEMMA InitOwner == Init => OwnerInv
<1> SUFFICES ASSUME Init PROVE OwnerInv
  OBVIOUS
<1>1. Exists = {}
  BY DEF Init, Exists
<1>2. \A w \in Workers : job[w].pc = "idle"
  BY IdleOK DEF Init
<1> QED BY <1>1, <1>2, FS_EmptySet DEF OwnerInv, OwnerKept

\* For every number of accounts and of requests in flight: an instance that
\* has accounts has an active owner, unless two updates of accounts overlapped.
THEOREM OwnersKept == Spec => []OwnerKept
<1>1. Init => TypeInv /\ OwnerInv
  BY InitTypes, InitOwner
<1>2. TypeInv /\ OwnerInv /\ [Next]_vars => (TypeInv /\ OwnerInv)'
  BY NextTypes, NextOwner
<1>3. OwnerInv => OwnerKept
  BY DEF OwnerInv
<1> QED BY <1>1, <1>2, <1>3, PTL DEF Spec

-----------------------------------------------------------------------------
(***************************************************************************)
(* One claim and one service identity.                                     *)
(***************************************************************************)
\* A step that neither claims nor writes an identity.
LEMMA ClaimQuiet ==
  ASSUME ClaimInv, UNCHANGED <<identity, reported, claims>>, Exists' = Exists,
         excused \ {"cache"} \subseteq excused',
         \A w \in Workers : job'[w].pc \in {"bootstrap", "upsert"} /\ ~job'[w].crossed
                              => job'[w] = job[w]
  PROVE  ClaimInv'
<1>1. ("claim" \notin excused' => "claim" \notin excused)
      /\ ("identity" \notin excused' => "identity" \notin excused)
  OBVIOUS
<1> QED BY <1>1 DEF ClaimInv, BootstrapOnce

\* The claim counts the accounts; the account it makes crosses other claims.
LEMMA ClaimCreate ==
  ASSUME TypeInv, ClaimInv, NEW s \in Workers,
         (\E a \in Admins : BootstrapClaim(s, a)) \/ CreateInstanceAdmin(s)
  PROVE  ClaimInv'
<1>1. ASSUME NEW a \in Admins, BootstrapClaim(s, a) PROVE ClaimInv'
  <2>1. /\ Lands(s, {"bootstrap"}) /\ Exists = {}
        /\ UNCHANGED <<admin, identity, claims, reported, excused>>
    BY <1>1, ClaimLands
  <2>2. Exists' = {}
    BY <2>1 DEF Exists
  <2> QED BY <2>1, <2>2 DEF ClaimInv, BootstrapOnce, Lands
<1>2. CASE CreateInstanceAdmin(s)
  <2>0. /\ job[s].pc \in {"bootstrap", "create"} /\ Lands(s, {"idle", "identity"})
        /\ UNCHANGED <<identity, reported>> /\ excused \subseteq excused'
        /\ claims \in Nat
    BY <1>2, CreateLands DEF TypeInv, TablesOK
  <2>1. CASE UNCHANGED <<admin, claims>>
    <3>1. Exists' = Exists
      BY <2>1 DEF Exists
    <3> QED BY <2>0, <2>1, <3>1, ClaimQuiet DEF Lands
  <2>2. CASE ~ UNCHANGED <<admin, claims>>
    <3> DEFINE a == job[s].who
               r == [role |-> job[s].role, active |-> TRUE]
    <3>1. /\ a \in Admins /\ job[s].role \in Roles /\ admin' = [admin EXCEPT ![a] = r]
          /\ job[s].pc = "bootstrap" => claims' = claims + 1 /\ (job[s].crossed => "claim" \in excused')
          /\ job[s].pc = "create" => claims' = claims
          /\ \A w \in Workers : job'[w].pc = "bootstrap" => job'[w].crossed
      BY <1>2, <2>2, CreateLands
    <3>2. r \in AdminRow
      BY <3>1 DEF AdminRow
    <3> HIDE DEF r
    <3>3. Exists' # {}
      BY <3>1, <3>2, AdminWritten
    <3>4. "claim" \notin excused' => claims' <= 1
      <4>1. CASE job[s].pc = "bootstrap" /\ ~job[s].crossed
        BY <2>0, <3>1, <4>1 DEF ClaimInv
      <4> QED BY <2>0, <3>1, <4>1 DEF ClaimInv, BootstrapOnce
    <3>5. "identity" \notin excused' => reported' \subseteq {identity'}
      BY <2>0 DEF ClaimInv, BootstrapOnce
    <3>6. \A w \in Workers : job'[w].pc = "upsert" /\ ~job'[w].crossed => job'[w] = job[w]
      BY <2>0 DEF Lands
    <3> QED BY <2>0, <3>1, <3>3, <3>4, <3>5, <3>6 DEF ClaimInv, BootstrapOnce
  <2> QED BY <2>1, <2>2
<1> QED BY <1>1, <1>2

\* The identity that is found is the stored one; the first that is stored is
\* the first that is given.
LEMMA ClaimIdentity ==
  ASSUME TypeInv, ClaimInv, NEW s \in Workers, IdentityStep(s)
  PROVE  ClaimInv'
<1>0. /\ Lands(s, {"upsert", "session", "idle"}) /\ UNCHANGED <<admin, claims>>
      /\ excused \subseteq excused' /\ identity \in Nat
  BY IdentityLands DEF IdentityStep, TypeInv, TablesOK
<1>1. /\ Exists' = {} => claims' = 0
      /\ \A w \in Workers : job'[w].pc = "bootstrap" /\ ~job'[w].crossed => Exists' = {}
      /\ "claim" \notin excused' => claims' <= 1
  <2>1. Exists' = Exists
    BY <1>0 DEF Exists
  <2> QED BY <1>0, <2>1 DEF ClaimInv, BootstrapOnce, Lands
<1>2. CASE EnsureServiceIdentity(s) /\ identity # 0
  <2>1. job' = [job EXCEPT ![s] = AfterIdentity(s)] /\ reported' = reported \cup {identity}
        /\ UNCHANGED <<identity, excused>>
    BY <1>2 DEF EnsureServiceIdentity, tables
  <2>2. job'[s].pc # "upsert"
    BY <2>1, LandsBy, LandsAfter
  <2>3. \A w \in Workers : job'[w].pc = "upsert" /\ ~job'[w].crossed => identity' = 0
    BY <1>0, <2>1, <2>2 DEF ClaimInv, Lands
  <2> QED BY <1>1, <1>2, <2>1, <2>3 DEF ClaimInv, BootstrapOnce
<1>3. CASE EnsureServiceIdentity(s) /\ identity = 0
  <2>1. UNCHANGED <<identity, reported, excused>>
    BY <1>3 DEF EnsureServiceIdentity, tables
  <2> QED BY <1>1, <1>3, <2>1 DEF ClaimInv, BootstrapOnce
<1>4. CASE UpsertInstanceServiceIdentity(s)
  <2>1. /\ job[s].pc = "upsert" /\ identity' = job[s].read
        /\ reported' = reported \cup {job[s].read}
        /\ Crossing(s, AfterIdentity(s), {"upsert"}) /\ Excuse(s, "identity")
    BY <1>4 DEF UpsertInstanceServiceIdentity, At
  <2>2. job[s].read \in Nat /\ job[s].read > 0
    BY <2>1 DEF TypeInv, JobsOK, JobOK, Job
  <2>3. \A w \in Workers : job'[w].pc = "upsert" => job'[w].crossed
    BY <2>1, LandsBy, LandsAfter DEF Lands
  <2>4. "identity" \notin excused' => reported' \subseteq {identity'}
    <3>1. "identity" \notin excused' => ~job[s].crossed
      BY <2>1 DEF Excuse
    <3> QED BY <2>1, <3>1 DEF ClaimInv
  <2> QED BY <1>1, <2>1, <2>2, <2>3, <2>4 DEF ClaimInv, BootstrapOnce
<1> QED BY <1>2, <1>3, <1>4 DEF IdentityStep

\* Every step keeps the claims.
LEMMA NextClaim == ASSUME TypeInv, ClaimInv, [Next]_vars PROVE ClaimInv'
<1>1. ASSUME NEW s \in Workers,
             Calm(s) \/ AccountStep(s) \/ ConfigStep(s) \/ TemplateStep(s) \/ Abandon(s)
      PROVE  ClaimInv'
  <2>1. PICK pcs : /\ "bootstrap" \notin pcs /\ "upsert" \notin pcs /\ Lands(s, pcs)
                   /\ UNCHANGED <<identity, reported, claims>> /\ Exists' = Exists
                   /\ excused \ {"cache"} \subseteq excused'
    <3>0. UNCHANGED admin => Exists' = Exists
      BY DEF Exists
    <3>1. CASE Calm(s)
      <4>1. "bootstrap" \notin CalmPcs /\ "upsert" \notin CalmPcs
        BY DEF CalmPcs, Kinds, OwnerKinds, AnyKinds
      <4> QED BY <3>0, <3>1, <4>1, CalmLands
    <3>2. CASE AccountStep(s)
      <4>1. Lands(s, {"update", "safety", "idle"}) /\ UNCHANGED <<identity, reported, claims>>
            /\ Exists' = Exists /\ excused \subseteq excused'
        BY <3>2, AccountLands DEF AccountStep
      <4> QED BY <4>1
    <3>4. CASE ConfigStep(s)
      <4>1. Lands(s, {"reload", "cache", "idle"}) /\ UNCHANGED <<admin, identity, reported, claims>>
            /\ excused' \ {"cache"} = excused \ {"cache"}
        BY <3>4, ConfigLands DEF ConfigStep
      <4>2. excused \ {"cache"} \subseteq excused'
        BY <4>1
      <4> QED BY <3>0, <4>1, <4>2
    <3>5. CASE TemplateStep(s)
      <4>1. Lands(s, {"clear", "write", "idle"}) /\ UNCHANGED <<admin, identity, reported, claims>>
            /\ excused \subseteq excused'
        BY <3>5, TemplateLands DEF TemplateStep
      <4> QED BY <3>0, <4>1
    <3>6. CASE Abandon(s)
      <4>1. Lands(s, {"idle", "session"}) /\ UNCHANGED <<admin, identity, reported, claims>>
            /\ excused \subseteq excused'
        BY <3>6, AbandonLands
      <4> QED BY <3>0, <4>1
    <3> QED BY <1>1, <3>1, <3>2, <3>4, <3>5, <3>6
  <2> QED BY <2>1, ClaimQuiet DEF Lands
<1>2. ASSUME Restart PROVE ClaimInv'
  <2>1. excused \ {"cache"} \subseteq excused' /\ Exists' = Exists
    BY <1>2, RestartLands DEF Exists
  <2>2. \A w \in Workers : job'[w].pc = "idle"
    BY <1>2, RestartLands, IdleOK
  <2> QED BY <1>2, <2>1, <2>2, RestartLands, ClaimQuiet
<1>3. ASSUME PurgeStaleAdminSessions \/ Tick \/ UNCHANGED vars PROVE ClaimInv'
  BY <1>3, QuietLands, ClaimQuiet DEF Exists
<1> QED BY <1>1, <1>2, <1>3, ClaimCreate, ClaimIdentity, NextCases

\* Nothing is claimed at first.
LEMMA InitClaim == Init => ClaimInv
<1> SUFFICES ASSUME Init PROVE ClaimInv
  OBVIOUS
<1>1. \A w \in Workers : job[w].pc = "idle"
  BY IdleOK DEF Init
<1> QED BY <1>1 DEF Init, ClaimInv, BootstrapOnce

\* For every number of requests in flight: one claim makes an account and one
\* service identity is given out, unless requests that found none overlapped.
THEOREM BootstrappedOnce == Spec => []BootstrapOnce
<1>1. Init => TypeInv /\ ClaimInv
  BY InitTypes, InitClaim
<1>2. TypeInv /\ ClaimInv /\ [Next]_vars => (TypeInv /\ ClaimInv)'
  BY NextTypes, NextClaim
<1>3. ClaimInv => BootstrapOnce
  BY DEF ClaimInv
<1> QED BY <1>1, <1>2, <1>3, PTL DEF Spec

-----------------------------------------------------------------------------
(***************************************************************************)
(* The configuration's cache and the default template.                     *)
(***************************************************************************)
\* A step that is none of a configuration update.
LEMMA CacheQuiet ==
  ASSUME CacheInv, UNCHANGED <<config, cache>>, NEW s \in Workers, NEW pcs,
         "cache" \notin pcs, Lands(s, pcs),
         "cache" \in excused => "cache" \in excused',
         job[s].pc \notin {"reload", "cache"} \/ "cache" \in excused'
  PROVE  CacheInv'
BY DEF CacheInv, Busy, Lands

\* updateConfig: a later update crosses the refreshes that hold an older row.
LEMMA CacheConfig ==
  ASSUME TypeInv, CacheInv, NEW s \in Workers, ConfigStep(s)
  PROVE  CacheInv'
<1>0. job[s] \in Job
  BY DEF TypeInv, JobsOK
<1>1. CASE UpdateInstanceConfig(s)
  <2> DEFINE j == [job[s] EXCEPT !.pc = "reload"]
  <2>1. Crossing(s, j, {"cache"}) /\ UNCHANGED <<cache, excused>>
    BY <1>1 DEF UpdateInstanceConfig, history
  <2>2. j.pc = "reload"
    BY <1>0 DEF Job
  <2> HIDE DEF j
  <2>3. job'[s].pc = "reload" /\ \A w \in Workers \ {s} : job'[w].pc = "cache" => job'[w].crossed
    BY <2>1, <2>2, LandsBy DEF Lands
  <2> QED BY <2>3 DEF CacheInv, Busy
<1>2. CASE GetInstanceConfig(s)
  <2> DEFINE j == [job[s] EXCEPT !.pc = "cache", !.read = config]
  <2>1. UNCHANGED <<config, cache>>
    BY <1>2 DEF GetInstanceConfig, tables
  <2>2. CASE job' = [job EXCEPT ![s] = j]
    <3>1. j.pc = "cache" /\ j.read = config
      BY <1>0 DEF Job
    <3> HIDE DEF j
    <3>2. job'[s].pc = "cache" /\ job'[s].read = config /\ Lands(s, {"cache"})
      BY <2>2, <3>1, LandsBy
    <3> QED BY <2>1, <3>2 DEF CacheInv, Busy, Lands
  <2>3. CASE Done(s) /\ "cache" \in excused'
    <3>1. Lands(s, {"idle"})
      BY <2>3, LandsDone
    <3> QED BY <2>1, <2>3, <3>1, CacheQuiet
  <2> QED BY <1>2, <2>2, <2>3 DEF GetInstanceConfig
<1>3. CASE CacheSet(s)
  <2>1. /\ job[s].pc = "cache" /\ cache' = job[s].read /\ config' = config
        /\ job[s].crossed => "cache" \in excused'
    BY <1>3 DEF CacheSet, At
  <2>2. Lands(s, {"idle"})
    BY <1>3, LandsDone DEF CacheSet
  <2> QED BY <2>1, <2>2 DEF CacheInv, Lands
<1> QED BY <1>1, <1>2, <1>3 DEF ConfigStep

\* Every step keeps what is known of the cache.
LEMMA NextCache == ASSUME TypeInv, CacheInv, [Next]_vars PROVE CacheInv'
<1>1. ASSUME NEW s \in Workers,
             \/ Calm(s) \/ \E a \in Admins : BootstrapClaim(s, a)
             \/ CreateInstanceAdmin(s) \/ AccountStep(s) \/ IdentityStep(s) \/ TemplateStep(s)
             \/ Abandon(s)
      PROVE  CacheInv'
  <2>1. PICK pcs : /\ "cache" \notin pcs /\ Lands(s, pcs) /\ UNCHANGED <<config, cache>>
                   /\ "cache" \in excused => "cache" \in excused'
                   /\ job[s].pc \notin {"reload", "cache"} \/ "cache" \in excused'
    <3>1. CASE Calm(s)
      <4>1. "cache" \notin CalmPcs
        BY DEF CalmPcs, Kinds, OwnerKinds, AnyKinds
      <4> QED BY <3>1, <4>1, CalmLands
    <3>2. CASE \E a \in Admins : BootstrapClaim(s, a)
      <4>1. Lands(s, {"bootstrap"}) /\ UNCHANGED <<config, cache, excused>> /\ job[s].pc = "idle"
        BY <3>2, ClaimLands
      <4> QED BY <4>1
    <3>3. CASE CreateInstanceAdmin(s)
      <4>1. Lands(s, {"idle", "identity"}) /\ UNCHANGED <<config, cache>> /\ excused \subseteq excused'
            /\ job[s].pc \in {"bootstrap", "create"}
        BY <3>3, CreateLands
      <4> QED BY <4>1
    <3>4. CASE AccountStep(s)
      <4>1. Lands(s, {"update", "safety", "idle"}) /\ UNCHANGED <<config, cache>>
            /\ job[s].pc \in {"patch", "safety", "update"} /\ excused \subseteq excused'
        BY <3>4, AccountLands DEF AccountStep
      <4> QED BY <4>1
    <3>5. CASE IdentityStep(s)
      <4>1. Lands(s, {"upsert", "session", "idle"}) /\ UNCHANGED <<config, cache>>
            /\ job[s].pc \in {"identity", "provision", "upsert"} /\ excused \subseteq excused'
        BY <3>5, IdentityLands DEF IdentityStep
      <4> QED BY <4>1
    <3>6. CASE TemplateStep(s)
      <4>1. Lands(s, {"clear", "write", "idle"}) /\ UNCHANGED <<config, cache>>
            /\ job[s].pc \in {"deleteTemplate", "template", "clear", "write"} /\ excused \subseteq excused'
        BY <3>6, TemplateLands DEF TemplateStep
      <4> QED BY <4>1
    <3>7. CASE Abandon(s)
      <4>1. Lands(s, {"idle", "session"}) /\ UNCHANGED <<config, cache>> /\ excused \subseteq excused'
            /\ (job[s].pc \in {"reload", "cache"} => "cache" \in excused')
        BY <3>7, AbandonLands
      <4> QED BY <4>1
    <3> QED BY <1>1, <3>1, <3>2, <3>3, <3>4, <3>5, <3>6, <3>7
  <2> QED BY <2>1, CacheQuiet
<1>2. ASSUME Restart PROVE CacheInv'
  <2>1. \A w \in Workers : job'[w].pc = "idle"
    BY <1>2, RestartLands, IdleOK
  <2> QED BY <1>2, <2>1, RestartLands DEF CacheInv
<1>3. ASSUME PurgeStaleAdminSessions \/ Tick \/ UNCHANGED vars PROVE CacheInv'
  BY <1>3, QuietLands DEF CacheInv, Busy
<1> QED BY <1>1, <1>2, <1>3, CacheConfig, NextCases

\* No new default, and no new job that holds one.
LEMMA DefaultQuiet ==
  ASSUME DefaultInv, excused \ {"cache"} \subseteq excused',
         \A t \in Templates : template'[t] = "default" => template[t] = "default",
         \A w \in Workers : job'[w].pc = "write" /\ job'[w].active /\ ~job'[w].crossed
                              => job'[w] = job[w]
  PROVE  DefaultInv'
<1>1. "default" \notin excused' => "default" \notin excused
  OBVIOUS
<1> QED BY <1>1 DEF DefaultInv, IsDefault

\* The others are cleared, then the row is written; what another request
\* wrote in between crosses it.
LEMMA DefaultTemplate ==
  ASSUME TypeInv, DefaultInv, NEW s \in Workers, TemplateStep(s)
  PROVE  DefaultInv'
<1>0. /\ job[s] \in Job /\ Lands(s, {"clear", "write", "idle"}) /\ excused \subseteq excused'
      /\ template \in [Templates -> {None, "plain", "default"}]
  BY TemplateLands DEF TemplateStep, TypeInv, JobsOK, TablesOK
<1>1. ASSUME NEW t \in Templates, DeleteServerTemplate(s, t) PROVE DefaultInv'
  <2>1. template' = [template EXCEPT ![t] = None] /\ Done(s)
    BY <1>1 DEF DeleteServerTemplate
  <2>2. Lands(s, {"idle"})
    BY <2>1, LandsDone
  <2>3. \A u \in Templates : template'[u] = "default" => template[u] = "default"
    BY <1>0, <2>1, AdminAssumption
  <2> QED BY <1>0, <2>2, <2>3, DefaultQuiet DEF Lands
<1>2. ASSUME NEW t \in Templates \cup {None}, NEW b \in BOOLEAN, WriteTemplate(s, t, b)
      PROVE  DefaultInv'
  <2> DEFINE pc == IF b THEN "clear" ELSE "write"
             j == [job[s] EXCEPT !.row = t, !.active = b, !.pc = pc]
  <2>1. job' = [job EXCEPT ![s] = j] /\ UNCHANGED template
    BY <1>2 DEF WriteTemplate, tables
  <2>2. pc = "write" => ~b
    OBVIOUS
  <2> HIDE DEF pc
  <2>3. j.pc = pc /\ j.active = b
    BY <1>0 DEF Job
  <2> HIDE DEF j
  <2>4. job'[s] = j
    BY <2>1, LandsBy
  <2> QED BY <1>0, <2>1, <2>2, <2>3, <2>4, DefaultQuiet DEF Lands
<1>3. CASE ClearDefault(s)
  <2> DEFINE j == [job[s] EXCEPT !.pc = "write"]
  <2>1. /\ template' = [t \in Templates |->
                          IF template[t] = "default" /\ t # job[s].row THEN "plain" ELSE template[t]]
        /\ job' = [job EXCEPT ![s] = j] /\ UNCHANGED excused
    BY <1>3 DEF ClearDefault, Goto, history
  <2>2. j.row = job[s].row
    BY <1>0 DEF Job
  <2> HIDE DEF j
  <2>3. job'[s] = j /\ Lands(s, {j.pc})
    BY <2>1, LandsBy
  <2>4. \A t \in Templates : template'[t] = "default" => template[t] = "default" /\ t = job[s].row
    BY <2>1
  <2> QED BY <2>1, <2>2, <2>3, <2>4 DEF DefaultInv, IsDefault, Lands
<1>4. CASE StoreTemplate(s) /\ job[s].active
  <2> DEFINE j == job[s]
             written == {t \in Templates : IF j.row = None THEN template[t] = None
                                           ELSE t = j.row /\ template[t] # None}
  <2>1. /\ j.pc = "write" /\ Crossing(s, Idle, {"write"}) /\ Excuse(s, "default")
        /\ \/ UNCHANGED template
           \/ \E t \in written : template' = [template EXCEPT ![t] = "default"]
    BY <1>4 DEF StoreTemplate, At
  <2>2. \A w \in Workers : job'[w].pc = "write" => job'[w].crossed
    BY <2>1, LandsBy, IdleOK DEF Lands
  <2>3. SUFFICES ASSUME "default" \notin excused'
                 PROVE  \A t, u \in Templates :
                          template'[t] = "default" /\ template'[u] = "default" => t = u
    BY <2>2 DEF DefaultInv, IsDefault
  <2>4. "default" \notin excused /\ ~j.crossed
    BY <2>1, <2>3 DEF Excuse
  <2>5. \A t \in Templates : template[t] = "default" => t = j.row
    BY <1>4, <2>1, <2>4 DEF DefaultInv, IsDefault
  <2>6. CASE UNCHANGED template
    BY <2>5, <2>6
  <2>7. ASSUME NEW t \in written, template' = [template EXCEPT ![t] = "default"]
        PROVE  \A u \in Templates : template'[u] = "default" => u = t
    BY <1>0, <2>5, <2>7, AdminAssumption
  <2> QED BY <2>1, <2>6, <2>7
<1>5. CASE StoreTemplate(s) /\ ~job[s].active
  <2>1. /\ Done(s)
        /\ UNCHANGED template \/ \E t \in Templates : template' = [template EXCEPT ![t] = "plain"]
    BY <1>5 DEF StoreTemplate
  <2>2. Lands(s, {"idle"})
    BY <2>1, LandsDone
  <2>3. \A u \in Templates : template'[u] = "default" => template[u] = "default"
    BY <1>0, <2>1
  <2> QED BY <1>0, <2>2, <2>3, DefaultQuiet DEF Lands
<1> QED BY <1>1, <1>2, <1>3, <1>4, <1>5 DEF TemplateStep

\* Every step keeps what is known of the defaults.
LEMMA NextDefault == ASSUME TypeInv, DefaultInv, [Next]_vars PROVE DefaultInv'
<1>1. ASSUME NEW s \in Workers,
             \/ Calm(s) \/ \E a \in Admins : BootstrapClaim(s, a)
             \/ CreateInstanceAdmin(s) \/ AccountStep(s) \/ IdentityStep(s) \/ ConfigStep(s)
             \/ Abandon(s)
      PROVE  DefaultInv'
  <2>1. PICK pcs : /\ "write" \notin pcs /\ Lands(s, pcs) /\ UNCHANGED template
                   /\ excused \ {"cache"} \subseteq excused'
    <3>1. CASE Calm(s)
      <4>1. "write" \notin CalmPcs
        BY DEF CalmPcs, Kinds, OwnerKinds, AnyKinds
      <4> QED BY <3>1, <4>1, CalmLands
    <3>2. CASE \E a \in Admins : BootstrapClaim(s, a)
      <4>1. Lands(s, {"bootstrap"}) /\ UNCHANGED <<template, excused>>
        BY <3>2, ClaimLands
      <4> QED BY <4>1
    <3>3. CASE CreateInstanceAdmin(s)
      <4>1. Lands(s, {"idle", "identity"}) /\ UNCHANGED template /\ excused \subseteq excused'
        BY <3>3, CreateLands
      <4> QED BY <4>1
    <3>4. CASE AccountStep(s)
      <4>1. Lands(s, {"update", "safety", "idle"}) /\ UNCHANGED template /\ excused \subseteq excused'
        BY <3>4, AccountLands DEF AccountStep
      <4> QED BY <4>1
    <3>5. CASE IdentityStep(s)
      <4>1. Lands(s, {"upsert", "session", "idle"}) /\ UNCHANGED template /\ excused \subseteq excused'
        BY <3>5, IdentityLands DEF IdentityStep
      <4> QED BY <4>1
    <3>6. CASE ConfigStep(s)
      <4>1. Lands(s, {"reload", "cache", "idle"}) /\ UNCHANGED template
            /\ excused' \ {"cache"} = excused \ {"cache"}
        BY <3>6, ConfigLands DEF ConfigStep
      <4>2. excused \ {"cache"} \subseteq excused'
        BY <4>1
      <4> QED BY <4>1, <4>2
    <3>7. CASE Abandon(s)
      <4>1. Lands(s, {"idle", "session"}) /\ UNCHANGED template /\ excused \subseteq excused'
        BY <3>7, AbandonLands
      <4> QED BY <4>1
    <3> QED BY <1>1, <3>1, <3>2, <3>3, <3>4, <3>5, <3>6, <3>7
  <2> QED BY <2>1, DefaultQuiet DEF Lands
<1>2. ASSUME Restart PROVE DefaultInv'
  <2>1. excused \ {"cache"} \subseteq excused' /\ UNCHANGED template
    BY <1>2, RestartLands
  <2>2. \A w \in Workers : job'[w].pc = "idle"
    BY <1>2, RestartLands, IdleOK
  <2> QED BY <2>1, <2>2, DefaultQuiet
<1>3. ASSUME PurgeStaleAdminSessions \/ Tick \/ UNCHANGED vars PROVE DefaultInv'
  BY <1>3, QuietLands, DefaultQuiet
<1> QED BY <1>1, <1>2, <1>3, DefaultTemplate, NextCases

\* The schema brings one default template, and the cache is the row.
LEMMA InitSettings == Init => CacheInv /\ DefaultInv
<1> SUFFICES ASSUME Init PROVE CacheInv /\ DefaultInv
  OBVIOUS
<1>1. \A w \in Workers : job[w].pc = "idle"
  BY IdleOK DEF Init
<1>2. PICK t \in Templates : template = [x \in Templates |-> IF x = t THEN "default" ELSE None]
  BY DEF Init
<1>3. \A u \in Templates : IsDefault(u) => u = t
  BY <1>2, AdminAssumption DEF IsDefault
<1> QED BY <1>1, <1>3 DEF Init, CacheInv, DefaultInv

\* At most one default, as SettingsAgree counts them.
LEMMA SettingsFollow == CacheInv /\ DefaultInv => SettingsAgree
<1> SUFFICES ASSUME CacheInv, DefaultInv PROVE SettingsAgree
  OBVIOUS
<1>1. ASSUME "default" \notin excused
      PROVE  Cardinality({t \in Templates : template[t] = "default"}) <= 1
  <2> DEFINE D == {t \in Templates : template[t] = "default"}
  <2>1. CASE D = {}
    BY <2>1, FS_EmptySet
  <2>2. CASE D # {}
    <3>1. PICK t : t \in D
      BY <2>2
    <3>2. \A u \in D : u = t
      BY <1>1, <3>1 DEF DefaultInv, IsDefault
    <3> HIDE DEF D
    <3>3. D = {t}
      BY <3>1, <3>2
    <3>4. Cardinality(D) = 1
      BY <3>3, FS_Singleton
    <3> QED BY <3>4 DEF D
  <2> QED BY <2>1, <2>2
<1> QED BY <1>1 DEF SettingsAgree, CacheInv, Busy

\* For every number of templates and of requests in flight: the cache is the
\* stored configuration when no update is being carried out, and at most one
\* template is the default, unless a refresh failed or requests overlapped.
THEOREM SettingsKept == Spec => []SettingsAgree
<1> DEFINE I == TypeInv /\ CacheInv /\ DefaultInv
<1>1. Init => I
  BY InitTypes, InitSettings
<1>2. I /\ [Next]_vars => I'
  BY NextTypes, NextCache, NextDefault
<1>3. I => SettingsAgree
  BY SettingsFollow
<1> QED BY <1>1, <1>2, <1>3, PTL DEF Spec
=============================================================================
