---------------------------- MODULE SessionProofs ----------------------------
(***************************************************************************)
(* Proofs about Session.  TypeInv types the tables and says what the job   *)
(* of a request holds at each of its steps (JobOK).  The lemmas named      *)
(* Moves say, once for each step, where the job goes and what the step     *)
(* writes; Kept is what all of them have in common: a session that was     *)
(* deleted and a ban that is over stay so.  On them rest one invariant for *)
(* each of the four properties:                                            *)
(*   - NonceInv follows a challenge from its row to the job that consumed  *)
(*     it and to the session made from it, at each point the only holder;  *)
(*   - RevokedIsCut is inductive by itself;                                *)
(*   - BanInv says which sessions a ban deleted (Swept, or Cleared when it *)
(*     is about to be stored; none when the deletion failed), and which    *)
(*     bans a login or a session had seen to be over;                      *)
(*   - AdmissionInv counts the requests that hold a use of the invite.     *)
(***************************************************************************)
EXTENDS Session, FiniteSetTheorems, TLAPS

SessionRow == [user : Users, dev : Devices \cup {None}, live : BOOLEAN, expires : Nat,
               nonce : Nonces \cup {None}, foreign : BOOLEAN, seen : Nat]
BanRow == [user : Users, until : Nat, lifted : BOOLEAN, swept : Nat, unswept : BOOLEAN]
ConnRow == [user : Users, dev : Devices \cup {None}, sess : Nat, late : BOOLEAN, spared : BOOLEAN,
            stranded : BOOLEAN, closers : SUBSET Workers]
NonceRow == [key : Users, expires : Nat]
RegisterPcs == {"invite", "lookup", "create"}
CutPcs == {"cut", "closing"}
SessionPcs == AuthedKinds \cup {"authDevice", "cut", "closing"}
Pcs == RegisterPcs \cup SessionPcs
         \cup {"idle", "device", "account", "ban", "backfill", "session", "banInsert", "lift"}
Job == [pc : Pcs, user : Users \cup {None}, name : Names \cup {None}, dev : Devices \cup {None},
        nonce : Nonces \cup {None}, foreign : BOOLEAN, kind : AuthedKinds \cup {None},
        invited : BOOLEAN, seen : Nat, sess : Nat, unswept : BOOLEAN]

\* What a job's record holds at each of its steps, given the sessions and bans
\* there are.
JobOK(j, sessions, bans) ==
  /\ j \in Job
  /\ j.pc # "idle" => j.user \in Users
  /\ j.pc \in RegisterPcs => j.name \in Names
  /\ j.pc \in SessionPcs => j.sess \in DOMAIN sessions /\ sessions[j.sess].user = j.user
  /\ j.pc = "authDevice" => j.kind \in AuthedKinds
  /\ j.pc = "lift" => j.seen \in DOMAIN bans
  /\ j.pc \in RegisterPcs \cup {"device", "account", "ban"} => j.seen = 0
  /\ j.invited => j.pc \in RegisterPcs
  /\ ~j.foreign

TablesOK ==
  /\ now \in Nat /\ uses \in Nat /\ admitted \in Nat
  /\ name \in [Users -> Names \cup {None}]
  /\ nonce \in [Nonces -> NonceRow \cup {None}]
  /\ asked \in [Nonces -> Users \cup {None}]
  /\ device \in [Users -> SUBSET Devices]
  /\ session \in Seq(SessionRow) /\ ban \in Seq(BanRow)
  /\ conn \subseteq ConnRow
  /\ timer \in [Users -> Nat]

ConnsOK == \A c \in conn : c.sess \in DOMAIN session /\ session[c.sess].user = c.user

JobsOK ==
  /\ job \in [Workers -> Job]
  /\ \A w \in Workers : JobOK(job[w], session, ban)

TypeInv == TablesOK /\ ConnsOK /\ JobsOK

\* The sessions that a ban deleted, and those that a ban about to be stored did:
\* all up to this one.
Swept(b) == IF b.unswept THEN 0 ELSE b.swept
Cleared(j) == IF j.unswept THEN 0 ELSE j.seen

\* Nothing that ended begins again: sessions and bans stay numbered and keep
\* whom and what they were made for; a session that was deleted and a ban that
\* was lifted or has run out remain so.
InForce(b) == ~ban[b].lifted /\ ban[b].until > now
Kept ==
  /\ DOMAIN session \subseteq DOMAIN session'
  /\ \A i \in DOMAIN session :
       /\ session'[i].user = session[i].user /\ session'[i].nonce = session[i].nonce
       /\ session'[i].foreign = session[i].foreign /\ session'[i].seen = session[i].seen
       /\ session'[i].live => session[i].live
  /\ DOMAIN ban \subseteq DOMAIN ban'
  /\ \A b \in DOMAIN ban :
       /\ ban'[b].user = ban[b].user /\ Swept(ban'[b]) = Swept(ban[b])
       /\ InForce(b)' => InForce(b)

\* Job k may follow job j and none of the invariants below notices.
Follows(j, k) ==
  /\ k.nonce # None => k.nonce = j.nonce /\ k.user = j.user
  /\ k.pc \in {"backfill", "session"} =>
       k.seen = 0 \/ (j.pc = "backfill" /\ k.seen = j.seen /\ k.user = j.user)
  /\ k.pc # "banInsert"
  /\ k.invited /\ k.pc # "invite" => j.invited /\ j.pc # "invite"
  /\ j.pc \notin CutPcs

Moves(s, k) == job' = [job EXCEPT ![s] = k] /\ JobOK(k, session', ban')

\* A worker without a request.
LEMMA IdleOK ==
  ASSUME NEW S, NEW B
  PROVE  /\ JobOK(Idle, S, B) /\ Idle.pc = "idle" /\ Idle.nonce = None /\ ~Idle.invited
         /\ \A j : j.pc \notin CutPcs => Follows(j, Idle)
<1>1. JobOK(Idle, S, B) /\ Idle.pc = "idle" /\ Idle.nonce = None /\ ~Idle.invited
  BY DEF JobOK, Job, Idle, Pcs, RegisterPcs, SessionPcs, AuthedKinds
<1> QED BY <1>1 DEF Follows, CutPcs

\* One job is replaced, the others stay as they should be.
LEMMA JobsStay ==
  ASSUME TypeInv, NEW s \in Workers, NEW k, Moves(s, k), Kept
  PROVE  JobsOK'
<1>1. job \in [Workers -> Job] /\ \A w \in Workers : JobOK(job[w], session, ban)
  BY DEF TypeInv, JobsOK
<1>2. job' \in [Workers -> Job] /\ job'[s] = k /\ \A w \in Workers \ {s} : job'[w] = job[w]
  BY <1>1 DEF Moves, JobOK
<1>3. ASSUME NEW w \in Workers \ {s} PROVE JobOK(job[w], session', ban')
  BY <1>1 DEF JobOK, Kept
<1> QED BY <1>2, <1>3 DEF JobsOK, Moves

\* The connections stay tied to the sessions they were opened with.
LEMMA ConnsStay == ASSUME TypeInv, Kept, conn' \subseteq conn PROVE ConnsOK'
BY DEF TypeInv, ConnsOK, Kept

\* Steps that leave sessions, bans and the clock alone.
LEMMA KeptSame == ASSUME UNCHANGED <<session, ban, now>> PROVE Kept
BY DEF Kept, InForce

\* The sessions that are deleted.
LEMMA KeptDelete ==
  ASSUME TypeInv, NEW S, DeleteSessions(S), UNCHANGED <<ban, now>>
  PROVE  /\ Kept /\ session' \in Seq(SessionRow) /\ DOMAIN session' = DOMAIN session
         /\ \A i \in DOMAIN session \cap S : ~session'[i].live
<1>1. session \in Seq(SessionRow)
  BY DEF TypeInv, TablesOK
<1>2. ASSUME NEW i \in DOMAIN session
      PROVE  /\ session'[i] \in SessionRow
             /\ session'[i].user = session[i].user /\ session'[i].nonce = session[i].nonce
             /\ session'[i].foreign = session[i].foreign /\ session'[i].seen = session[i].seen
             /\ session'[i].live => session[i].live
             /\ i \in S => ~session'[i].live
  <2>1. session[i] \in SessionRow
    BY <1>1
  <2>2. session'[i] = IF i \in S THEN [session[i] EXCEPT !.live = FALSE] ELSE session[i]
    BY DEF DeleteSessions
  <2> QED BY <2>1, <2>2 DEF SessionRow
<1>3. session' \in Seq(SessionRow) /\ DOMAIN session' = DOMAIN session
  BY <1>1, <1>2 DEF DeleteSessions
<1> QED BY <1>2, <1>3 DEF Kept, InForce

\* A job that moves to another step, and one that ends.
LEMMA GotoJob ==
  ASSUME TypeInv, NEW s \in Workers, NEW pc \in Pcs, Goto(s, pc)
  PROVE  \E k \in Job :
           /\ job' = [job EXCEPT ![s] = k] /\ k.pc = pc /\ k.user = job[s].user
           /\ k.name = job[s].name /\ k.dev = job[s].dev /\ k.nonce = job[s].nonce
           /\ k.foreign = job[s].foreign /\ k.kind = job[s].kind
           /\ k.invited = job[s].invited /\ k.seen = job[s].seen /\ k.sess = job[s].sess
<1> DEFINE k == [job[s] EXCEPT !.pc = pc]
<1>1. job[s] \in Job
  BY DEF TypeInv, JobsOK
<1>2. /\ k \in Job /\ k.pc = pc /\ k.user = job[s].user
      /\ k.name = job[s].name /\ k.dev = job[s].dev /\ k.nonce = job[s].nonce
      /\ k.foreign = job[s].foreign /\ k.kind = job[s].kind
      /\ k.invited = job[s].invited /\ k.seen = job[s].seen /\ k.sess = job[s].sess
  BY <1>1 DEF Job
<1>3. job' = [job EXCEPT ![s] = k]
  BY DEF Goto
<1> HIDE DEF k
<1> QED BY <1>2, <1>3

\* A request that ends.
LEMMA DoneJob ==
  ASSUME NEW s, Done(s) PROVE Moves(s, Idle)
BY IdleOK DEF Done, Moves

\* The requests and steps that read and write nothing but their job.
Reading(s) ==
  \/ \E u \in Users, n \in Names, d \in Devices, m \in Modes : Register(s, u, n, d, m)
  \/ LookupRootKey(s) \/ VerifyAccount(s)
  \/ \E i \in DOMAIN session, k \in AuthedKinds, d \in Devices : RequireSession(s, i, k, d)
  \/ RequireDevice(s) \/ (\E u \in Users : InstanceUnban(s, u)) \/ Abandon(s)

\* They leave every table as it is and keep what the job has found out.
LEMMA ReadingMoves ==
  ASSUME TypeInv, NEW s \in Workers, Reading(s)
  PROVE  /\ UNCHANGED <<now, name, uses, asked, admitted, nonce, device, session, ban, conn, timer>>
         /\ \E k : Moves(s, k) /\ Follows(job[s], k)
<1>0. /\ job[s] \in Job /\ JobOK(job[s], session, ban) /\ ban \in Seq(BanRow)
      /\ session \in Seq(SessionRow)
  BY DEF TypeInv, TablesOK, JobsOK
<1>1. UNCHANGED <<now, name, uses, asked, admitted, nonce, device, session, ban, conn, timer>>
  BY DEF Reading, Register, LookupRootKey, VerifyAccount, RequireSession, RequireDevice,
         InstanceUnban, Abandon, accounts
<1>2. ASSUME Done(s), job[s].pc \notin CutPcs PROVE \E k : Moves(s, k) /\ Follows(job[s], k)
  BY <1>2, DoneJob, IdleOK
<1>3. ASSUME NEW u \in Users, NEW n \in Names, NEW d \in Devices, NEW m \in Modes,
             Register(s, u, n, d, m)
      PROVE  \E k : Moves(s, k) /\ Follows(job[s], k)
  <2> DEFINE pc == IF m = "open" THEN "lookup" ELSE "invite"
             inv == m = "invite_only"
             k == [Idle EXCEPT !.pc = pc, !.user = u, !.name = n, !.dev = d, !.invited = inv]
  <2>1. job[s] = Idle /\ job' = [job EXCEPT ![s] = k]
    BY <1>3 DEF Register, Start
  <2>2. pc \in {"lookup", "invite"} /\ inv \in BOOLEAN /\ (inv => pc = "invite")
    OBVIOUS
  <2> HIDE DEF pc, inv
  <2>3. /\ k \in Job /\ k.pc = pc /\ k.user = u /\ k.name = n /\ k.nonce = None /\ k.seen = 0
        /\ k.invited = inv /\ ~k.foreign
    BY <2>2 DEF Job, Idle, Pcs, RegisterPcs
  <2> HIDE DEF k
  <2>4. JobOK(k, session, ban)
    BY <2>2, <2>3 DEF JobOK, RegisterPcs, SessionPcs, AuthedKinds
  <2>5. Follows(job[s], k)
    BY <2>1, <2>2, <2>3, IdleOK DEF Follows, CutPcs
  <2> QED BY <1>1, <2>1, <2>4, <2>5 DEF Moves
<1>4. CASE LookupRootKey(s)
  <2>0. job[s].pc = "lookup"
    BY <1>4 DEF LookupRootKey, At
  <2>1. CASE GotoDevice(s)
    <3> DEFINE k == [job[s] EXCEPT !.pc = "device", !.name = None, !.invited = FALSE]
    <3>1. /\ k \in Job /\ k.pc = "device" /\ k.user = job[s].user /\ k.nonce = job[s].nonce
          /\ k.seen = job[s].seen /\ ~k.invited /\ k.foreign = job[s].foreign
      BY <1>0 DEF Job, Pcs
    <3>2. job' = [job EXCEPT ![s] = k]
      BY <2>1 DEF GotoDevice
    <3> HIDE DEF k
    <3>3. JobOK(k, session, ban) /\ Follows(job[s], k)
      BY <1>0, <2>0, <3>1 DEF JobOK, Follows, CutPcs, RegisterPcs, SessionPcs, AuthedKinds
    <3> QED BY <1>1, <3>2, <3>3 DEF Moves
  <2>2. CASE Goto(s, "create")
    <3>1. PICK k \in Job : /\ job' = [job EXCEPT ![s] = k] /\ k.pc = "create" /\ k.user = job[s].user
                           /\ k.name = job[s].name /\ k.nonce = job[s].nonce /\ k.seen = job[s].seen
                           /\ k.foreign = job[s].foreign /\ k.invited = job[s].invited
      BY <2>2, GotoJob DEF Pcs, RegisterPcs
    <3>2. JobOK(k, session, ban) /\ Follows(job[s], k)
      BY <1>0, <2>0, <3>1 DEF JobOK, Follows, CutPcs, RegisterPcs, SessionPcs, AuthedKinds
    <3> QED BY <1>1, <3>1, <3>2 DEF Moves
  <2> QED BY <1>4, <2>1, <2>2 DEF LookupRootKey
<1>5. CASE VerifyAccount(s)
  <2>0. job[s].pc = "account"
    BY <1>5 DEF VerifyAccount, At
  <2>1. CASE Goto(s, "ban")
    <3>1. PICK k \in Job : /\ job' = [job EXCEPT ![s] = k] /\ k.pc = "ban" /\ k.user = job[s].user
                           /\ k.nonce = job[s].nonce /\ k.seen = job[s].seen
                           /\ k.foreign = job[s].foreign /\ k.invited = job[s].invited
      BY <2>1, GotoJob DEF Pcs
    <3>2. JobOK(k, session, ban) /\ Follows(job[s], k)
      BY <1>0, <2>0, <3>1 DEF JobOK, Follows, CutPcs, RegisterPcs, SessionPcs, AuthedKinds
    <3> QED BY <1>1, <3>1, <3>2 DEF Moves
  <2> QED BY <1>1, <1>2, <1>5, <2>0, <2>1 DEF VerifyAccount, CutPcs
<1>6. ASSUME NEW i \in DOMAIN session, NEW a \in AuthedKinds, NEW d \in Devices,
             RequireSession(s, i, a, d)
      PROVE  \E k : Moves(s, k) /\ Follows(job[s], k)
  <2> DEFINE dev == IF a = "revoke" THEN d ELSE None
             u == session[i].user
             k == [Idle EXCEPT !.pc = "authDevice", !.sess = i, !.user = u, !.kind = a, !.dev = dev]
  <2>1. job[s] = Idle /\ job' = [job EXCEPT ![s] = k]
    BY <1>6 DEF RequireSession, Start
  <2>a. i \in Nat /\ session[i] \in SessionRow
    BY <1>0
  <2>2. i \in Nat /\ u \in Users /\ dev \in Devices \cup {None}
    BY <2>a DEF SessionRow
  <2> HIDE DEF dev
  <2>3. /\ k \in Job /\ k.pc = "authDevice" /\ k.user = u /\ k.sess = i /\ k.kind = a /\ k.nonce = None
        /\ ~k.invited /\ ~k.foreign
    BY <2>2 DEF Job, Idle, Pcs, SessionPcs
  <2> HIDE DEF k
  <2>4. JobOK(k, session, ban)
    BY <2>2, <2>3 DEF JobOK, RegisterPcs, SessionPcs, AuthedKinds
  <2>5. Follows(job[s], k)
    BY <2>1, <2>3, IdleOK DEF Follows, CutPcs
  <2> QED BY <1>1, <2>1, <2>4, <2>5 DEF Moves
<1>7. CASE RequireDevice(s)
  <2>0. job[s].pc = "authDevice" /\ job[s].kind \in AuthedKinds
    BY <1>0, <1>7 DEF RequireDevice, At, JobOK
  <2>1. CASE Goto(s, job[s].kind)
    <3>1. PICK k \in Job : /\ job' = [job EXCEPT ![s] = k] /\ k.pc = job[s].kind /\ k.user = job[s].user
                           /\ k.nonce = job[s].nonce /\ k.sess = job[s].sess
                           /\ k.foreign = job[s].foreign /\ k.invited = job[s].invited
      BY <2>0, <2>1, GotoJob DEF Pcs, SessionPcs
    <3>2. JobOK(k, session, ban) /\ Follows(job[s], k)
      BY <1>0, <2>0, <3>1 DEF JobOK, Follows, CutPcs, RegisterPcs, SessionPcs, AuthedKinds
    <3> QED BY <1>1, <3>1, <3>2 DEF Moves
  <2> QED BY <1>1, <1>2, <1>7, <2>0, <2>1 DEF RequireDevice, CutPcs
<1>8. ASSUME NEW u \in Users, InstanceUnban(s, u) PROVE \E k : Moves(s, k) /\ Follows(job[s], k)
  <2>1. PICK i \in ActiveBans(u) : Start(s, [Idle EXCEPT !.pc = "lift", !.user = u, !.seen = i])
    BY <1>8 DEF InstanceUnban
  <2> DEFINE k == [Idle EXCEPT !.pc = "lift", !.user = u, !.seen = i]
  <2>2. i \in DOMAIN ban /\ i \in Nat
    BY <1>0 DEF ActiveBans
  <2>3. job[s] = Idle /\ job' = [job EXCEPT ![s] = k]
    BY <2>1 DEF Start
  <2>4. /\ k \in Job /\ k.pc = "lift" /\ k.user = u /\ k.seen = i /\ k.nonce = None
        /\ ~k.invited /\ ~k.foreign
    BY <2>2 DEF Job, Idle, Pcs
  <2> HIDE DEF k
  <2>5. JobOK(k, session, ban)
    BY <2>2, <2>4 DEF JobOK, RegisterPcs, SessionPcs, AuthedKinds
  <2>6. Follows(job[s], k)
    BY <2>3, <2>4, IdleOK DEF Follows, CutPcs
  <2> QED BY <1>1, <2>3, <2>5, <2>6 DEF Moves
<1>9. CASE Abandon(s)
  BY <1>1, <1>2, <1>9 DEF Abandon, Disconnecting, At, CutPcs
<1> QED BY <1>1, <1>3, <1>4, <1>5, <1>6, <1>7, <1>8, <1>9 DEF Reading

\* The steps that write a table and then end or go on.
LEMMA ClaimMoves ==
  ASSUME TypeInv, NEW s \in Workers, ClaimInviteUse(s)
  PROVE  /\ UNCHANGED <<now, name, asked, admitted, nonce, device, session, ban, conn, timer>>
         /\ job[s].pc = "invite"
         /\ \/ uses' = uses /\ Moves(s, Idle)
            \/ /\ uses < InviteUses /\ uses' = uses + 1
               /\ \E k : /\ Moves(s, k) /\ k.pc = "lookup" /\ k.nonce = job[s].nonce
                         /\ k.user = job[s].user
<1>0. JobOK(job[s], session, ban) /\ job[s].pc = "invite"
  BY DEF TypeInv, JobsOK, ClaimInviteUse, At
<1>1. UNCHANGED <<now, name, asked, admitted, nonce, device, session, ban, conn, timer>>
  BY DEF ClaimInviteUse
<1>2. CASE uses < InviteUses
  <2>1. uses' = uses + 1 /\ Goto(s, "lookup")
    BY <1>2 DEF ClaimInviteUse
  <2>2. PICK k \in Job : /\ job' = [job EXCEPT ![s] = k] /\ k.pc = "lookup" /\ k.user = job[s].user
                         /\ k.name = job[s].name /\ k.nonce = job[s].nonce /\ k.seen = job[s].seen
                         /\ k.foreign = job[s].foreign /\ k.invited = job[s].invited
    BY <2>1, GotoJob DEF Pcs, RegisterPcs
  <2>3. JobOK(k, session, ban)
    BY <1>0, <2>2 DEF JobOK, RegisterPcs, SessionPcs, AuthedKinds
  <2> QED BY <1>0, <1>1, <1>2, <2>1, <2>2, <2>3 DEF Moves
<1>3. CASE ~(uses < InviteUses)
  BY <1>0, <1>1, <1>3, DoneJob DEF ClaimInviteUse
<1> QED BY <1>2, <1>3

\* The insert of the account either is refused or admits its user once.
LEMMA CreateMoves ==
  ASSUME TypeInv, NEW s \in Workers, CreateUserWithPublicKey(s)
  PROVE  /\ UNCHANGED <<now, uses, asked, nonce, device, session, ban, conn, timer>>
         /\ job[s].pc = "create" /\ job[s].user \in Users /\ job[s].name \in Names
         /\ \E k : Moves(s, k) /\ Follows(job[s], k) /\ k.nonce \in {None, job[s].nonce} /\ ~k.invited
         /\ \/ UNCHANGED <<name, admitted>>
            \/ /\ Admissible(job[s]) /\ name' = [name EXCEPT ![job[s].user] = job[s].name]
               /\ admitted' = IF job[s].invited THEN admitted + 1 ELSE admitted
<1>0. JobOK(job[s], session, ban) /\ job[s].pc = "create" /\ job[s] \in Job
  BY DEF TypeInv, JobsOK, CreateUserWithPublicKey, At
<1>1. UNCHANGED <<now, uses, asked, nonce, device, session, ban, conn, timer>>
  BY DEF CreateUserWithPublicKey
<1>a. job[s].user \in Users /\ job[s].name \in Names
  BY <1>0 DEF JobOK, RegisterPcs
<1>2. CASE Admissible(job[s])
  <2>1. /\ name' = [name EXCEPT ![job[s].user] = job[s].name] /\ GotoDevice(s)
        /\ admitted' = IF job[s].invited THEN admitted + 1 ELSE admitted
    BY <1>2 DEF CreateUserWithPublicKey
  <2> DEFINE k == [job[s] EXCEPT !.pc = "device", !.name = None, !.invited = FALSE]
  <2>2. /\ k \in Job /\ k.pc = "device" /\ k.user = job[s].user /\ k.nonce = job[s].nonce
        /\ k.seen = job[s].seen /\ ~k.invited /\ k.foreign = job[s].foreign
    BY <1>0 DEF Job, Pcs
  <2>3. job' = [job EXCEPT ![s] = k]
    BY <2>1 DEF GotoDevice
  <2> HIDE DEF k
  <2>4. JobOK(k, session, ban) /\ Follows(job[s], k)
    BY <1>0, <2>2 DEF JobOK, Follows, CutPcs, RegisterPcs, SessionPcs, AuthedKinds
  <2>5. Moves(s, k)
    BY <1>1, <2>3, <2>4 DEF Moves
  <2> QED BY <1>0, <1>1, <1>2, <1>a, <2>1, <2>2, <2>4, <2>5
<1>3. CASE ~Admissible(job[s])
  <2>1. Done(s) /\ UNCHANGED <<name, admitted>>
    BY <1>3 DEF CreateUserWithPublicKey
  <2> QED BY <1>0, <1>1, <1>a, <2>1, DoneJob, IdleOK DEF CutPcs
<1> QED BY <1>2, <1>3

\* A challenge that is answered is gone, and its key is the job's user.
LEMMA VerifyMoves ==
  ASSUME TypeInv, NEW s \in Workers, NEW n \in Nonces, NEW d \in Devices \cup {None},
         NEW v \in Signatures, Verify(s, n, d, v)
  PROVE  /\ UNCHANGED <<now, name, uses, asked, admitted, device, session, ban, conn, timer>>
         /\ nonce[n] # None /\ nonce' = [nonce EXCEPT ![n] = None]
         /\ job[s] = Idle
         /\ \E k : /\ Moves(s, k) /\ k.pc = "account" /\ k.nonce = n /\ k.user = nonce[n].key
                   /\ ~k.invited
<1>0. nonce \in [Nonces -> NonceRow \cup {None}]
  BY DEF TypeInv, TablesOK
<1>1. UNCHANGED <<now, name, uses, asked, admitted, device, session, ban, conn, timer>>
  BY DEF Verify, accounts
<1>2. nonce[n] # None /\ nonce' = [nonce EXCEPT ![n] = None]
  BY DEF Verify, ConsumeAuthNonce
<1>3. v.sig # "elsewhere"
  BY DEF Signatures, SignatureHolds
<1> DEFINE u == nonce[n].key
           f == v.sig = "elsewhere"
           k == [Idle EXCEPT !.pc = "account", !.user = u, !.dev = d, !.nonce = n, !.foreign = f]
<1>4. job[s] = Idle /\ job' = [job EXCEPT ![s] = k]
  BY DEF Verify, Start
<1>5. u \in Users /\ f = FALSE
  BY <1>0, <1>2, <1>3 DEF NonceRow
<1> HIDE DEF f, u
<1>6. /\ k \in Job /\ k.pc = "account" /\ k.user = u /\ k.nonce = n /\ k.seen = 0
      /\ ~k.invited /\ ~k.foreign
  BY <1>5 DEF Job, Idle, Pcs
<1> HIDE DEF k
<1>7. JobOK(k, session, ban)
  BY <1>5, <1>6 DEF JobOK, RegisterPcs, SessionPcs, AuthedKinds
<1> QED BY <1>1, <1>2, <1>4, <1>6, <1>7 DEF Moves, u

\* The ban is looked for: the job has seen the bans there are, or none.
LEMMA VerifyBanMoves ==
  ASSUME TypeInv, NEW s \in Workers, VerifyBan(s)
  PROVE  /\ UNCHANGED <<now, name, uses, asked, admitted, nonce, device, session, ban, conn, timer>>
         /\ job[s].pc = "ban"
         /\ \E k : /\ Moves(s, k)
                   /\ \/ Follows(job[s], k)
                      \/ /\ ActiveBans(job[s].user) = {} /\ k.pc = "backfill" /\ k.seen = Len(ban)
                         /\ k.user = job[s].user /\ k.nonce = job[s].nonce /\ ~k.invited
<1>0. /\ JobOK(job[s], session, ban) /\ job[s].pc = "ban" /\ job[s] \in Job /\ Len(ban) \in Nat
  BY DEF TypeInv, TablesOK, JobsOK, VerifyBan, At
<1>1. UNCHANGED <<now, name, uses, asked, admitted, nonce, device, session, ban, conn, timer>>
  BY DEF VerifyBan, accounts
<1>2. CASE Done(s)
  BY <1>0, <1>1, <1>2, DoneJob, IdleOK DEF CutPcs
<1>3. CASE Goto(s, "backfill")
  <2>1. PICK k \in Job : /\ job' = [job EXCEPT ![s] = k] /\ k.pc = "backfill" /\ k.user = job[s].user
                         /\ k.nonce = job[s].nonce /\ k.seen = job[s].seen
                         /\ k.foreign = job[s].foreign /\ k.invited = job[s].invited
    BY <1>3, GotoJob DEF Pcs
  <2>2. JobOK(k, session, ban) /\ Follows(job[s], k)
    BY <1>0, <2>1 DEF JobOK, Follows, CutPcs, RegisterPcs, SessionPcs, AuthedKinds
  <2> QED BY <1>0, <1>1, <2>1, <2>2 DEF Moves
<1>4. CASE /\ ActiveBans(job[s].user) = {}
           /\ job' = [job EXCEPT ![s].pc = "backfill", ![s].seen = Len(ban)]
  <2> DEFINE n == Len(ban)
             k == [job[s] EXCEPT !.pc = "backfill", !.seen = n]
  <2>0. job' = [job EXCEPT ![s].pc = "backfill", ![s].seen = n] /\ n \in Nat
    BY <1>0, <1>4
  <2> HIDE DEF n
  <2>1. job' = [job EXCEPT ![s] = k]
    BY <2>0
  <2>2. /\ k \in Job /\ k.pc = "backfill" /\ k.user = job[s].user /\ k.nonce = job[s].nonce
        /\ k.seen = n /\ k.foreign = job[s].foreign /\ k.invited = job[s].invited
    BY <1>0, <2>0 DEF Job, Pcs
  <2> HIDE DEF k
  <2>3. JobOK(k, session, ban) /\ ~k.invited
    BY <1>0, <2>2 DEF JobOK, RegisterPcs, SessionPcs, AuthedKinds
  <2> QED BY <1>0, <1>1, <1>4, <2>1, <2>2, <2>3 DEF Moves, n
<1> QED BY <1>2, <1>3, <1>4 DEF VerifyBan

\* The device is recorded, or its insertion fails.
LEMMA AddDeviceMoves ==
  ASSUME TypeInv, NEW s \in Workers, AddDevice(s)
  PROVE  /\ UNCHANGED <<now, name, uses, asked, admitted, nonce, session, ban, conn, timer>>
         /\ device' \in [Users -> SUBSET Devices]
         /\ \A u \in Users : device[u] \subseteq device'[u]
         /\ \E k : Moves(s, k) /\ Follows(job[s], k)
<1>0. /\ JobOK(job[s], session, ban) /\ job[s].pc \in {"backfill", "device"} /\ job[s] \in Job
      /\ device \in [Users -> SUBSET Devices]
  BY DEF TypeInv, TablesOK, JobsOK, AddDevice, At
<1>1. UNCHANGED <<now, name, uses, asked, admitted, nonce, session, ban, conn, timer>>
  BY DEF AddDevice, accounts
<1>2. device' \in [Users -> SUBSET Devices] /\ \A u \in Users : device[u] \subseteq device'[u]
  <2>1. job[s].user \in Users /\ job[s].dev \in Devices \cup {None}
    BY <1>0 DEF JobOK, Job
  <2>2. {job[s].dev} \ {None} \subseteq Devices
    BY <2>1
  <2>3. CASE device' = [device EXCEPT ![job[s].user] = @ \cup ({job[s].dev} \ {None})]
    BY <1>0, <2>1, <2>2, <2>3
  <2>4. CASE UNCHANGED device
    BY <1>0, <2>4
  <2> QED BY <2>3, <2>4 DEF AddDevice
<1>3. PICK k \in Job : /\ job' = [job EXCEPT ![s] = k] /\ k.pc = "session" /\ k.user = job[s].user
                       /\ k.nonce = job[s].nonce /\ k.seen = job[s].seen
                       /\ k.foreign = job[s].foreign /\ k.invited = job[s].invited
  BY GotoJob DEF Pcs, AddDevice
<1>4. JobOK(k, session, ban) /\ Follows(job[s], k)
  BY <1>0, <1>3 DEF JobOK, Follows, CutPcs, RegisterPcs, SessionPcs, AuthedKinds
<1> QED BY <1>1, <1>2, <1>3, <1>4 DEF Moves

\* The session carries what its job has: the account, the challenge and the
\* bans that were seen.
LEMMA CreateSessionMoves ==
  ASSUME TypeInv, NEW s \in Workers, CreateSession(s)
  PROVE  /\ UNCHANGED <<now, name, uses, asked, admitted, nonce, device, ban, conn, timer>>
         /\ job[s].pc = "session" /\ job[s].user \in Users /\ ~job[s].foreign
         /\ Moves(s, Idle) /\ Kept /\ session' \in Seq(SessionRow)
         /\ Len(session') = Len(session) + 1 /\ Len(session) \in Nat
         /\ \A i \in DOMAIN session : session'[i] = session[i]
         /\ LET r == session'[Len(session')]
            IN  /\ r.user = job[s].user /\ r.nonce = job[s].nonce /\ r.foreign = job[s].foreign
                /\ r.seen = job[s].seen /\ r.live
<1>0. /\ JobOK(job[s], session, ban) /\ job[s].pc = "session" /\ job[s] \in Job
      /\ session \in Seq(SessionRow) /\ now \in Nat
  BY DEF TypeInv, TablesOK, JobsOK, CreateSession, At
<1>1. UNCHANGED <<now, name, uses, asked, admitted, nonce, device, ban, conn, timer>> /\ Done(s)
  BY DEF CreateSession, accounts
<1>2. job[s].user \in Users /\ ~job[s].foreign
  BY <1>0 DEF JobOK
<1> DEFINE t == now + SessionTtl
           r == [user |-> job[s].user, dev |-> job[s].dev, live |-> TRUE, expires |-> t,
                 nonce |-> job[s].nonce, foreign |-> job[s].foreign, seen |-> job[s].seen]
<1>3. session' = Append(session, r) /\ t \in Nat
  BY <1>0, SessionAssumption DEF CreateSession
<1> HIDE DEF t
<1>4. /\ r \in SessionRow /\ r.user = job[s].user /\ r.nonce = job[s].nonce
      /\ r.foreign = job[s].foreign /\ r.seen = job[s].seen /\ r.live
  BY <1>0, <1>2, <1>3 DEF SessionRow, Job
<1> HIDE DEF r
<1>5. /\ session' \in Seq(SessionRow) /\ Len(session') = Len(session) + 1 /\ Len(session) \in Nat
      /\ DOMAIN session \subseteq DOMAIN session'
      /\ \A i \in DOMAIN session : session'[i] = session[i]
      /\ session'[Len(session')] = r
  BY <1>0, <1>3, <1>4
<1>6. Kept
  BY <1>1, <1>5 DEF Kept, InForce
<1> QED BY <1>0, <1>1, <1>2, <1>4, <1>5, <1>6, DoneJob

\* The connections after a step: a subset of those there were, some of them
\* marked as spared.
LEMMA RegisterClientMoves ==
  ASSUME TypeInv, NEW s \in Workers, RegisterClient(s)
  PROVE  /\ UNCHANGED <<now, name, uses, asked, admitted, nonce, device, session, ban, timer>>
         /\ Moves(s, Idle) /\ job[s].pc = "connect"
         /\ job[s].sess \in DOMAIN session /\ session[job[s].sess].user = job[s].user
         /\ \E c \in ConnRow :
              /\ conn' = conn \cup {c} /\ c.user = job[s].user /\ c.sess = job[s].sess
              /\ c.late = ~session[job[s].sess].live
              /\ c.spared = (c.dev # None /\ ~IsDeviceActive(c.user, c.dev))
<1>0. /\ JobOK(job[s], session, ban) /\ job[s].pc = "connect" /\ job[s] \in Job
      /\ session \in Seq(SessionRow)
  BY DEF TypeInv, TablesOK, JobsOK, RegisterClient, At
<1> DEFINE i == job[s].sess
           u == job[s].user
           d == session[i].dev
           l == ~session[i].live
           p == d # None /\ ~IsDeviceActive(u, d)
           c == [user |-> u, dev |-> d, sess |-> i, late |-> l, spared |-> p,
                 stranded |-> FALSE, closers |-> {}]
<1>1. i \in DOMAIN session /\ session[i].user = u /\ i \in Nat
  BY <1>0 DEF JobOK, SessionPcs, AuthedKinds, Job
<1>2. session[i] \in SessionRow
  BY <1>0, <1>1
<1>3. u \in Users /\ d \in Devices \cup {None} /\ l \in BOOLEAN /\ p \in BOOLEAN
  BY <1>1, <1>2 DEF SessionRow
<1>4. conn' = conn \cup {c} /\ Done(s)
      /\ UNCHANGED <<now, name, uses, asked, admitted, nonce, device, session, ban, timer>>
  BY DEF RegisterClient, accounts
<1>a. p = (d # None /\ ~IsDeviceActive(u, d)) /\ l = ~session[i].live
  OBVIOUS
<1> HIDE DEF p, l, d
<1>5. c \in ConnRow /\ c.user = u /\ c.dev = d /\ c.sess = i /\ c.late = l /\ c.spared = p
  BY <1>1, <1>3 DEF ConnRow
<1> HIDE DEF c
<1> QED BY <1>0, <1>1, <1>4, <1>5, <1>a, DoneJob

\* Logout deletes the session it was sent with.
LEMMA LogoutMoves ==
  ASSUME TypeInv, NEW s \in Workers, Logout(s)
  PROVE  /\ UNCHANGED <<now, name, uses, asked, admitted, nonce, device, ban, conn, timer>>
         /\ Moves(s, Idle) /\ job[s].pc = "logout" /\ Kept
         /\ session' \in Seq(SessionRow) /\ DOMAIN session' = DOMAIN session
<1>1. /\ UNCHANGED <<now, name, uses, asked, admitted, nonce, device, ban, conn, timer>>
      /\ Done(s) /\ job[s].pc = "logout" /\ DeleteSessions({job[s].sess})
  BY DEF Logout, accounts, At
<1> QED BY <1>1, DoneJob, KeptDelete

\* revokeDevice: the row, and the job that will cut the connections.
LEMMA RevokeMoves ==
  ASSUME TypeInv, NEW s \in Workers, RevokeDeviceKey(s)
  PROVE  /\ UNCHANGED <<now, name, uses, asked, admitted, nonce, session, ban, conn, timer>>
         /\ job[s].pc = "revoke" /\ job[s].user \in Users
         /\ device' = [device EXCEPT ![job[s].user] = @ \ {job[s].dev}]
         /\ device' \in [Users -> SUBSET Devices]
         /\ \E k : /\ Moves(s, k) /\ Follows(job[s], k) /\ k.pc = "cut"
                   /\ k.user = job[s].user /\ k.dev = job[s].dev
<1>0. /\ JobOK(job[s], session, ban) /\ job[s].pc = "revoke" /\ job[s] \in Job
      /\ device \in [Users -> SUBSET Devices]
  BY DEF TypeInv, TablesOK, JobsOK, RevokeDeviceKey, At
<1>1. /\ UNCHANGED <<now, name, uses, asked, admitted, nonce, session, ban, conn, timer>>
      /\ device' = [device EXCEPT ![job[s].user] = @ \ {job[s].dev}] /\ Goto(s, "cut")
  BY DEF RevokeDeviceKey, accounts
<1>2. job[s].user \in Users
  BY <1>0 DEF JobOK
<1>3. PICK k \in Job : /\ job' = [job EXCEPT ![s] = k] /\ k.pc = "cut" /\ k.user = job[s].user
                       /\ k.nonce = job[s].nonce /\ k.sess = job[s].sess /\ k.dev = job[s].dev
                       /\ k.foreign = job[s].foreign /\ k.invited = job[s].invited
  BY <1>1, GotoJob DEF Pcs, SessionPcs
<1>4. JobOK(k, session, ban) /\ Follows(job[s], k)
  BY <1>0, <1>3 DEF JobOK, Follows, CutPcs, RegisterPcs, SessionPcs, AuthedKinds
<1>5. device' \in [Users -> SUBSET Devices]
  BY <1>0, <1>1, <1>2
<1> QED BY <1>0, <1>1, <1>2, <1>3, <1>4, <1>5 DEF Moves

\* A connection as it was, but for the marks of requests that cut it off.
SameConn(c, d) ==
  c \in ConnRow /\ c.user = d.user /\ c.dev = d.dev /\ c.sess = d.sess /\ c.late = d.late

\* DisconnectDevice marks the connections of the device as its own to close.
LEMMA DisconnectMoves ==
  ASSUME TypeInv, NEW s \in Workers, DisconnectDevice(s)
  PROVE  /\ UNCHANGED <<now, name, uses, asked, admitted, nonce, device, session, ban, timer>>
         /\ job[s].pc = "cut"
         /\ \E k : /\ Moves(s, k) /\ k.pc = "closing" /\ k.nonce = job[s].nonce
                   /\ k.user = job[s].user /\ ~k.invited
         /\ \A c \in conn' : \E d \in conn :
              /\ SameConn(c, d) /\ c.spared = d.spared /\ c.stranded = d.stranded
              /\ d.closers \subseteq c.closers
              /\ d.user = job[s].user /\ d.dev = job[s].dev => s \in c.closers
<1>0. /\ JobOK(job[s], session, ban) /\ job[s].pc = "cut" /\ job[s] \in Job /\ conn \subseteq ConnRow
  BY DEF TypeInv, TablesOK, JobsOK, DisconnectDevice, At
<1>1. /\ UNCHANGED <<now, name, uses, asked, admitted, nonce, device, session, ban, timer>>
      /\ Goto(s, "closing")
      /\ conn' = {IF c.user = job[s].user /\ c.dev = job[s].dev
                  THEN [c EXCEPT !.closers = @ \cup {s}] ELSE c : c \in conn}
  BY DEF DisconnectDevice, accounts
<1>2. PICK k \in Job : /\ job' = [job EXCEPT ![s] = k] /\ k.pc = "closing" /\ k.user = job[s].user
                       /\ k.nonce = job[s].nonce /\ k.sess = job[s].sess
                       /\ k.foreign = job[s].foreign /\ k.invited = job[s].invited
  BY <1>1, GotoJob DEF Pcs, SessionPcs
<1>3. JobOK(k, session, ban) /\ ~k.invited
  BY <1>0, <1>2 DEF JobOK, RegisterPcs, SessionPcs, AuthedKinds
<1>4. ASSUME NEW c \in conn'
      PROVE  \E d \in conn :
               /\ SameConn(c, d) /\ c.spared = d.spared /\ c.stranded = d.stranded
               /\ d.closers \subseteq c.closers
               /\ d.user = job[s].user /\ d.dev = job[s].dev => s \in c.closers
  <2>1. PICK d \in conn : c = IF d.user = job[s].user /\ d.dev = job[s].dev
                              THEN [d EXCEPT !.closers = @ \cup {s}] ELSE d
    BY <1>1
  <2>2. d \in ConnRow
    BY <1>0
  <2>3. CASE d.user = job[s].user /\ d.dev = job[s].dev
    <3> DEFINE W == d.closers \cup {s}
    <3>1. c = [d EXCEPT !.closers = W] /\ W \in SUBSET Workers /\ s \in W /\ d.closers \subseteq W
      BY <2>1, <2>2, <2>3 DEF ConnRow
    <3> HIDE DEF W
    <3>2. SameConn(c, d) /\ c.spared = d.spared /\ c.stranded = d.stranded /\ c.closers = W
      BY <2>2, <3>1 DEF ConnRow, SameConn
    <3> QED BY <3>1, <3>2
  <2>4. CASE ~(d.user = job[s].user /\ d.dev = job[s].dev)
    BY <2>1, <2>2, <2>4 DEF SameConn
  <2> QED BY <2>3, <2>4
<1> QED BY <1>0, <1>1, <1>2, <1>3, <1>4 DEF Moves

\* The request ends when nothing is left to close.
LEMMA DisconnectedMoves ==
  ASSUME TypeInv, NEW s \in Workers, Disconnected(s)
  PROVE  /\ UNCHANGED <<now, name, uses, asked, admitted, nonce, device, session, ban, conn, timer>>
         /\ Moves(s, Idle) /\ job[s].pc = "closing" /\ \A c \in conn : s \notin c.closers
BY DoneJob DEF Disconnected, Targets, accounts, At

\* It also ends when a write panics, and what it had not closed is marked.
LEMMA PanicMoves ==
  ASSUME TypeInv, NEW s \in Workers, ClosePanics(s)
  PROVE  /\ UNCHANGED <<now, name, uses, asked, admitted, nonce, device, session, ban, timer>>
         /\ Moves(s, Idle) /\ job[s].pc = "closing"
         /\ \A c \in conn' : \E d \in conn :
              /\ SameConn(c, d) /\ c.spared = d.spared /\ c.stranded = (d.stranded \/ s \in d.closers)
              /\ c.closers = d.closers \ {s}
<1>0. conn \subseteq ConnRow /\ job[s].pc = "closing"
  BY DEF TypeInv, TablesOK, ClosePanics, At
<1>1. /\ UNCHANGED <<now, name, uses, asked, admitted, nonce, device, session, ban, timer>> /\ Done(s)
      /\ conn' = {[c EXCEPT !.stranded = @ \/ s \in c.closers, !.closers = @ \ {s}] : c \in conn}
  BY DEF ClosePanics, accounts
<1>2. ASSUME NEW c \in conn'
      PROVE  \E d \in conn : /\ SameConn(c, d) /\ c.spared = d.spared
                             /\ c.stranded = (d.stranded \/ s \in d.closers)
                             /\ c.closers = d.closers \ {s}
  <2>1. PICK d \in conn : c = [d EXCEPT !.stranded = @ \/ s \in d.closers, !.closers = @ \ {s}]
    BY <1>1
  <2> DEFINE p == d.stranded \/ s \in d.closers
             W == d.closers \ {s}
  <2>2. d \in ConnRow
    BY <1>0
  <2>3. p \in BOOLEAN /\ W \in SUBSET Workers
    BY <2>2 DEF ConnRow
  <2>4. c = [d EXCEPT !.stranded = p, !.closers = W]
    BY <2>1, <2>2 DEF ConnRow
  <2> HIDE DEF p, W
  <2>5. SameConn(c, d) /\ c.spared = d.spared /\ c.stranded = p /\ c.closers = W
    BY <2>2, <2>3, <2>4 DEF ConnRow, SameConn
  <2> QED BY <2>5 DEF p, W
<1> QED BY <1>0, <1>1, <1>2, DoneJob

\* revokeAllDevices closes no connection; those of the account are spared.
LEMMA RevokeAllMoves ==
  ASSUME TypeInv, NEW s \in Workers, RevokeAllDeviceKeys(s)
  PROVE  /\ UNCHANGED <<now, name, uses, asked, admitted, nonce, session, ban, timer>>
         /\ Moves(s, Idle) /\ job[s].pc = "revokeAll" /\ job[s].user \in Users
         /\ device' = [device EXCEPT ![job[s].user] = {}] /\ device' \in [Users -> SUBSET Devices]
         /\ \A c \in conn' : \E d \in conn :
              /\ SameConn(c, d) /\ c.spared = (d.spared \/ d.user = job[s].user)
              /\ c.stranded = d.stranded /\ c.closers = d.closers
<1>0. /\ JobOK(job[s], session, ban) /\ job[s].pc = "revokeAll"
      /\ device \in [Users -> SUBSET Devices] /\ conn \subseteq ConnRow
  BY DEF TypeInv, TablesOK, JobsOK, RevokeAllDeviceKeys, At
<1>1. /\ UNCHANGED <<now, name, uses, asked, admitted, nonce, session, ban, timer>>
      /\ device' = [device EXCEPT ![job[s].user] = {}] /\ Done(s)
      /\ conn' = {[c EXCEPT !.spared = @ \/ c.user = job[s].user] : c \in conn}
  BY DEF RevokeAllDeviceKeys, accounts
<1>2. job[s].user \in Users
  BY <1>0 DEF JobOK
<1>3. ASSUME NEW c \in conn'
      PROVE  \E d \in conn : /\ SameConn(c, d) /\ c.spared = (d.spared \/ d.user = job[s].user)
                             /\ c.stranded = d.stranded /\ c.closers = d.closers
  <2>1. PICK d \in conn : c = [d EXCEPT !.spared = @ \/ d.user = job[s].user]
    BY <1>1
  <2> DEFINE p == d.spared \/ d.user = job[s].user
  <2>2. d \in ConnRow
    BY <1>0
  <2>3. p \in BOOLEAN /\ c = [d EXCEPT !.spared = p]
    BY <2>1, <2>2 DEF ConnRow
  <2> HIDE DEF p
  <2>4. SameConn(c, d) /\ c.spared = p /\ c.stranded = d.stranded /\ c.closers = d.closers
    BY <2>2, <2>3 DEF ConnRow, SameConn
  <2> QED BY <2>4 DEF p
<1>4. device' \in [Users -> SUBSET Devices]
  BY <1>0, <1>1, <1>2
<1> QED BY <1>0, <1>1, <1>2, <1>3, <1>4, DoneJob

\* instanceBan: the sessions there are go (or their deletion fails), and the
\* timer is set.
LEMMA BanMoves ==
  ASSUME TypeInv, NEW s \in Workers, NEW u \in Users, InstanceBan(s, u)
  PROVE  /\ UNCHANGED <<now, name, uses, asked, admitted, nonce, device, ban, conn>>
         /\ job[s] = Idle /\ timer' = [timer EXCEPT ![u] = @ + 1] /\ timer' \in [Users -> Nat]
         /\ Kept /\ session' \in Seq(SessionRow) /\ DOMAIN session' = DOMAIN session
         /\ \E k : /\ Moves(s, k) /\ k.pc = "banInsert" /\ k.user = u /\ k.nonce = None /\ ~k.invited
                   /\ Cleared(k) <= Len(session) /\ Cleared(k) \in Nat
                   /\ \A i \in DOMAIN session :
                        i <= Cleared(k) /\ session[i].user = u => ~session'[i].live
<1>0. session \in Seq(SessionRow) /\ timer \in [Users -> Nat]
  BY DEF TypeInv, TablesOK
<1>1. /\ UNCHANGED <<now, name, uses, asked, admitted, nonce, device, ban, conn>>
      /\ timer' = [timer EXCEPT ![u] = @ + 1]
  BY DEF InstanceBan, accounts
<1>2. timer' \in [Users -> Nat]
  <2> DEFINE n == timer[u] + 1
  <2>1. timer' = [timer EXCEPT ![u] = n] /\ n \in Nat
    BY <1>0, <1>1
  <2> HIDE DEF n
  <2> QED BY <1>0, <2>1
<1>3. ASSUME NEW k \in Job, Start(s, k), k.pc = "banInsert", k.user = u, ~k.invited, ~k.foreign
      PROVE  job[s] = Idle /\ Moves(s, k)
  BY <1>3 DEF Start, Moves, JobOK, RegisterPcs, SessionPcs, AuthedKinds
<1>4. CASE /\ DeleteSessions({i \in DOMAIN session : session[i].user = u})
           /\ Start(s, [Idle EXCEPT !.pc = "banInsert", !.user = u, !.seen = Len(session)])
  <2>1. /\ Kept /\ session' \in Seq(SessionRow) /\ DOMAIN session' = DOMAIN session
        /\ \A i \in DOMAIN session : session[i].user = u => ~session'[i].live
    BY <1>1, <1>4, KeptDelete
  <2> DEFINE n == Len(session)
             k == [Idle EXCEPT !.pc = "banInsert", !.user = u, !.seen = n]
  <2>2. n \in Nat /\ Start(s, k)
    BY <1>0, <1>4
  <2>3. n <= Len(session)
    BY <2>2
  <2> HIDE DEF n
  <2>4. /\ k \in Job /\ k.pc = "banInsert" /\ k.user = u /\ k.seen = n /\ k.nonce = None
        /\ ~k.invited /\ ~k.foreign /\ ~k.unswept
    BY <2>2 DEF Job, Idle, Pcs
  <2> HIDE DEF k
  <2>5. job[s] = Idle /\ Moves(s, k) /\ Cleared(k) = n
    BY <1>3, <2>2, <2>4 DEF Cleared
  <2> QED BY <1>1, <1>2, <2>1, <2>2, <2>3, <2>4, <2>5
<1>5. CASE /\ UNCHANGED session
           /\ Start(s, [Idle EXCEPT !.pc = "banInsert", !.user = u, !.seen = Len(session),
                          !.unswept = TRUE])
  <2> DEFINE n == Len(session)
             k == [Idle EXCEPT !.pc = "banInsert", !.user = u, !.seen = n, !.unswept = TRUE]
  <2>a. n \in Nat /\ Start(s, k)
    BY <1>0, <1>5
  <2> HIDE DEF n
  <2>1. /\ k \in Job /\ k.pc = "banInsert" /\ k.user = u /\ k.unswept /\ k.nonce = None
        /\ ~k.invited /\ ~k.foreign
    BY <2>a DEF Job, Idle, Pcs
  <2> HIDE DEF k
  <2>2. job[s] = Idle /\ Moves(s, k) /\ Cleared(k) = 0
    BY <1>3, <2>a, <2>1 DEF Cleared
  <2>3. Kept
    BY <1>1, <1>5, KeptSame
  <2>4. (\A i \in DOMAIN session : ~(i <= 0)) /\ 0 <= Len(session)
    BY <1>0
  <2> QED BY <1>0, <1>1, <1>2, <1>5, <2>1, <2>2, <2>3, <2>4
<1> QED BY <1>4, <1>5 DEF InstanceBan

\* The ban is stored after the sessions were deleted.
LEMMA InsertBanMoves ==
  ASSUME TypeInv, NEW s \in Workers, InsertInstanceBan(s)
  PROVE  /\ UNCHANGED <<now, name, uses, asked, admitted, nonce, device, session, conn, timer>>
         /\ job[s].pc = "banInsert" /\ job[s].user \in Users
         /\ Moves(s, Idle) /\ Kept /\ ban' \in Seq(BanRow)
         /\ Len(ban') = Len(ban) + 1 /\ Len(ban) \in Nat
         /\ \A b \in DOMAIN ban : ban'[b] = ban[b]
         /\ ban'[Len(ban')].user = job[s].user /\ Swept(ban'[Len(ban')]) = Cleared(job[s])
<1>0. /\ JobOK(job[s], session, ban) /\ job[s].pc = "banInsert" /\ job[s] \in Job
      /\ ban \in Seq(BanRow) /\ now \in Nat
  BY DEF TypeInv, TablesOK, JobsOK, InsertInstanceBan, At
<1>1. UNCHANGED <<now, name, uses, asked, admitted, nonce, device, session, conn, timer>> /\ Done(s)
  BY DEF InsertInstanceBan, accounts
<1>2. job[s].user \in Users
  BY <1>0 DEF JobOK
<1> DEFINE t == now + BanTtl
           r == [user |-> job[s].user, until |-> t, lifted |-> FALSE, swept |-> job[s].seen,
                 unswept |-> job[s].unswept]
<1>3. ban' = Append(ban, r) /\ t \in Nat
  BY <1>0, SessionAssumption DEF InsertInstanceBan
<1> HIDE DEF t
<1>4. r \in BanRow /\ r.user = job[s].user /\ Swept(r) = Cleared(job[s])
  BY <1>0, <1>2, <1>3 DEF BanRow, Job, Swept, Cleared
<1> HIDE DEF r
<1>5. /\ ban' \in Seq(BanRow) /\ Len(ban') = Len(ban) + 1 /\ Len(ban) \in Nat
      /\ DOMAIN ban \subseteq DOMAIN ban'
      /\ \A b \in DOMAIN ban : ban'[b] = ban[b]
      /\ ban'[Len(ban')] = r
  BY <1>0, <1>3, <1>4
<1>6. Kept
  BY <1>1, <1>5 DEF Kept, InForce
<1> QED BY <1>0, <1>1, <1>2, <1>4, <1>5, <1>6, DoneJob

\* Lifting a ban marks its row and nothing else.
LEMMA LiftMoves ==
  ASSUME TypeInv, NEW s \in Workers, LiftInstanceBan(s)
  PROVE  /\ UNCHANGED <<now, name, uses, asked, admitted, nonce, device, session, conn, timer>>
         /\ job[s].pc = "lift" /\ Moves(s, Idle) /\ Kept
         /\ ban' \in Seq(BanRow) /\ DOMAIN ban' = DOMAIN ban
<1>0. /\ JobOK(job[s], session, ban) /\ job[s].pc = "lift" /\ ban \in Seq(BanRow)
  BY DEF TypeInv, TablesOK, JobsOK, LiftInstanceBan, At
<1> DEFINE i == job[s].seen
           r == [ban[i] EXCEPT !.lifted = TRUE]
<1>1. /\ UNCHANGED <<now, name, uses, asked, admitted, nonce, device, session, conn, timer>>
      /\ Done(s) /\ ban' = [ban EXCEPT ![i] = r]
  BY DEF LiftInstanceBan, accounts
<1>2. i \in DOMAIN ban
  BY <1>0 DEF JobOK
<1>a. ban[i] \in BanRow
  BY <1>0, <1>2
<1>3. r \in BanRow /\ r.user = ban[i].user /\ Swept(r) = Swept(ban[i]) /\ r.lifted
  BY <1>a DEF BanRow, Swept
<1> HIDE DEF r
<1>4. /\ ban' \in Seq(BanRow) /\ DOMAIN ban' = DOMAIN ban
      /\ \A b \in DOMAIN ban : ban'[b] = IF b = i THEN r ELSE ban[b]
  BY <1>0, <1>1, <1>2, <1>3
<1>5. Kept
  BY <1>1, <1>3, <1>4 DEF Kept, InForce
<1> QED BY <1>0, <1>1, <1>4, <1>5, DoneJob

\* What the process does besides requests, and what clients do to the hub.
LEMMA BackgroundMoves ==
  ASSUME TypeInv,
         \/ PurgeExpiredSessions \/ Tick \/ UNCHANGED vars \/ PurgeExpiredNonces
         \/ \E n \in Nonces : VerifyRefused(n)
         \/ \E u \in Users : DisconnectUser(u)
         \/ \E c \in conn : Close(c)
         \/ \E s \in Workers, c \in conn : CloseTarget(s, c)
  PROVE  /\ UNCHANGED <<name, uses, asked, admitted, device, ban, job>>
         /\ Kept /\ now' \in Nat
         /\ session' \in Seq(SessionRow) /\ DOMAIN session' = DOMAIN session
         /\ nonce' \in [Nonces -> NonceRow \cup {None}]
         /\ \A n \in Nonces : nonce'[n] \in {nonce[n], None}
         /\ conn' \subseteq conn
         /\ timer' \in [Users -> Nat]
         /\ \A c \in conn' : timer'[c.user] = timer[c.user]
<1>0. /\ session \in Seq(SessionRow) /\ now \in Nat /\ nonce \in [Nonces -> NonceRow \cup {None}]
      /\ timer \in [Users -> Nat] /\ ban \in Seq(BanRow) /\ conn \subseteq ConnRow
  BY DEF TypeInv, TablesOK
<1>1. CASE PurgeExpiredSessions
  <2>1. UNCHANGED <<now, name, uses, asked, admitted, device, ban, job, nonce, conn, timer>>
    BY <1>1 DEF PurgeExpiredSessions, accounts
  <2>2. /\ Kept /\ session' \in Seq(SessionRow) /\ DOMAIN session' = DOMAIN session
    BY <1>1, <2>1, KeptDelete DEF PurgeExpiredSessions
  <2> QED BY <1>0, <2>1, <2>2
<1>2. CASE Tick \/ UNCHANGED vars
  <2>1. /\ UNCHANGED <<name, uses, asked, admitted, device, session, ban, job, nonce, conn, timer>>
        /\ now' = now \/ now' = now + 1
    BY <1>2 DEF Tick, vars, accounts
  <2>a. \A b \in DOMAIN ban : ban[b] \in BanRow
    BY <1>0
  <2>2. \A b \in DOMAIN ban : ban[b].until \in Nat
    BY <2>a DEF BanRow
  <2>3. Kept /\ now' \in Nat
    BY <1>0, <2>1, <2>2 DEF Kept, InForce
  <2> QED BY <1>0, <2>1, <2>3
<1>3. CASE PurgeExpiredNonces
  <2>1. UNCHANGED <<now, name, uses, asked, admitted, device, session, ban, job, conn, timer>>
    BY <1>3 DEF PurgeExpiredNonces, accounts
  <2>2. /\ nonce' \in [Nonces -> NonceRow \cup {None}]
        /\ \A n \in Nonces : nonce'[n] \in {nonce[n], None}
    BY <1>0, <1>3 DEF PurgeExpiredNonces
  <2> QED BY <1>0, <2>1, <2>2, KeptSame
<1>4. ASSUME NEW m \in Nonces, VerifyRefused(m)
      PROVE  /\ UNCHANGED <<now, name, uses, asked, admitted, device, session, ban, job, conn, timer>>
             /\ nonce' \in [Nonces -> NonceRow \cup {None}]
             /\ \A n \in Nonces : nonce'[n] \in {nonce[n], None}
  BY <1>0, <1>4 DEF VerifyRefused, ConsumeAuthNonce, accounts
<1>5. ASSUME NEW u \in Users, DisconnectUser(u)
      PROVE  /\ UNCHANGED <<now, name, uses, asked, admitted, device, session, ban, job, nonce>>
             /\ conn' \subseteq conn /\ timer' \in [Users -> Nat]
             /\ \A c \in conn' : timer'[c.user] = timer[c.user]
  <2> DEFINE n == timer[u] - 1
  <2>1. /\ UNCHANGED <<now, name, uses, asked, admitted, device, session, ban, job, nonce>>
        /\ conn' = {c \in conn : c.user # u} /\ timer' = [timer EXCEPT ![u] = n] /\ timer[u] > 0
    BY <1>5 DEF DisconnectUser, accounts
  <2>2. n \in Nat
    BY <1>0, <2>1
  <2> HIDE DEF n
  <2>3. conn' \subseteq conn /\ \A c \in conn' : c.user \in Users /\ c.user # u
    BY <1>0, <2>1 DEF ConnRow
  <2> QED BY <1>0, <2>1, <2>2, <2>3
<1>6. ASSUME NEW c \in conn, Close(c)
      PROVE  /\ UNCHANGED <<now, name, uses, asked, admitted, device, session, ban, job, nonce, timer>>
             /\ conn' \subseteq conn
  BY <1>6 DEF Close, accounts
<1>7. ASSUME NEW s \in Workers, NEW c \in conn, CloseTarget(s, c)
      PROVE  /\ UNCHANGED <<now, name, uses, asked, admitted, device, session, ban, job, nonce, timer>>
             /\ conn' \subseteq conn
  BY <1>7 DEF CloseTarget, accounts
<1> QED BY <1>0, <1>1, <1>2, <1>3, <1>4, <1>5, <1>6, <1>7, KeptSame

-----------------------------------------------------------------------------
(***************************************************************************)
(* Every step keeps the types.                                             *)
(***************************************************************************)
Verifying(s) == \E n \in Nonces, d \in Devices \cup {None}, v \in Signatures : Verify(s, n, d, v)
Banning(s) == \E u \in Users : InstanceBan(s, u)
Background ==
  \/ PurgeExpiredSessions \/ Tick \/ UNCHANGED vars \/ PurgeExpiredNonces
  \/ \E n \in Nonces : VerifyRefused(n)
  \/ \E u \in Users : DisconnectUser(u)
  \/ \E c \in conn : Close(c)
  \/ \E s \in Workers, c \in conn : CloseTarget(s, c)
Challenging == \E n \in Nonces, u \in Users : Challenge(n, u)

\* The steps, grouped by what they write.
LEMMA NextCases ==
  ASSUME [Next]_vars
  PROVE  \/ \E s \in Workers :
              \/ Reading(s) \/ ClaimInviteUse(s) \/ CreateUserWithPublicKey(s) \/ Verifying(s)
              \/ VerifyBan(s) \/ AddDevice(s) \/ CreateSession(s) \/ Logout(s)
              \/ RegisterClient(s) \/ RevokeDeviceKey(s) \/ DisconnectDevice(s)
              \/ Disconnected(s) \/ ClosePanics(s) \/ RevokeAllDeviceKeys(s)
              \/ Banning(s) \/ InsertInstanceBan(s) \/ LiftInstanceBan(s)
         \/ Background \/ Challenging \/ Restart
BY DEF Next, Reading, Verifying, Banning, Background, Challenging

\* A step of one request keeps the types when it keeps those of the tables.
LEMMA StepTypes ==
  ASSUME TypeInv, NEW s \in Workers, NEW k, Moves(s, k), Kept, TablesOK',
         conn' \subseteq conn \/ ConnsOK'
  PROVE  TypeInv'
BY JobsStay, ConnsStay DEF TypeInv

\* Every step keeps the types.
LEMMA NextTypes == ASSUME TypeInv, [Next]_vars PROVE TypeInv'
<1>0. TablesOK /\ ConnsOK /\ JobsOK
  BY DEF TypeInv
<1> USE DEF Background
<1>1. ASSUME NEW s \in Workers, Reading(s) \/ VerifyBan(s) PROVE TypeInv'
  <2>1. UNCHANGED <<now, name, uses, asked, admitted, nonce, device, session, ban, conn, timer>>
        /\ \E k : Moves(s, k)
    BY <1>1, ReadingMoves, VerifyBanMoves
  <2>2. TablesOK' /\ Kept
    BY <1>0, <2>1, KeptSame DEF TablesOK
  <2> QED BY <2>1, <2>2, StepTypes
<1>2. ASSUME NEW s \in Workers, ClaimInviteUse(s) PROVE TypeInv'
  <2>1. UNCHANGED <<now, name, asked, admitted, nonce, device, session, ban, conn, timer>>
        /\ (\E k : Moves(s, k)) /\ (uses' = uses \/ uses' = uses + 1)
    BY <1>2, ClaimMoves
  <2>2. TablesOK' /\ Kept
    BY <1>0, <2>1, KeptSame DEF TablesOK
  <2> QED BY <2>1, <2>2, StepTypes
<1>3. ASSUME NEW s \in Workers, CreateUserWithPublicKey(s) PROVE TypeInv'
  <2>1. UNCHANGED <<now, uses, asked, nonce, device, session, ban, conn, timer>>
        /\ (\E k : Moves(s, k)) /\ job[s].user \in Users /\ job[s].name \in Names
        /\ name' \in {name, [name EXCEPT ![job[s].user] = job[s].name]}
        /\ (admitted' = admitted \/ admitted' = admitted + 1)
    BY <1>3, CreateMoves
  <2>2. name' \in [Users -> Names \cup {None}]
    BY <1>0, <2>1 DEF TablesOK
  <2>3. TablesOK' /\ Kept
    BY <1>0, <2>1, <2>2, KeptSame DEF TablesOK
  <2> QED BY <2>1, <2>3, StepTypes
<1>4. ASSUME NEW s \in Workers, NEW n \in Nonces, NEW d \in Devices \cup {None},
             NEW v \in Signatures, Verify(s, n, d, v)
      PROVE  TypeInv'
  <2>1. UNCHANGED <<now, name, uses, asked, admitted, device, session, ban, conn, timer>>
        /\ nonce' = [nonce EXCEPT ![n] = None] /\ \E k : Moves(s, k)
    BY <1>4, VerifyMoves
  <2>2. TablesOK' /\ Kept
    BY <1>0, <2>1, KeptSame DEF TablesOK
  <2> QED BY <2>1, <2>2, StepTypes
<1>5. ASSUME NEW s \in Workers, AddDevice(s) PROVE TypeInv'
  <2>1. UNCHANGED <<now, name, uses, asked, admitted, nonce, session, ban, conn, timer>>
        /\ device' \in [Users -> SUBSET Devices] /\ \E k : Moves(s, k)
    BY <1>5, AddDeviceMoves
  <2>2. TablesOK' /\ Kept
    BY <1>0, <2>1, KeptSame DEF TablesOK
  <2> QED BY <2>1, <2>2, StepTypes
<1>6. ASSUME NEW s \in Workers, CreateSession(s) \/ Logout(s) PROVE TypeInv'
  <2>1. UNCHANGED <<now, name, uses, asked, admitted, nonce, device, ban, conn, timer>>
        /\ Moves(s, Idle) /\ Kept /\ session' \in Seq(SessionRow)
    BY <1>6, CreateSessionMoves, LogoutMoves
  <2>2. TablesOK'
    BY <1>0, <2>1 DEF TablesOK
  <2> QED BY <2>1, <2>2, StepTypes
<1>7. ASSUME NEW s \in Workers, RegisterClient(s) PROVE TypeInv'
  <2>1. /\ UNCHANGED <<now, name, uses, asked, admitted, nonce, device, session, ban, timer>>
        /\ Moves(s, Idle)
        /\ job[s].sess \in DOMAIN session /\ session[job[s].sess].user = job[s].user
        /\ \E c \in ConnRow : conn' = conn \cup {c} /\ c.user = job[s].user /\ c.sess = job[s].sess
    BY <1>7, RegisterClientMoves
  <2>2. TablesOK' /\ ConnsOK' /\ Kept
    BY <1>0, <2>1, KeptSame DEF TablesOK, ConnsOK
  <2> QED BY <2>1, <2>2, StepTypes
<1>8. ASSUME NEW s \in Workers, RevokeDeviceKey(s) PROVE TypeInv'
  <2>1. UNCHANGED <<now, name, uses, asked, admitted, nonce, session, ban, conn, timer>>
        /\ device' \in [Users -> SUBSET Devices] /\ \E k : Moves(s, k)
    BY <1>8, RevokeMoves
  <2>2. TablesOK' /\ Kept
    BY <1>0, <2>1, KeptSame DEF TablesOK
  <2> QED BY <2>1, <2>2, StepTypes
<1>9. ASSUME NEW s \in Workers, Disconnected(s) PROVE TypeInv'
  <2>1. UNCHANGED <<now, name, uses, asked, admitted, nonce, device, session, ban, conn, timer>>
        /\ Moves(s, Idle)
    BY <1>9, DisconnectedMoves
  <2>2. TablesOK' /\ Kept
    BY <1>0, <2>1, KeptSame DEF TablesOK
  <2> QED BY <2>1, <2>2, StepTypes
<1>10. ASSUME NEW s \in Workers, DisconnectDevice(s) \/ ClosePanics(s) \/ RevokeAllDeviceKeys(s)
       PROVE  TypeInv'
  <2>1. /\ UNCHANGED <<now, name, uses, asked, admitted, nonce, session, ban, timer>>
        /\ device' \in [Users -> SUBSET Devices] /\ \E k : Moves(s, k)
        /\ \A c \in conn' : \E d \in conn : SameConn(c, d)
    BY <1>0, <1>10, DisconnectMoves, PanicMoves, RevokeAllMoves DEF TablesOK
  <2>2. conn' \subseteq ConnRow
    BY <2>1 DEF SameConn
  <2>3. TablesOK'
    BY <1>0, <2>1, <2>2 DEF TablesOK
  <2>4. ConnsOK'
    BY <1>0, <2>1 DEF ConnsOK, SameConn
  <2> QED BY <2>1, <2>3, <2>4, KeptSame, StepTypes
<1>11. ASSUME NEW s \in Workers, NEW u \in Users, InstanceBan(s, u) PROVE TypeInv'
  <2>1. /\ UNCHANGED <<now, name, uses, asked, admitted, nonce, device, ban, conn>>
        /\ timer' \in [Users -> Nat] /\ Kept /\ session' \in Seq(SessionRow) /\ \E k : Moves(s, k)
    BY <1>11, BanMoves
  <2>2. TablesOK'
    BY <1>0, <2>1 DEF TablesOK
  <2> QED BY <2>1, <2>2, StepTypes
<1>12. ASSUME NEW s \in Workers, InsertInstanceBan(s) \/ LiftInstanceBan(s) PROVE TypeInv'
  <2>1. UNCHANGED <<now, name, uses, asked, admitted, nonce, device, session, conn, timer>>
        /\ Moves(s, Idle) /\ Kept /\ ban' \in Seq(BanRow)
    BY <1>12, InsertBanMoves, LiftMoves
  <2>2. TablesOK'
    BY <1>0, <2>1 DEF TablesOK
  <2> QED BY <2>1, <2>2, StepTypes
<1>13. ASSUME Background PROVE TypeInv'
  <2>1. /\ UNCHANGED <<name, uses, asked, admitted, device, ban, job>>
        /\ Kept /\ now' \in Nat
        /\ session' \in Seq(SessionRow) /\ DOMAIN session' = DOMAIN session
        /\ nonce' \in [Nonces -> NonceRow \cup {None}]
        /\ conn' \subseteq conn /\ timer' \in [Users -> Nat]
    BY <1>13, BackgroundMoves
  <2>2. TablesOK' /\ ConnsOK'
    BY <1>0, <2>1, ConnsStay DEF TablesOK
  <2>3. ASSUME NEW w \in Workers PROVE JobOK(job[w], session', ban')
    <3>1. JobOK(job[w], session, ban)
      BY <1>0 DEF JobsOK
    <3> QED BY <2>1, <3>1 DEF JobOK, Kept
  <2> QED BY <1>0, <2>1, <2>2, <2>3 DEF TypeInv, JobsOK
<1>14. ASSUME NEW n \in Nonces, NEW u \in Users, Challenge(n, u) PROVE TypeInv'
  <2> DEFINE t == now + NonceTtl
             r == [key |-> u, expires |-> t]
  <2>1. /\ UNCHANGED <<now, name, uses, admitted, device, session, ban, conn, timer, job>>
        /\ nonce' = [nonce EXCEPT ![n] = r] /\ asked' = [asked EXCEPT ![n] = u]
    BY <1>14 DEF Challenge
  <2>2. t \in Nat
    BY <1>0, SessionAssumption DEF TablesOK
  <2> HIDE DEF t
  <2>3. r \in NonceRow
    BY <2>2 DEF NonceRow
  <2> HIDE DEF r
  <2>4. nonce' \in [Nonces -> NonceRow \cup {None}] /\ asked' \in [Nonces -> Users \cup {None}]
    BY <1>0, <2>1, <2>3 DEF TablesOK
  <2> QED BY <1>0, <2>1, <2>4 DEF TypeInv, TablesOK, ConnsOK, JobsOK
<1>15. ASSUME Restart PROVE TypeInv'
  <2>1. /\ UNCHANGED <<now, name, uses, asked, admitted, nonce, device, session, ban>>
        /\ job' = [s \in Workers |-> Idle] /\ conn' = {} /\ timer' = [u \in Users |-> 0]
    BY <1>15 DEF Restart, accounts
  <2>2. Idle \in Job
    BY IdleOK DEF JobOK
  <2>3. JobsOK'
    BY <2>1, <2>2, IdleOK DEF JobsOK
  <2> QED BY <1>0, <2>1, <2>3 DEF TypeInv, TablesOK, ConnsOK
<1> HIDE DEF Background
<1> QED BY <1>1, <1>2, <1>3, <1>4, <1>5, <1>6, <1>7, <1>8, <1>9, <1>10, <1>11, <1>12, <1>13,
           <1>14, <1>15, NextCases DEF Verifying, Banning, Challenging

\* A server that starts with empty tables.
LEMMA InitTypes == Init => TypeInv
<1> SUFFICES ASSUME Init PROVE TypeInv
  OBVIOUS
<1>1. Idle \in Job
  BY IdleOK DEF JobOK
<1>2. JobsOK
  BY <1>1, IdleOK DEF Init, JobsOK
<1>3. TablesOK /\ ConnsOK
  BY DEF Init, TablesOK, ConnsOK
<1> QED BY <1>2, <1>3 DEF TypeInv

-----------------------------------------------------------------------------
(***************************************************************************)
(* What most steps have in common, as the invariants below need it.        *)
(***************************************************************************)
Tame == \A w \in Workers : job'[w] = job[w] \/ job'[w] = Idle \/ Follows(job[w], job'[w])
CutsStay == \A w \in Workers : job[w].pc \in CutPcs => job'[w] = job[w]

\* One job moves, the others stay.
LEMMA MovesOne ==
  ASSUME TypeInv, NEW s \in Workers, NEW k, Moves(s, k)
  PROVE  /\ job'[s] = k /\ \A w \in Workers \ {s} : job'[w] = job[w]
         /\ job[s].pc \notin CutPcs => CutsStay
         /\ k = Idle \/ Follows(job[s], k) => Tame
<1>1. job'[s] = k /\ \A w \in Workers \ {s} : job'[w] = job[w]
  BY DEF TypeInv, JobsOK, Moves
<1> QED BY <1>1 DEF Tame, CutsStay

\* The steps that do nothing to sessions, bans, challenges, invites and
\* connections.
Plain(s) == Reading(s) \/ AddDevice(s)

\* Steps that write no table but device keys they add.
LEMMA PlainSteps ==
  ASSUME TypeInv, NEW s \in Workers, Plain(s)
  PROVE  /\ UNCHANGED <<now, name, uses, asked, admitted, nonce, session, ban, conn, timer>>
         /\ Kept /\ Tame /\ CutsStay
         /\ \A u \in Users : device[u] \subseteq device'[u]
<1>1. /\ UNCHANGED <<now, name, uses, asked, admitted, nonce, session, ban, conn, timer>>
      /\ \A u \in Users : device[u] \subseteq device'[u]
      /\ \E k : Moves(s, k) /\ Follows(job[s], k)
  BY ReadingMoves, AddDeviceMoves DEF Plain
<1>2. Tame /\ CutsStay
  BY <1>1, MovesOne DEF Follows, CutPcs
<1> QED BY <1>1, <1>2, KeptSame

-----------------------------------------------------------------------------
(***************************************************************************)
(* Challenges.  A challenge is in the table, or held by one request, or    *)
(* behind one session, or gone; whoever has it is the one it was made for. *)
(***************************************************************************)
NonceInv ==
  /\ \A n \in Nonces : nonce[n] # None => nonce[n].key = asked[n] /\ asked[n] # None
  /\ \A w \in Workers : LET n == job[w].nonce IN
       n # None => /\ nonce[n] = None /\ asked[n] # None /\ asked[n] = job[w].user
                   /\ \A v \in Workers : job[v].nonce = n => v = w
                   /\ \A i \in DOMAIN session : session[i].nonce # n
  /\ \A i \in DOMAIN session : LET n == session[i].nonce IN
       n # None => /\ nonce[n] = None /\ asked[n] # None /\ asked[n] = session[i].user
                   /\ ~session[i].foreign
                   /\ \A k \in DOMAIN session : session[k].nonce = n => k = i

\* The challenges that jobs and sessions have are Nonces.
LEMMA NoncesOK ==
  ASSUME TypeInv
  PROVE  /\ \A w \in Workers : job[w].nonce \in Nonces \cup {None}
         /\ \A i \in DOMAIN session : session[i].nonce \in Nonces \cup {None}
<1>1. ASSUME NEW w \in Workers PROVE job[w].nonce \in Nonces \cup {None}
  <2>1. job[w] \in Job
    BY DEF TypeInv, JobsOK
  <2> QED BY <2>1 DEF Job
<1>2. ASSUME NEW i \in DOMAIN session PROVE session[i].nonce \in Nonces \cup {None}
  <2>1. session[i] \in SessionRow
    BY DEF TypeInv, TablesOK
  <2> QED BY <2>1 DEF SessionRow
<1> QED BY <1>1, <1>2

\* No challenge is made and no session: nobody has more than before.
LEMMA NonceQuiet ==
  ASSUME TypeInv, NonceInv, UNCHANGED asked, Kept, DOMAIN session' = DOMAIN session,
         \A n \in Nonces : nonce'[n] \in {nonce[n], None},
         \A w \in Workers : job'[w].nonce # None => /\ job'[w].nonce = job[w].nonce
                                                    /\ job'[w].user = job[w].user
  PROVE  NonceInv'
<1>1. \A n \in Nonces : nonce'[n] # None => nonce'[n] = nonce[n]
  OBVIOUS
<1>2. ASSUME NEW w \in Workers, NEW n, n = job'[w].nonce, n # None
      PROVE  /\ nonce'[n] = None /\ asked'[n] # None /\ asked'[n] = job'[w].user
             /\ \A v \in Workers : job'[v].nonce = n => v = w
             /\ \A i \in DOMAIN session' : session'[i].nonce # n
  <2>1. n \in Nonces /\ n = job[w].nonce
    BY <1>2, NoncesOK
  <2>2. /\ nonce[n] = None /\ asked[n] # None /\ asked[n] = job[w].user
        /\ \A v \in Workers : job[v].nonce = n => v = w
        /\ \A i \in DOMAIN session : session[i].nonce # n
    BY <1>2, <2>1 DEF NonceInv
  <2> QED BY <1>1, <1>2, <2>1, <2>2 DEF Kept
<1>3. ASSUME NEW i \in DOMAIN session', NEW n, n = session'[i].nonce, n # None
      PROVE  /\ nonce'[n] = None /\ asked'[n] # None /\ asked'[n] = session'[i].user
             /\ ~session'[i].foreign
             /\ \A k \in DOMAIN session' : session'[k].nonce = n => k = i
  <2>1. n \in Nonces /\ n = session[i].nonce
    BY <1>3, NoncesOK DEF Kept
  <2>2. /\ nonce[n] = None /\ asked[n] # None /\ asked[n] = session[i].user
        /\ ~session[i].foreign
        /\ \A k \in DOMAIN session : session[k].nonce = n => k = i
    BY <1>3, <2>1 DEF NonceInv
  <2> QED BY <1>1, <1>3, <2>1, <2>2 DEF Kept
<1> QED BY <1>1, <1>2, <1>3 DEF NonceInv

\* A tame step hands no challenge to another request or user.
LEMMA TameNonces ==
  ASSUME Tame PROVE \A w \in Workers : job'[w].nonce # None => /\ job'[w].nonce = job[w].nonce
                                                               /\ job'[w].user = job[w].user
BY IdleOK DEF Tame, Follows, CutPcs

\* A fresh challenge is held by nobody.
LEMMA NonceChallenge ==
  ASSUME TypeInv, NonceInv, NEW m \in Nonces, NEW u \in Users, Challenge(m, u)
  PROVE  NonceInv'
<1> DEFINE t == now + NonceTtl
           r == [key |-> u, expires |-> t]
<1>1. /\ UNCHANGED <<session, job>> /\ asked[m] = None
      /\ nonce' = [nonce EXCEPT ![m] = r] /\ asked' = [asked EXCEPT ![m] = u]
  BY DEF Challenge
<1>2. r.key = u
  OBVIOUS
<1> HIDE DEF r
<1>3. /\ nonce \in [Nonces -> NonceRow \cup {None}] /\ asked \in [Nonces -> Users \cup {None}]
      /\ u # None
  BY SessionAssumption DEF TypeInv, TablesOK
<1>4. /\ nonce'[m] = r /\ asked'[m] = u
      /\ \A n \in Nonces : n # m => nonce'[n] = nonce[n] /\ asked'[n] = asked[n]
  BY <1>1, <1>3
<1>5. /\ \A w \in Workers : job[w].nonce # None => job[w].nonce \in Nonces \ {m}
      /\ \A i \in DOMAIN session : session[i].nonce # None => session[i].nonce \in Nonces \ {m}
  BY <1>1, NoncesOK DEF NonceInv
<1> QED BY <1>1, <1>2, <1>3, <1>4, <1>5 DEF NonceInv

\* The challenge that is answered moves from the table to the request.
LEMMA NonceVerify ==
  ASSUME TypeInv, NonceInv, NEW s \in Workers, Verifying(s)
  PROVE  NonceInv'
<1>1. PICK m \in Nonces, d \in Devices \cup {None}, v \in Signatures : Verify(s, m, d, v)
  BY DEF Verifying
<1>2. /\ UNCHANGED <<asked, session>> /\ nonce[m] # None /\ nonce' = [nonce EXCEPT ![m] = None]
      /\ \E k : Moves(s, k) /\ k.nonce = m /\ k.user = nonce[m].key
  BY <1>1, VerifyMoves
<1>3. job'[s].nonce = m /\ job'[s].user = nonce[m].key /\ \A w \in Workers \ {s} : job'[w] = job[w]
  BY <1>2, MovesOne
<1>4. nonce'[m] = None /\ \A n \in Nonces : n # m => nonce'[n] = nonce[n]
  BY <1>2 DEF TypeInv, TablesOK
<1>5. /\ \A w \in Workers : job[w].nonce # m /\ job[w].nonce \in Nonces \cup {None}
      /\ \A i \in DOMAIN session : session[i].nonce # m /\ session[i].nonce \in Nonces \cup {None}
      /\ m # None /\ asked[m] = nonce[m].key /\ asked[m] # None
  BY <1>2, NoncesOK, SessionAssumption DEF NonceInv
<1>6. \A n \in Nonces : nonce'[n] # None => nonce'[n].key = asked'[n] /\ asked'[n] # None
  BY <1>2, <1>4 DEF NonceInv
<1>7. ASSUME NEW w \in Workers, NEW n, n = job'[w].nonce, n # None
      PROVE  /\ nonce'[n] = None /\ asked'[n] # None /\ asked'[n] = job'[w].user
             /\ \A x \in Workers : job'[x].nonce = n => x = w
             /\ \A i \in DOMAIN session' : session'[i].nonce # n
  <2>1. CASE w = s
    BY <1>2, <1>3, <1>4, <1>5, <1>7, <2>1
  <2>2. CASE w # s
    <3>1. job'[w] = job[w] /\ n \in Nonces \ {m}
      BY <1>3, <1>5, <1>7, <2>2
    <3> QED BY <1>2, <1>3, <1>4, <1>7, <3>1 DEF NonceInv
  <2> QED BY <2>1, <2>2
<1>8. ASSUME NEW i \in DOMAIN session', NEW n, n = session'[i].nonce, n # None
      PROVE  /\ nonce'[n] = None /\ asked'[n] # None /\ asked'[n] = session'[i].user
             /\ ~session'[i].foreign
             /\ \A k \in DOMAIN session' : session'[k].nonce = n => k = i
  BY <1>2, <1>4, <1>5, <1>8 DEF NonceInv
<1> QED BY <1>6, <1>7, <1>8 DEF NonceInv

\* And from the request to its session.
LEMMA NonceSession ==
  ASSUME TypeInv, NonceInv, NEW s \in Workers, CreateSession(s)
  PROVE  NonceInv'
<1> DEFINE x == Len(session')
<1>1. /\ UNCHANGED <<asked, nonce>> /\ Moves(s, Idle) /\ session' \in Seq(SessionRow)
      /\ Len(session') = Len(session) + 1 /\ Len(session) \in Nat
      /\ \A i \in DOMAIN session : session'[i] = session[i]
      /\ session'[x].user = job[s].user /\ session'[x].nonce = job[s].nonce /\ ~session'[x].foreign
  BY CreateSessionMoves
<1>2. DOMAIN session' = DOMAIN session \cup {x} /\ x \notin DOMAIN session
  BY <1>1 DEF TypeInv, TablesOK
<1> HIDE DEF x
<1>3. job'[s].nonce = None /\ \A w \in Workers \ {s} : job'[w] = job[w]
  BY <1>1, MovesOne, IdleOK
<1>4. \A n \in Nonces : nonce'[n] # None => nonce'[n].key = asked'[n] /\ asked'[n] # None
  BY <1>1 DEF NonceInv
<1>5. ASSUME NEW w \in Workers, NEW n, n = job'[w].nonce, n # None
      PROVE  /\ nonce'[n] = None /\ asked'[n] # None /\ asked'[n] = job'[w].user
             /\ \A v \in Workers : job'[v].nonce = n => v = w
             /\ \A i \in DOMAIN session' : session'[i].nonce # n
  <2>1. w # s /\ job'[w] = job[w]
    BY <1>3, <1>5
  <2>2. /\ nonce[n] = None /\ asked[n] # None /\ asked[n] = job[w].user
        /\ \A v \in Workers : job[v].nonce = n => v = w
        /\ \A i \in DOMAIN session : session[i].nonce # n
    BY <1>5, <2>1 DEF NonceInv
  <2>3. job[s].nonce # n
    BY <2>1, <2>2
  <2> QED BY <1>1, <1>2, <1>3, <1>5, <2>1, <2>2, <2>3
<1>6. ASSUME NEW i \in DOMAIN session', NEW n, n = session'[i].nonce, n # None
      PROVE  /\ nonce'[n] = None /\ asked'[n] # None /\ asked'[n] = session'[i].user
             /\ ~session'[i].foreign
             /\ \A k \in DOMAIN session' : session'[k].nonce = n => k = i
  <2>1. CASE i = x
    <3>1. n = job[s].nonce
      BY <1>1, <1>6, <2>1 DEF x
    <3>2. /\ nonce[n] = None /\ asked[n] # None /\ asked[n] = job[s].user
          /\ \A k \in DOMAIN session : session[k].nonce # n
      BY <1>6, <3>1 DEF NonceInv
    <3> QED BY <1>1, <1>2, <2>1, <3>2
  <2>2. CASE i # x
    <3>1. i \in DOMAIN session /\ session'[i] = session[i]
      BY <1>1, <1>2, <2>2
    <3>2. /\ nonce[n] = None /\ asked[n] # None /\ asked[n] = session[i].user
          /\ ~session[i].foreign
          /\ \A k \in DOMAIN session : session[k].nonce = n => k = i
      BY <1>6, <3>1 DEF NonceInv
    <3>3. session'[x].nonce # n
      BY <1>1, <1>6, <3>1 DEF NonceInv
    <3> QED BY <1>1, <1>2, <3>1, <3>2, <3>3
  <2> QED BY <2>1, <2>2
<1> QED BY <1>4, <1>5, <1>6 DEF NonceInv

\* Every step keeps the challenges.
LEMMA NextNonce == ASSUME TypeInv, NonceInv, [Next]_vars PROVE NonceInv'
<1> DEFINE Holders == \A w \in Workers : job'[w].nonce # None => /\ job'[w].nonce = job[w].nonce
                                                                 /\ job'[w].user = job[w].user
<1>a. ASSUME UNCHANGED <<asked, nonce>>, Kept, DOMAIN session' = DOMAIN session, Holders
      PROVE  NonceInv'
  BY <1>a, NonceQuiet
<1>1. ASSUME NEW s \in Workers, Plain(s) PROVE NonceInv'
  <2>1. UNCHANGED <<asked, nonce, session>> /\ Kept /\ Tame
    BY <1>1, PlainSteps
  <2>2. Holders
    BY <2>1, TameNonces
  <2> QED BY <1>a, <2>1, <2>2
<1>2. ASSUME NEW s \in Workers, ClaimInviteUse(s) \/ VerifyBan(s) \/ DisconnectDevice(s)
      PROVE  NonceInv'
  <2>1. UNCHANGED <<asked, nonce, session, ban, now>>
        /\ \E k : Moves(s, k) /\ (k.nonce # None => k.nonce = job[s].nonce /\ k.user = job[s].user)
    BY <1>2, ClaimMoves, VerifyBanMoves, DisconnectMoves, IdleOK DEF Follows, CutPcs
  <2>2. Holders
    BY <2>1, MovesOne
  <2> QED BY <1>a, <2>1, <2>2, KeptSame
<1>3. ASSUME NEW s \in Workers, CreateUserWithPublicKey(s) \/ RevokeDeviceKey(s) PROVE NonceInv'
  <2>1. UNCHANGED <<asked, nonce, session, ban, now>> /\ \E k : Moves(s, k) /\ Follows(job[s], k)
    BY <1>3, CreateMoves, RevokeMoves
  <2>2. Holders
    BY <2>1, MovesOne, TameNonces
  <2> QED BY <1>a, <2>1, <2>2, KeptSame
<1>4. ASSUME NEW s \in Workers,
             \/ Logout(s) \/ RegisterClient(s) \/ Disconnected(s) \/ ClosePanics(s)
             \/ RevokeAllDeviceKeys(s) \/ InsertInstanceBan(s) \/ LiftInstanceBan(s)
      PROVE  NonceInv'
  <2>1. UNCHANGED <<asked, nonce>> /\ Kept /\ DOMAIN session' = DOMAIN session /\ Moves(s, Idle)
    BY <1>4, LogoutMoves, RegisterClientMoves, DisconnectedMoves, PanicMoves, RevokeAllMoves,
       InsertBanMoves, LiftMoves, KeptSame
  <2>2. Holders
    BY <2>1, MovesOne, TameNonces
  <2> QED BY <1>a, <2>1, <2>2
<1>5. ASSUME NEW s \in Workers, NEW u \in Users, InstanceBan(s, u) PROVE NonceInv'
  <2>1. UNCHANGED <<asked, nonce>> /\ Kept /\ DOMAIN session' = DOMAIN session
        /\ \E k : Moves(s, k) /\ k.nonce = None
    BY <1>5, BanMoves
  <2>2. Holders
    BY <2>1, MovesOne
  <2> QED BY <1>a, <2>1, <2>2
<1>6. ASSUME Background PROVE NonceInv'
  BY <1>6, BackgroundMoves, NonceQuiet DEF Background
<1>7. ASSUME Restart PROVE NonceInv'
  <2>1. UNCHANGED <<asked, nonce, session, ban, now>> /\ \A w \in Workers : job'[w] = Idle
    BY <1>7 DEF Restart, accounts
  <2>2. Holders
    BY <2>1, IdleOK
  <2> QED BY <1>a, <2>1, <2>2, KeptSame
<1> QED BY <1>1, <1>2, <1>3, <1>4, <1>5, <1>6, <1>7, NonceChallenge, NonceVerify, NonceSession,
           NextCases DEF Plain, Banning, Challenging

\* No challenge has been issued at the start.
LEMMA InitNonce == Init => NonceInv
<1> SUFFICES ASSUME Init PROVE NonceInv
  OBVIOUS
<1>1. \A w \in Workers : job[w].nonce = None
  BY IdleOK DEF Init
<1> QED BY <1>1 DEF Init, NonceInv

\* For every number of accounts, challenges and requests in flight: a session
\* that verify issued answers a challenge made for its account, with a
\* signature that is good here, and no challenge is answered twice.
THEOREM ChallengesAnsweredOnce == Spec => []ChallengeOnce
<1>1. Init => TypeInv /\ NonceInv
  BY InitTypes, InitNonce
<1>2. TypeInv /\ NonceInv /\ [Next]_vars => (TypeInv /\ NonceInv)'
  BY NextTypes, NextNonce
<1>3. NonceInv => ChallengeOnce
  BY DEF NonceInv, ChallengeOnce
<1> QED BY <1>1, <1>2, <1>3, PTL DEF Spec

-----------------------------------------------------------------------------
(***************************************************************************)
(* Revoked devices.                                                        *)
(***************************************************************************)
\* Who is about to cut a connection off goes on to, while its job stays.
LEMMA CuttingStays ==
  ASSUME NEW w \in Workers, NEW c, NEW d, Cutting(w, d), job'[w] = job[w],
         c.user = d.user, c.dev = d.dev, d.closers \subseteq c.closers
  PROVE  Cutting(w, c)'
BY DEF Cutting, At

\* A step that removes no device, adds no connection and ends no job that is
\* about to cut one.
LEMMA RevokedQuiet ==
  ASSUME TypeInv, RevokedIsCut, CutsStay, \A u \in Users : device[u] \subseteq device'[u],
         conn' \subseteq conn
  PROVE  RevokedIsCut'
<1> SUFFICES ASSUME NEW c \in conn', c.dev # None, ~IsDeviceActive(c.user, c.dev)',
                    ~c.spared, ~c.stranded
             PROVE  \E w \in Workers : Cutting(w, c)'
  BY DEF RevokedIsCut
<1>1. c \in conn /\ c.user \in Users
  BY DEF TypeInv, TablesOK, ConnRow
<1>2. ~IsDeviceActive(c.user, c.dev)
  BY <1>1 DEF IsDeviceActive
<1>3. PICK w \in Workers : Cutting(w, c)
  BY <1>1, <1>2 DEF RevokedIsCut
<1>4. job'[w] = job[w]
  BY <1>3 DEF CutsStay, Cutting, At, CutPcs
<1> QED BY <1>3, <1>4, CuttingStays

\* The steps that open and close connections and revoke keys.
LEMMA RevokedSteps ==
  ASSUME TypeInv, RevokedIsCut, NEW s \in Workers,
         \/ RegisterClient(s) \/ RevokeDeviceKey(s) \/ DisconnectDevice(s) \/ Disconnected(s)
         \/ ClosePanics(s) \/ RevokeAllDeviceKeys(s)
  PROVE  RevokedIsCut'
<1>0. /\ \A c \in conn : c.user \in Users
      /\ device \in [Users -> SUBSET Devices]
  BY DEF TypeInv, TablesOK, ConnRow
<1>a. ASSUME CutsStay, NEW c, NEW d \in conn, c.user = d.user, c.dev = d.dev,
             d.closers \subseteq c.closers, c.dev # None, ~IsDeviceActive(d.user, d.dev),
             ~d.spared, ~d.stranded
      PROVE  \E w \in Workers : Cutting(w, c)'
  <2>1. PICK w \in Workers : Cutting(w, d)
    BY <1>a DEF RevokedIsCut
  <2>2. job'[w] = job[w]
    BY <1>a, <2>1 DEF CutsStay, Cutting, At, CutPcs
  <2> QED BY <1>a, <2>1, <2>2, CuttingStays
<1>1. CASE RegisterClient(s)
  <2>1. /\ UNCHANGED device /\ Moves(s, Idle) /\ job[s].pc = "connect"
        /\ \E c \in ConnRow : /\ conn' = conn \cup {c}
                              /\ c.spared = (c.dev # None /\ ~IsDeviceActive(c.user, c.dev))
    BY <1>1, RegisterClientMoves
  <2>2. CutsStay
    BY <2>1, MovesOne DEF CutPcs
  <2>3. ASSUME NEW c \in conn', c.dev # None, ~IsDeviceActive(c.user, c.dev)', ~c.spared, ~c.stranded
        PROVE  \E w \in Workers : Cutting(w, c)'
    <3>1. c \in conn /\ ~IsDeviceActive(c.user, c.dev)
      BY <2>1, <2>3 DEF IsDeviceActive
    <3> QED BY <1>a, <2>2, <2>3, <3>1
  <2> QED BY <2>3 DEF RevokedIsCut
<1>2. CASE RevokeDeviceKey(s)
  <2>1. /\ UNCHANGED conn /\ job[s].pc = "revoke" /\ job[s].user \in Users
        /\ device' = [device EXCEPT ![job[s].user] = @ \ {job[s].dev}]
        /\ \E k : Moves(s, k) /\ k.pc = "cut" /\ k.user = job[s].user /\ k.dev = job[s].dev
    BY <1>2, RevokeMoves
  <2>2. /\ CutsStay /\ job'[s].pc = "cut" /\ job'[s].user = job[s].user /\ job'[s].dev = job[s].dev
    BY <2>1, MovesOne DEF CutPcs
  <2>3. ASSUME NEW c \in conn', c.dev # None, ~IsDeviceActive(c.user, c.dev)', ~c.spared, ~c.stranded
        PROVE  \E w \in Workers : Cutting(w, c)'
    <3>1. CASE c.user = job[s].user /\ c.dev = job[s].dev
      BY <2>2, <3>1 DEF Cutting, At
    <3>2. CASE ~(c.user = job[s].user /\ c.dev = job[s].dev)
      <4>1. c \in conn /\ ~IsDeviceActive(c.user, c.dev)
        BY <1>0, <2>1, <2>3, <3>2 DEF IsDeviceActive
      <4> QED BY <1>a, <2>2, <2>3, <4>1
    <3> QED BY <3>1, <3>2
  <2> QED BY <2>3 DEF RevokedIsCut
<1>3. CASE DisconnectDevice(s)
  <2>1. /\ UNCHANGED device /\ job[s].pc = "cut"
        /\ \E k : Moves(s, k) /\ k.pc = "closing"
        /\ \A c \in conn' : \E d \in conn :
             /\ SameConn(c, d) /\ c.spared = d.spared /\ c.stranded = d.stranded
             /\ d.closers \subseteq c.closers
             /\ d.user = job[s].user /\ d.dev = job[s].dev => s \in c.closers
    BY <1>3, DisconnectMoves
  <2>2. job'[s].pc = "closing" /\ \A w \in Workers \ {s} : job'[w] = job[w]
    BY <2>1, MovesOne
  <2>3. ASSUME NEW c \in conn', c.dev # None, ~IsDeviceActive(c.user, c.dev)', ~c.spared, ~c.stranded
        PROVE  \E w \in Workers : Cutting(w, c)'
    <3>1. PICK d \in conn : /\ c.user = d.user /\ c.dev = d.dev
                            /\ c.spared = d.spared /\ c.stranded = d.stranded
                            /\ d.closers \subseteq c.closers
                            /\ d.user = job[s].user /\ d.dev = job[s].dev => s \in c.closers
      BY <2>1 DEF SameConn
    <3>2. PICK w \in Workers : Cutting(w, d)
      BY <2>1, <2>3, <3>1 DEF RevokedIsCut, IsDeviceActive
    <3>3. CASE w = s
      <4>1. d.user = job[s].user /\ d.dev = job[s].dev
        BY <2>1, <3>2, <3>3 DEF Cutting, At
      <4> QED BY <2>2, <3>1, <4>1 DEF Cutting, At
    <3>4. CASE w # s
      BY <2>2, <3>1, <3>2, <3>4, CuttingStays
    <3> QED BY <3>3, <3>4
  <2> QED BY <2>3 DEF RevokedIsCut
<1>4. CASE Disconnected(s)
  <2>1. /\ UNCHANGED <<device, conn>> /\ Moves(s, Idle) /\ job[s].pc = "closing"
        /\ \A c \in conn : s \notin c.closers
    BY <1>4, DisconnectedMoves
  <2>2. \A w \in Workers \ {s} : job'[w] = job[w]
    BY <2>1, MovesOne
  <2>3. ASSUME NEW c \in conn', c.dev # None, ~IsDeviceActive(c.user, c.dev)', ~c.spared, ~c.stranded
        PROVE  \E w \in Workers : Cutting(w, c)'
    <3>1. PICK w \in Workers : Cutting(w, c)
      BY <2>1, <2>3 DEF RevokedIsCut, IsDeviceActive
    <3>2. w # s
      BY <2>1, <3>1 DEF Cutting, At
    <3> QED BY <2>2, <3>1, <3>2, CuttingStays
  <2> QED BY <2>3 DEF RevokedIsCut
<1>5. CASE ClosePanics(s)
  <2>1. /\ UNCHANGED device /\ Moves(s, Idle) /\ job[s].pc = "closing"
        /\ \A c \in conn' : \E d \in conn :
             /\ SameConn(c, d) /\ c.spared = d.spared /\ c.stranded = (d.stranded \/ s \in d.closers)
             /\ c.closers = d.closers \ {s}
    BY <1>5, PanicMoves
  <2>2. \A w \in Workers \ {s} : job'[w] = job[w]
    BY <2>1, MovesOne
  <2>3. ASSUME NEW c \in conn', c.dev # None, ~IsDeviceActive(c.user, c.dev)', ~c.spared, ~c.stranded
        PROVE  \E w \in Workers : Cutting(w, c)'
    <3>1. PICK d \in conn : /\ c.user = d.user /\ c.dev = d.dev /\ c.spared = d.spared
                            /\ c.stranded = (d.stranded \/ s \in d.closers)
                            /\ c.closers = d.closers \ {s}
      BY <2>1 DEF SameConn
    <3>2. ~d.stranded /\ s \notin d.closers
      BY <2>3, <3>1
    <3>3. PICK w \in Workers : Cutting(w, d)
      BY <2>1, <2>3, <3>1, <3>2 DEF RevokedIsCut, IsDeviceActive
    <3>4. w # s
      BY <2>1, <3>2, <3>3 DEF Cutting, At
    <3>5. d.closers \subseteq c.closers
      BY <3>1, <3>2
    <3> QED BY <2>2, <3>1, <3>3, <3>4, <3>5, CuttingStays
  <2> QED BY <2>3 DEF RevokedIsCut
<1>6. CASE RevokeAllDeviceKeys(s)
  <2>1. /\ Moves(s, Idle) /\ job[s].pc = "revokeAll" /\ job[s].user \in Users
        /\ device' = [device EXCEPT ![job[s].user] = {}]
        /\ \A c \in conn' : \E d \in conn :
             /\ SameConn(c, d) /\ c.spared = (d.spared \/ d.user = job[s].user)
             /\ c.stranded = d.stranded /\ c.closers = d.closers
    BY <1>6, RevokeAllMoves
  <2>2. CutsStay
    BY <2>1, MovesOne DEF CutPcs
  <2>3. ASSUME NEW c \in conn', c.dev # None, ~IsDeviceActive(c.user, c.dev)', ~c.spared, ~c.stranded
        PROVE  \E w \in Workers : Cutting(w, c)'
    <3>1. PICK d \in conn : /\ c.user = d.user /\ c.dev = d.dev
                            /\ c.spared = (d.spared \/ d.user = job[s].user)
                            /\ c.stranded = d.stranded /\ c.closers = d.closers
      BY <2>1 DEF SameConn
    <3>2. d.user # job[s].user /\ ~d.spared
      BY <2>3, <3>1
    <3>3. ~IsDeviceActive(d.user, d.dev)
      BY <1>0, <2>1, <2>3, <3>1, <3>2 DEF IsDeviceActive
    <3> QED BY <1>a, <2>2, <2>3, <3>1, <3>2, <3>3
  <2> QED BY <2>3 DEF RevokedIsCut
<1> QED BY <1>1, <1>2, <1>3, <1>4, <1>5, <1>6

\* Every step keeps the connections of revoked devices cut.
LEMMA NextRevoked == ASSUME TypeInv, RevokedIsCut, [Next]_vars PROVE RevokedIsCut'
<1>a. ASSUME UNCHANGED device, CutsStay, conn' \subseteq conn PROVE RevokedIsCut'
  BY <1>a, RevokedQuiet
<1>1. ASSUME NEW s \in Workers, Plain(s) PROVE RevokedIsCut'
  BY <1>1, PlainSteps, RevokedQuiet
<1>2. ASSUME NEW s \in Workers,
             \/ ClaimInviteUse(s) \/ VerifyBan(s) \/ CreateUserWithPublicKey(s)
             \/ CreateSession(s) \/ Logout(s) \/ InsertInstanceBan(s) \/ LiftInstanceBan(s)
      PROVE  RevokedIsCut'
  <2>1. UNCHANGED <<device, conn>> /\ job[s].pc \notin CutPcs /\ \E k : Moves(s, k)
    BY <1>2, ClaimMoves, VerifyBanMoves, CreateMoves, CreateSessionMoves, LogoutMoves,
       InsertBanMoves, LiftMoves DEF CutPcs
  <2> QED BY <1>a, <2>1, MovesOne
<1>3. ASSUME NEW s \in Workers, Verifying(s) \/ Banning(s) PROVE RevokedIsCut'
  <2>1. UNCHANGED <<device, conn>> /\ job[s] = Idle /\ \E k : Moves(s, k)
    BY <1>3, VerifyMoves, BanMoves DEF Verifying, Banning
  <2> QED BY <1>a, <2>1, MovesOne, IdleOK DEF CutPcs
<1>4. ASSUME Background \/ Challenging PROVE RevokedIsCut'
  <2>1. UNCHANGED <<device, job>> /\ conn' \subseteq conn
    BY <1>4, BackgroundMoves DEF Background, Challenging, Challenge
  <2> QED BY <1>a, <2>1 DEF CutsStay
<1>5. ASSUME Restart PROVE RevokedIsCut'
  BY <1>5 DEF Restart, RevokedIsCut
<1> QED BY <1>1, <1>2, <1>3, <1>4, <1>5, RevokedSteps, NextCases DEF Plain

\* For every number of accounts, devices, connections and requests in flight: a
\* connection of a device that revokeDevice removed is about to be collected and
\* closed, or its handshake overtook the removal, or a panic left it open.
THEOREM RevokedDevicesCut == Spec => []RevokedIsCut
<1>1. Init => TypeInv /\ RevokedIsCut
  BY InitTypes DEF Init, RevokedIsCut
<1>2. TypeInv /\ RevokedIsCut /\ [Next]_vars => (TypeInv /\ RevokedIsCut)'
  BY NextTypes, NextRevoked
<1> QED BY <1>1, <1>2, PTL DEF Spec

-----------------------------------------------------------------------------
(***************************************************************************)
(* Bans.  The sessions of an account up to the one that a ban swept are    *)
(* gone; a request, and the session it makes, is past a ban it saw only    *)
(* when that ban is no longer in force; a connection that neither came     *)
(* late nor is about to be closed was opened with a session that no ban,   *)
(* stored or about to be, has swept.                                       *)
(***************************************************************************)
Gone(S, u, n) == \A i \in DOMAIN S : i <= n /\ S[i].user = u => ~S[i].live
Over(B, t, u, n) == \A b \in DOMAIN B : b <= n /\ B[b].user = u => B[b].lifted \/ ~(B[b].until > t)

BansSweep ==
  \A b \in DOMAIN ban :
    Swept(ban[b]) <= Len(session) /\ Gone(session, ban[b].user, Swept(ban[b]))
JobsSweep ==
  \A w \in Workers : job[w].pc = "banInsert" =>
    Cleared(job[w]) <= Len(session) /\ Gone(session, job[w].user, Cleared(job[w]))
SessionsSaw ==
  \A i \in DOMAIN session : session[i].seen <= Len(ban) /\ Over(ban, now, session[i].user, session[i].seen)
JobsSaw ==
  \A w \in Workers : job[w].pc \in {"backfill", "session"} =>
    job[w].seen <= Len(ban) /\ Over(ban, now, job[w].user, job[w].seen)
ConnsClear ==
  \A c \in conn : ~c.late /\ timer[c.user] = 0 =>
    /\ \A b \in DOMAIN ban : ban[b].user = c.user => c.sess > Swept(ban[b])
    /\ \A w \in Workers : job[w].pc = "banInsert" /\ job[w].user = c.user => c.sess > Cleared(job[w])

BanInv == BansSweep /\ JobsSweep /\ SessionsSaw /\ JobsSaw /\ ConnsClear

\* Numbers that the invariant compares.
LEMMA BanNumbers ==
  ASSUME TypeInv
  PROVE  /\ Len(session) \in Nat /\ Len(ban) \in Nat
         /\ DOMAIN session = 1 .. Len(session) /\ DOMAIN ban = 1 .. Len(ban)
         /\ \A b \in DOMAIN ban : Swept(ban[b]) \in Nat /\ ban[b].user \in Users
         /\ \A i \in DOMAIN session : session[i].seen \in Nat /\ session[i].user \in Users
         /\ \A w \in Workers : job[w].seen \in Nat /\ Cleared(job[w]) \in Nat
         /\ \A c \in conn : c.user \in Users /\ c.sess \in DOMAIN session
                            /\ session[c.sess].user = c.user
<1>1. session \in Seq(SessionRow) /\ ban \in Seq(BanRow) /\ conn \subseteq ConnRow
  BY DEF TypeInv, TablesOK
<1>2. \A b \in DOMAIN ban : ban[b] \in BanRow
  BY <1>1
<1>3. \A i \in DOMAIN session : session[i] \in SessionRow
  BY <1>1
<1>4. \A w \in Workers : job[w] \in Job
  BY DEF TypeInv, JobsOK
<1>5. \A b \in DOMAIN ban : Swept(ban[b]) \in Nat /\ ban[b].user \in Users
  BY <1>2 DEF BanRow, Swept
<1>6. \A i \in DOMAIN session : session[i].seen \in Nat /\ session[i].user \in Users
  BY <1>3 DEF SessionRow
<1>7. \A w \in Workers : job[w].seen \in Nat /\ Cleared(job[w]) \in Nat
  BY <1>4 DEF Job, Cleared
<1>8. \A c \in conn : c.user \in Users /\ c.sess \in DOMAIN session /\ session[c.sess].user = c.user
  BY <1>1 DEF ConnRow, TypeInv, ConnsOK
<1> QED BY <1>1, <1>5, <1>6, <1>7, <1>8

\* What is gone stays gone, what is over stays over.
LEMMA GoneStays ==
  ASSUME TypeInv, TypeInv', Kept, NEW u, NEW n \in Nat, n <= Len(session), Gone(session, u, n)
  PROVE  Gone(session', u, n) /\ n <= Len(session')
<1>1. /\ DOMAIN session = 1 .. Len(session) /\ DOMAIN session' = 1 .. Len(session')
      /\ Len(session) \in Nat /\ Len(session') \in Nat
  BY BanNumbers DEF TypeInv, TablesOK
<1>2. n <= Len(session')
  BY <1>1 DEF Kept
<1>3. \A i \in DOMAIN session' : i <= n => i \in DOMAIN session
  BY <1>1
<1> QED BY <1>2, <1>3 DEF Gone, Kept

\* A ban that is over is not in force again.
LEMMA OverStays ==
  ASSUME TypeInv, TypeInv', Kept, NEW u, NEW n \in Nat, n <= Len(ban), Over(ban, now, u, n)
  PROVE  Over(ban', now', u, n) /\ n <= Len(ban')
<1>1. /\ DOMAIN ban = 1 .. Len(ban) /\ DOMAIN ban' = 1 .. Len(ban')
      /\ Len(ban) \in Nat /\ Len(ban') \in Nat
  BY BanNumbers DEF TypeInv, TablesOK
<1>2. n <= Len(ban')
  BY <1>1 DEF Kept
<1>3. \A b \in DOMAIN ban' : b <= n => b \in DOMAIN ban
  BY <1>1
<1> QED BY <1>2, <1>3 DEF Over, Kept, InForce

\* The parts of the invariant, for the steps that do not touch them.
LEMMA BansSweepStays ==
  ASSUME TypeInv, TypeInv', BansSweep, Kept, DOMAIN ban' = DOMAIN ban PROVE BansSweep'
<1> SUFFICES ASSUME NEW b \in DOMAIN ban
             PROVE  Swept(ban'[b]) <= Len(session') /\ Gone(session', ban'[b].user, Swept(ban'[b]))
  BY DEF BansSweep
<1> DEFINE n == Swept(ban[b])
           u == ban[b].user
<1>1. Swept(ban'[b]) = n /\ ban'[b].user = u /\ n \in Nat /\ n <= Len(session) /\ Gone(session, u, n)
  BY BanNumbers DEF Kept, BansSweep
<1> HIDE DEF n, u
<1>2. Gone(session', u, n) /\ n <= Len(session')
  BY <1>1, GoneStays
<1> QED BY <1>1, <1>2

\* A ban about to be stored keeps the sessions behind it deleted.
LEMMA JobsSweepStays ==
  ASSUME TypeInv, TypeInv', JobsSweep, Kept,
         \A w \in Workers : job'[w].pc = "banInsert" => job'[w] = job[w]
  PROVE  JobsSweep'
<1> SUFFICES ASSUME NEW w \in Workers, job[w].pc = "banInsert", job'[w] = job[w]
             PROVE  Cleared(job'[w]) <= Len(session') /\ Gone(session', job'[w].user, Cleared(job'[w]))
  BY DEF JobsSweep
<1> DEFINE n == Cleared(job[w])
           u == job[w].user
<1>1. Cleared(job'[w]) = n /\ job'[w].user = u /\ n \in Nat /\ n <= Len(session) /\ Gone(session, u, n)
  BY BanNumbers DEF JobsSweep
<1> HIDE DEF n, u
<1>2. Gone(session', u, n) /\ n <= Len(session')
  BY <1>1, GoneStays
<1> QED BY <1>1, <1>2

\* A session that no step adds to stays past the bans it saw.
LEMMA SessionsSawStays ==
  ASSUME TypeInv, TypeInv', SessionsSaw, Kept, DOMAIN session' = DOMAIN session PROVE SessionsSaw'
<1> SUFFICES ASSUME NEW i \in DOMAIN session
             PROVE  session'[i].seen <= Len(ban') /\ Over(ban', now', session'[i].user, session'[i].seen)
  BY DEF SessionsSaw
<1> DEFINE n == session[i].seen
           u == session[i].user
<1>1. session'[i].seen = n /\ session'[i].user = u /\ n \in Nat /\ n <= Len(ban) /\ Over(ban, now, u, n)
  BY BanNumbers DEF Kept, SessionsSaw
<1> HIDE DEF n, u
<1>2. Over(ban', now', u, n) /\ n <= Len(ban')
  BY <1>1, OverStays
<1> QED BY <1>1, <1>2

\* A login in flight stays past the bans it saw.
LEMMA JobsSawStays ==
  ASSUME TypeInv, TypeInv', JobsSaw, Kept,
         \A w \in Workers : job'[w].pc \in {"backfill", "session"} =>
           \/ job'[w].seen = 0
           \/ /\ job[w].pc \in {"backfill", "session"}
              /\ job'[w].seen = job[w].seen /\ job'[w].user = job[w].user
  PROVE  JobsSaw'
<1> SUFFICES ASSUME NEW w \in Workers, job'[w].pc \in {"backfill", "session"}
             PROVE  job'[w].seen <= Len(ban') /\ Over(ban', now', job'[w].user, job'[w].seen)
  BY DEF JobsSaw
<1>1. CASE job'[w].seen = 0
  <2>1. Len(ban') \in Nat /\ DOMAIN ban' = 1 .. Len(ban')
    BY DEF TypeInv, TablesOK
  <2> QED BY <1>1, <2>1 DEF Over
<1>2. CASE /\ job[w].pc \in {"backfill", "session"}
           /\ job'[w].seen = job[w].seen /\ job'[w].user = job[w].user
  <2> DEFINE n == job[w].seen
             u == job[w].user
  <2>1. job'[w].seen = n /\ job'[w].user = u /\ n \in Nat /\ n <= Len(ban) /\ Over(ban, now, u, n)
    BY <1>2, BanNumbers DEF JobsSaw
  <2> HIDE DEF n, u
  <2>2. Over(ban', now', u, n) /\ n <= Len(ban')
    BY <2>1, OverStays
  <2> QED BY <2>1, <2>2
<1> QED BY <1>1, <1>2

\* A step that stores no ban and opens no connection.
LEMMA ConnsClearStays ==
  ASSUME TypeInv, ConnsClear, Kept, DOMAIN ban' = DOMAIN ban,
         \A w \in Workers : job'[w].pc = "banInsert" => job'[w] = job[w],
         \A c \in conn' : \E d \in conn : /\ c.user = d.user /\ c.sess = d.sess /\ c.late = d.late
                                          /\ timer'[c.user] = timer[c.user]
  PROVE  ConnsClear'
BY DEF ConnsClear, Kept

\* Tame steps, all that leave the numbers of sessions and bans as they are.
LEMMA BanQuiet ==
  ASSUME TypeInv, TypeInv', BanInv, Kept, Tame,
         DOMAIN session' = DOMAIN session, DOMAIN ban' = DOMAIN ban,
         \A c \in conn' : \E d \in conn : /\ c.user = d.user /\ c.sess = d.sess /\ c.late = d.late
                                          /\ timer'[c.user] = timer[c.user]
  PROVE  BanInv'
<1>1. \A w \in Workers : job'[w].pc = "banInsert" => job'[w] = job[w]
  BY IdleOK DEF Tame, Follows, CutPcs
<1>2. \A w \in Workers : job'[w].pc \in {"backfill", "session"} =>
        \/ job'[w].seen = 0
        \/ /\ job[w].pc \in {"backfill", "session"}
           /\ job'[w].seen = job[w].seen /\ job'[w].user = job[w].user
  BY IdleOK DEF Tame, Follows, CutPcs
<1> QED BY <1>1, <1>2, BansSweepStays, JobsSweepStays, SessionsSawStays, JobsSawStays,
           ConnsClearStays DEF BanInv

\* verify looked for a ban and found none.
LEMMA BanVerify ==
  ASSUME TypeInv, TypeInv', BanInv, NEW s \in Workers, VerifyBan(s) PROVE BanInv'
<1>1. /\ UNCHANGED <<now, session, ban, conn, timer>> /\ Kept
      /\ \E k : /\ Moves(s, k)
                /\ \/ Follows(job[s], k)
                   \/ /\ ActiveBans(job[s].user) = {} /\ k.pc = "backfill" /\ k.seen = Len(ban)
                      /\ k.user = job[s].user
  BY VerifyBanMoves, KeptSame
<1>2. PICK k : /\ Moves(s, k)
               /\ \/ Follows(job[s], k)
                  \/ /\ ActiveBans(job[s].user) = {} /\ k.pc = "backfill" /\ k.seen = Len(ban)
                     /\ k.user = job[s].user
  BY <1>1
<1>3. CASE Follows(job[s], k)
  BY <1>1, <1>2, <1>3, MovesOne, BanQuiet
<1>4. CASE /\ ActiveBans(job[s].user) = {} /\ k.pc = "backfill" /\ k.seen = Len(ban)
           /\ k.user = job[s].user
  <2>1. job'[s] = k /\ \A w \in Workers \ {s} : job'[w] = job[w]
    BY <1>2, MovesOne
  <2>2. Over(ban, now, job[s].user, Len(ban))
    BY <1>4 DEF Over, ActiveBans, InForce
  <2>3. Len(ban) \in Nat
    BY BanNumbers
  <2>4. JobsSaw'
    BY <1>1, <1>4, <2>1, <2>2, <2>3 DEF BanInv, JobsSaw, Over, InForce
  <2>5. \A w \in Workers : job'[w].pc = "banInsert" => job'[w] = job[w]
    BY <1>4, <2>1
  <2> QED BY <1>1, <2>4, <2>5, BansSweepStays, JobsSweepStays, SessionsSawStays,
             ConnsClearStays DEF BanInv
<1> QED BY <1>2, <1>3, <1>4

\* The new session is past every ban that has swept, and has seen what its
\* request saw.
LEMMA BanSession ==
  ASSUME TypeInv, TypeInv', BanInv, NEW s \in Workers, CreateSession(s) PROVE BanInv'
<1> DEFINE x == Len(session')
<1>1. /\ UNCHANGED <<now, ban, conn, timer>> /\ job[s].pc = "session"
      /\ Moves(s, Idle) /\ Kept
      /\ x = Len(session) + 1 /\ Len(session) \in Nat
      /\ \A i \in DOMAIN session : session'[i] = session[i]
      /\ session'[x].user = job[s].user /\ session'[x].seen = job[s].seen
  BY CreateSessionMoves
<1>2. DOMAIN session' = DOMAIN session \cup {x}
  BY <1>1 DEF TypeInv, TablesOK
<1> HIDE DEF x
<1>3. SessionsSaw'
  <2>1. job[s].seen <= Len(ban) /\ Over(ban, now, job[s].user, job[s].seen)
    BY <1>1 DEF BanInv, JobsSaw
  <2> QED BY <1>1, <1>2, <2>1 DEF BanInv, SessionsSaw, Over, InForce
<1>4. job'[s] = Idle /\ \A w \in Workers \ {s} : job'[w] = job[w]
  BY <1>1, MovesOne
<1>5. /\ \A w \in Workers : job'[w].pc = "banInsert" => job'[w] = job[w]
      /\ \A w \in Workers : job'[w].pc \in {"backfill", "session"} => job'[w] = job[w]
  BY <1>4, IdleOK
<1> QED BY <1>1, <1>3, <1>5, BansSweepStays, JobsSweepStays, JobsSawStays, ConnsClearStays DEF BanInv

\* instanceBan: every session there is goes, every connection there is will.
LEMMA BanBan ==
  ASSUME TypeInv, TypeInv', BanInv, NEW s \in Workers, NEW u \in Users, InstanceBan(s, u)
  PROVE  BanInv'
<1>1. /\ UNCHANGED <<now, ban, conn>> /\ timer' = [timer EXCEPT ![u] = @ + 1]
      /\ Kept /\ DOMAIN session' = DOMAIN session
      /\ \E k : /\ Moves(s, k) /\ k.pc = "banInsert" /\ k.user = u /\ Cleared(k) <= Len(session)
                /\ Cleared(k) \in Nat
                /\ \A i \in DOMAIN session : i <= Cleared(k) /\ session[i].user = u => ~session'[i].live
  BY BanMoves
<1>2. PICK k : /\ Moves(s, k) /\ k.pc = "banInsert" /\ k.user = u /\ Cleared(k) <= Len(session)
               /\ Cleared(k) \in Nat
               /\ \A i \in DOMAIN session : i <= Cleared(k) /\ session[i].user = u => ~session'[i].live
  BY <1>1
<1>3. job'[s] = k /\ \A w \in Workers \ {s} : job'[w] = job[w]
  BY <1>2, MovesOne
<1>4. Len(session') = Len(session)
  BY <1>1 DEF TypeInv, TablesOK
<1>5. JobsSweep'
  <2>1. Gone(session', u, Cleared(k))
    BY <1>1, <1>2 DEF Gone, Kept
  <2>2. ASSUME NEW w \in Workers, w # s, job'[w].pc = "banInsert"
        PROVE  Cleared(job'[w]) <= Len(session') /\ Gone(session', job'[w].user, Cleared(job'[w]))
    <3> DEFINE n == Cleared(job[w])
               v == job[w].user
    <3>1. Cleared(job'[w]) = n /\ job'[w].user = v /\ n \in Nat /\ n <= Len(session) /\ Gone(session, v, n)
      BY <1>3, <2>2, BanNumbers DEF BanInv, JobsSweep
    <3> HIDE DEF n, v
    <3>2. Gone(session', v, n) /\ n <= Len(session')
      BY <1>1, <3>1, GoneStays
    <3> QED BY <3>1, <3>2
  <2> QED BY <1>2, <1>3, <1>4, <2>1, <2>2 DEF JobsSweep, Gone
<1>6. ConnsClear'
  <2>1. timer \in [Users -> Nat]
    BY DEF TypeInv, TablesOK
  <2>2. timer'[u] > 0 /\ \A v \in Users : v # u => timer'[v] = timer[v]
    BY <1>1, <2>1
  <2>3. ASSUME NEW c \in conn, ~c.late, timer'[c.user] = 0
        PROVE  /\ \A b \in DOMAIN ban' : ban'[b].user = c.user => c.sess > Swept(ban'[b])
               /\ \A w \in Workers : job'[w].pc = "banInsert" /\ job'[w].user = c.user =>
                    c.sess > Cleared(job'[w])
    <3>1. c.user \in Users
      BY BanNumbers
    <3>2. c.user # u
      BY <2>2, <2>3
    <3>3. timer[c.user] = 0
      BY <2>2, <2>3, <3>1, <3>2
    <3> QED BY <1>1, <1>2, <1>3, <2>3, <3>2, <3>3 DEF BanInv, ConnsClear
  <2> QED BY <1>1, <2>3 DEF ConnsClear
<1>7. JobsSaw'
  <2>1. \A w \in Workers : job'[w].pc \in {"backfill", "session"} => job'[w] = job[w]
    BY <1>2, <1>3
  <2> QED BY <1>1, <2>1, JobsSawStays DEF BanInv
<1> QED BY <1>1, <1>5, <1>6, <1>7, BansSweepStays, SessionsSawStays DEF BanInv

\* The ban is stored: nobody has seen it, and it has swept what its request
\* deleted.
LEMMA BanInsert ==
  ASSUME TypeInv, TypeInv', BanInv, NEW s \in Workers, InsertInstanceBan(s) PROVE BanInv'
<1> DEFINE x == Len(ban')
<1>1. /\ UNCHANGED <<now, session, conn, timer>> /\ job[s].pc = "banInsert"
      /\ Moves(s, Idle) /\ Kept
      /\ x = Len(ban) + 1 /\ Len(ban) \in Nat
      /\ \A b \in DOMAIN ban : ban'[b] = ban[b]
      /\ ban'[x].user = job[s].user /\ Swept(ban'[x]) = Cleared(job[s])
  BY InsertBanMoves
<1>2. DOMAIN ban' = DOMAIN ban \cup {x}
  BY <1>1 DEF TypeInv, TablesOK
<1> HIDE DEF x
<1>3. BansSweep'
  BY <1>1, <1>2 DEF BanInv, BansSweep, JobsSweep, Gone
<1>4. job'[s] = Idle /\ \A w \in Workers \ {s} : job'[w] = job[w]
  BY <1>1, MovesOne
<1>5. /\ \A w \in Workers : job'[w].pc = "banInsert" => job'[w] = job[w]
      /\ \A w \in Workers : job'[w].pc \in {"backfill", "session"} => job'[w] = job[w]
  BY <1>4, IdleOK
<1>6. ConnsClear'
  BY <1>1, <1>2, <1>5 DEF BanInv, ConnsClear
<1> QED BY <1>1, <1>3, <1>5, <1>6, JobsSweepStays, SessionsSawStays, JobsSawStays DEF BanInv

\* A connection that does not come late was opened with a session that lives,
\* and which therefore no ban has swept.
LEMMA BanConnect ==
  ASSUME TypeInv, TypeInv', BanInv, NEW s \in Workers, RegisterClient(s) PROVE BanInv'
<1>1. /\ UNCHANGED <<now, session, ban, timer>> /\ Moves(s, Idle) /\ job[s].pc = "connect"
      /\ job[s].sess \in DOMAIN session /\ session[job[s].sess].user = job[s].user
      /\ \E c : /\ conn' = conn \cup {c} /\ c.user = job[s].user /\ c.sess = job[s].sess
                /\ c.late = ~session[job[s].sess].live
  BY RegisterClientMoves
<1>2. Kept /\ Tame
  BY <1>1, KeptSame, MovesOne
<1>3. \A w \in Workers : job'[w].pc = "banInsert" => job'[w] = job[w]
  BY <1>2, IdleOK DEF Tame, Follows, CutPcs
<1>4. \A w \in Workers : job'[w].pc \in {"backfill", "session"} =>
        \/ job'[w].seen = 0
        \/ /\ job[w].pc \in {"backfill", "session"}
           /\ job'[w].seen = job[w].seen /\ job'[w].user = job[w].user
  BY <1>2, IdleOK DEF Tame, Follows, CutPcs
<1>5. ConnsClear'
  <2>1. PICK c : /\ conn' = conn \cup {c} /\ c.user = job[s].user /\ c.sess = job[s].sess
                 /\ c.late = ~session[job[s].sess].live
    BY <1>1
  <2>2. ASSUME ~c.late
        PROVE  /\ \A b \in DOMAIN ban : ban[b].user = c.user => c.sess > Swept(ban[b])
               /\ \A w \in Workers : job[w].pc = "banInsert" /\ job[w].user = c.user =>
                    c.sess > Cleared(job[w])
    <3>a. session[job[s].sess].live
      BY <2>1, <2>2
    <3>1. c.sess \in DOMAIN session /\ session[c.sess].live /\ session[c.sess].user = c.user
          /\ c.sess \in Nat
      BY <1>1, <2>1, <3>a, BanNumbers
    <3>2. \A b \in DOMAIN ban : ban[b].user = c.user => c.sess > Swept(ban[b])
      BY <3>1, BanNumbers DEF BanInv, BansSweep, Gone
    <3>3. \A w \in Workers : job[w].pc = "banInsert" /\ job[w].user = c.user => c.sess > Cleared(job[w])
      BY <3>1, BanNumbers DEF BanInv, JobsSweep, Gone
    <3> QED BY <3>2, <3>3
  <2> QED BY <1>1, <1>3, <2>1, <2>2 DEF BanInv, ConnsClear
<1> QED BY <1>1, <1>2, <1>3, <1>4, <1>5, BansSweepStays, JobsSweepStays, SessionsSawStays,
           JobsSawStays DEF BanInv

\* Every step keeps what is known of the bans.
LEMMA NextBan == ASSUME TypeInv, TypeInv', BanInv, [Next]_vars PROVE BanInv'
<1>a. ASSUME Kept, Tame, DOMAIN session' = DOMAIN session, DOMAIN ban' = DOMAIN ban,
             conn' \subseteq conn, UNCHANGED timer
      PROVE  BanInv'
  BY <1>a, BanQuiet
<1>1. ASSUME NEW s \in Workers, Plain(s) PROVE BanInv'
  BY <1>1, <1>a, PlainSteps
<1>2. ASSUME NEW s \in Workers, ClaimInviteUse(s) PROVE BanInv'
  <2>1. UNCHANGED <<now, session, ban, conn, timer>>
        /\ \E k : Moves(s, k) /\ (k = Idle \/ k.pc = "lookup")
    BY <1>2, ClaimMoves
  <2>2. /\ \A w \in Workers : job'[w].pc = "banInsert" => job'[w] = job[w]
        /\ \A w \in Workers : job'[w].pc \in {"backfill", "session"} => job'[w] = job[w]
    BY <2>1, MovesOne, IdleOK
  <2> QED BY <2>1, <2>2, KeptSame, BansSweepStays, JobsSweepStays, SessionsSawStays, JobsSawStays,
             ConnsClearStays DEF BanInv
<1>3. ASSUME NEW s \in Workers, CreateUserWithPublicKey(s) \/ RevokeDeviceKey(s) PROVE BanInv'
  <2>1. UNCHANGED <<now, session, ban, conn, timer>> /\ \E k : Moves(s, k) /\ Follows(job[s], k)
    BY <1>3, CreateMoves, RevokeMoves
  <2> QED BY <1>a, <2>1, MovesOne, KeptSame
<1>4. ASSUME NEW s \in Workers, Logout(s) \/ Disconnected(s) \/ LiftInstanceBan(s) PROVE BanInv'
  <2>1. Kept /\ DOMAIN session' = DOMAIN session /\ DOMAIN ban' = DOMAIN ban /\ Moves(s, Idle)
        /\ conn' \subseteq conn /\ UNCHANGED timer
    BY <1>4, LogoutMoves, DisconnectedMoves, LiftMoves, KeptSame
  <2> QED BY <1>a, <2>1, MovesOne
<1>5. ASSUME NEW s \in Workers, ClosePanics(s) \/ RevokeAllDeviceKeys(s) PROVE BanInv'
  <2>1. /\ UNCHANGED <<now, session, ban, timer>> /\ Moves(s, Idle)
        /\ \A c \in conn' : \E d \in conn : c.user = d.user /\ c.sess = d.sess /\ c.late = d.late
    BY <1>5, PanicMoves, RevokeAllMoves DEF SameConn
  <2> QED BY <2>1, MovesOne, KeptSame, BanQuiet
<1>6. ASSUME NEW s \in Workers, Verifying(s) PROVE BanInv'
  <2>1. UNCHANGED <<now, session, ban, conn, timer>> /\ \E k : Moves(s, k) /\ k.pc = "account"
    BY <1>6, VerifyMoves DEF Verifying
  <2>2. /\ \A w \in Workers : job'[w].pc = "banInsert" => job'[w] = job[w]
        /\ \A w \in Workers : job'[w].pc \in {"backfill", "session"} => job'[w] = job[w]
    BY <2>1, MovesOne
  <2> QED BY <2>1, <2>2, KeptSame, BansSweepStays, JobsSweepStays, SessionsSawStays, JobsSawStays,
             ConnsClearStays DEF BanInv
<1>10. ASSUME NEW s \in Workers, DisconnectDevice(s) PROVE BanInv'
  <2>1. /\ UNCHANGED <<now, session, ban, timer>> /\ \E k : Moves(s, k) /\ k.pc = "closing"
        /\ \A c \in conn' : \E d \in conn : c.user = d.user /\ c.sess = d.sess /\ c.late = d.late
    BY <1>10, DisconnectMoves DEF SameConn
  <2>2. /\ \A w \in Workers : job'[w].pc = "banInsert" => job'[w] = job[w]
        /\ \A w \in Workers : job'[w].pc \in {"backfill", "session"} => job'[w] = job[w]
    BY <2>1, MovesOne
  <2> QED BY <2>1, <2>2, KeptSame, BansSweepStays, JobsSweepStays, SessionsSawStays, JobsSawStays,
             ConnsClearStays DEF BanInv
<1>7. ASSUME Background PROVE BanInv'
  <2>1. /\ Kept /\ UNCHANGED <<ban, job>> /\ DOMAIN session' = DOMAIN session /\ conn' \subseteq conn
        /\ \A c \in conn' : timer'[c.user] = timer[c.user]
    BY <1>7, BackgroundMoves DEF Background
  <2> QED BY <2>1, BanQuiet DEF Tame
<1>8. ASSUME Challenging PROVE BanInv'
  BY <1>8, <1>a, KeptSame DEF Challenging, Challenge, Tame
<1>9. ASSUME Restart PROVE BanInv'
  <2>1. UNCHANGED <<now, session, ban>> /\ conn' = {} /\ \A w \in Workers : job'[w] = Idle
    BY <1>9 DEF Restart, accounts
  <2> QED BY <2>1, KeptSame, BanQuiet DEF Tame
<1> QED BY <1>1, <1>2, <1>3, <1>4, <1>5, <1>6, <1>7, <1>8, <1>9, <1>10, BanVerify, BanSession, BanBan,
           BanInsert, BanConnect, NextCases DEF Plain, Banning

\* There is no ban at the start.
LEMMA InitBan == Init => BanInv
<1> SUFFICES ASSUME Init PROVE BanInv
  OBVIOUS
<1>1. \A w \in Workers : job[w].pc = "idle"
  BY IdleOK DEF Init
<1> QED BY <1>1 DEF Init, BanInv, BansSweep, JobsSweep, SessionsSaw, JobsSaw, ConnsClear

\* A ban's mark is a number of sessions.
LEMMA BansTyped == ASSUME TypeInv PROVE \A b \in DOMAIN ban : ban[b].swept \in Nat
<1>1. \A b \in DOMAIN ban : ban[b] \in BanRow
  BY DEF TypeInv, TablesOK
<1> QED BY <1>1 DEF BanRow

\* A live session was not swept, and a request that sees a ban makes none.
LEMMA BansFollow == TypeInv /\ BanInv => BannedIsCut
<1> SUFFICES ASSUME TypeInv, BanInv PROVE BannedIsCut
  OBVIOUS
<1>1. ASSUME NEW i \in DOMAIN session, NEW b \in ActiveBans(session[i].user)
      PROVE  session[i].seen < b
  BY BanNumbers DEF BanInv, SessionsSaw, Over, ActiveBans
<1>2. ASSUME NEW i \in DOMAIN session, NEW b \in ActiveBans(session[i].user), session[i].live
      PROVE  Slipped(i, b) \/ Unswept(i, b)
  <2>1. i > Swept(ban[b])
    BY <1>2, BanNumbers DEF BanInv, BansSweep, Gone, ActiveBans
  <2>2. i \in Nat /\ ban[b].swept \in Nat
    BY BanNumbers, BansTyped DEF ActiveBans
  <2> QED BY <1>1, <2>1, <2>2 DEF Slipped, Unswept, Swept
<1>3. ASSUME NEW c \in conn, NEW b \in ActiveBans(c.user), ~(timer[c.user] > 0), ~c.late
      PROVE  Slipped(c.sess, b) \/ Unswept(c.sess, b)
  <2>1. c.user \in Users /\ c.sess \in DOMAIN session /\ session[c.sess].user = c.user
    BY BanNumbers
  <2>2. timer[c.user] = 0
    BY <1>3, <2>1 DEF TypeInv, TablesOK
  <2>3. c.sess > Swept(ban[b])
    BY <1>3, <2>2 DEF BanInv, ConnsClear, ActiveBans
  <2>4. session[c.sess].seen < b
    BY <1>1, <2>1
  <2>5. c.sess \in Nat /\ ban[b].swept \in Nat
    BY <2>1, BanNumbers, BansTyped DEF ActiveBans
  <2> QED BY <2>3, <2>4, <2>5 DEF Slipped, Unswept, Swept
<1> QED BY <1>2, <1>3 DEF BannedIsCut

\* For every number of accounts, bans and requests in flight: a banned account
\* has no session that is older than the ban, unless the ban failed to delete
\* it, and none made by a request that saw the ban; its connections are about to
\* be closed, came late, or were opened with such a session.
THEOREM BannedAccountsCut == Spec => []BannedIsCut
<1>1. Init => TypeInv /\ BanInv
  BY InitTypes, InitBan
<1>2. TypeInv /\ BanInv /\ [Next]_vars => (TypeInv /\ BanInv)'
  BY NextTypes, NextBan
<1> QED BY <1>1, <1>2, BansFollow, PTL DEF Spec

-----------------------------------------------------------------------------
(***************************************************************************)
(* Admissions.                                                             *)
(***************************************************************************)
Invited == {s \in Workers : job[s].invited /\ ~At(s, "invite")}
AdmissionInv == IsFiniteSet(Registered) /\ IsFiniteSet(Invited) /\ AdmissionsBounded

\* One element more makes a finite set larger by at most one.
LEMMA OneMore ==
  ASSUME NEW S, IsFiniteSet(S), NEW x
  PROVE  /\ IsFiniteSet(S \cup {x}) /\ Cardinality(S) \in Nat /\ Cardinality(S \cup {x}) \in Nat
         /\ Cardinality(S \cup {x}) <= Cardinality(S) + 1
<1>1. IsFiniteSet(S \cup {x})
  BY FS_AddElement
<1>2. Cardinality(S \cup {x}) = Cardinality(S) \/ Cardinality(S \cup {x}) = Cardinality(S) + 1
  BY FS_AddElement
<1>3. Cardinality(S) \in Nat /\ Cardinality(S \cup {x}) \in Nat
  BY <1>1, FS_CardinalityType
<1> DEFINE a == Cardinality(S)
           b == Cardinality(S \cup {x})
<1>4. a \in Nat /\ b \in Nat /\ (b = a \/ b = a + 1)
  BY <1>2, <1>3
<1> HIDE DEF a, b
<1>5. b <= a + 1
  BY <1>4
<1> QED BY <1>1, <1>3, <1>5 DEF a, b

\* A step that admits nobody and whose requests only keep or drop their claim.
LEMMA AdmissionQuiet ==
  ASSUME TypeInv, AdmissionInv, UNCHANGED <<name, uses, admitted>>, Tame
  PROVE  AdmissionInv'
<1>1. Invited' \subseteq Invited
  BY IdleOK DEF Tame, Follows, CutPcs, Invited, At
<1>2. Registered' = Registered
  BY DEF Registered
<1>3. /\ IsFiniteSet(Invited') /\ Cardinality(Invited') <= Cardinality(Invited)
      /\ Cardinality(Invited') \in Nat /\ Cardinality(Invited) \in Nat
  BY <1>1, FS_Subset, FS_CardinalityType DEF AdmissionInv
<1>4. admitted + Cardinality(Invited') <= uses
  BY <1>3 DEF AdmissionInv, AdmissionsBounded, Invited, TypeInv, TablesOK
<1> QED BY <1>2, <1>3, <1>4 DEF AdmissionInv, AdmissionsBounded, Invited

\* A use is claimed by the one request that may then be admitted.
LEMMA AdmissionClaim ==
  ASSUME TypeInv, AdmissionInv, NEW s \in Workers, ClaimInviteUse(s) PROVE AdmissionInv'
<1>1. CASE uses' = uses /\ Moves(s, Idle)
  BY <1>1, ClaimMoves, MovesOne, AdmissionQuiet
<1>2. CASE uses < InviteUses /\ uses' = uses + 1 /\ \E k : Moves(s, k) /\ k.pc = "lookup"
  <2>1. UNCHANGED <<name, admitted>>
    BY ClaimMoves
  <2>2. \A w \in Workers \ {s} : job'[w] = job[w]
    BY <1>2, MovesOne
  <2>3. Invited' \subseteq Invited \cup {s}
    BY <2>2 DEF Invited, At
  <2>4. IsFiniteSet(Invited \cup {s}) /\ Cardinality(Invited \cup {s}) <= Cardinality(Invited) + 1
    BY OneMore DEF AdmissionInv
  <2>5. /\ IsFiniteSet(Invited') /\ Cardinality(Invited') <= Cardinality(Invited \cup {s})
        /\ Cardinality(Invited') \in Nat /\ Cardinality(Invited) \in Nat
        /\ Cardinality(Invited \cup {s}) \in Nat
    BY <2>3, <2>4, FS_Subset, FS_CardinalityType DEF AdmissionInv
  <2>6. Registered' = Registered
    BY <2>1 DEF Registered
  <2>7. uses \in Nat /\ admitted \in Nat /\ admitted + Cardinality(Invited) <= uses
    BY DEF AdmissionInv, AdmissionsBounded, Invited, TypeInv, TablesOK
  <2>8. admitted' + Cardinality(Invited') <= uses' /\ uses' <= InviteUses
    BY <1>2, <2>1, <2>4, <2>5, <2>7, SessionAssumption
  <2> QED BY <2>5, <2>6, <2>8 DEF AdmissionInv, AdmissionsBounded, Invited
<1> QED BY <1>1, <1>2, ClaimMoves

\* An account is made under the limit, and what it was admitted on is spent.
LEMMA AdmissionCreate ==
  ASSUME TypeInv, AdmissionInv, NEW s \in Workers, CreateUserWithPublicKey(s) PROVE AdmissionInv'
<1>0. /\ UNCHANGED uses /\ job[s].pc = "create" /\ job[s].user \in Users /\ job[s].name \in Names
      /\ \E k : Moves(s, k) /\ Follows(job[s], k) /\ ~k.invited
  BY CreateMoves
<1>1. CASE UNCHANGED <<name, admitted>>
  BY <1>0, <1>1, MovesOne, AdmissionQuiet
<1>2. CASE /\ Admissible(job[s]) /\ name' = [name EXCEPT ![job[s].user] = job[s].name]
           /\ admitted' = IF job[s].invited THEN admitted + 1 ELSE admitted
  <2>1. ~job'[s].invited /\ \A w \in Workers \ {s} : job'[w] = job[w]
    BY <1>0, MovesOne
  <2>2. Invited' = Invited \ {s}
    BY <2>1 DEF Invited, At
  <2>3. s \in Invited <=> job[s].invited
    BY <1>0 DEF Invited, At
  <2>4. /\ IsFiniteSet(Invited') /\ Cardinality(Invited') \in Nat /\ Cardinality(Invited) \in Nat
        /\ Cardinality(Invited') = IF s \in Invited THEN Cardinality(Invited) - 1
                                   ELSE Cardinality(Invited)
    BY <2>2, FS_RemoveElement, FS_CardinalityType DEF AdmissionInv
  <2>5. uses \in Nat /\ admitted \in Nat /\ admitted + Cardinality(Invited) <= uses
    BY DEF AdmissionInv, AdmissionsBounded, Invited, TypeInv, TablesOK
  <2>6. admitted' + Cardinality(Invited') <= uses'
    BY <1>0, <1>2, <2>3, <2>4, <2>5
  <2>7. Registered' = Registered \cup {job[s].user}
    BY <1>0, <1>2, SessionAssumption DEF Registered, TypeInv, TablesOK
  <2>8. IsFiniteSet(Registered') /\ Cardinality(Registered') <= UserLimit
    <3>1. Cardinality(Registered) \in Nat /\ Cardinality(Registered) < UserLimit
      BY <1>2, FS_CardinalityType DEF Admissible, AdmissionInv
    <3>2. IsFiniteSet(Registered') /\ Cardinality(Registered') <= Cardinality(Registered) + 1
          /\ Cardinality(Registered') \in Nat
      BY <2>7, OneMore DEF AdmissionInv
    <3> QED BY <3>1, <3>2, SessionAssumption
  <2> QED BY <1>0, <2>4, <2>6, <2>8 DEF AdmissionInv, AdmissionsBounded, Invited
<1> QED BY <1>1, <1>2, CreateMoves

\* Every step keeps the limits of registration.
LEMMA NextAdmission == ASSUME TypeInv, AdmissionInv, [Next]_vars PROVE AdmissionInv'
<1>1. ASSUME NEW s \in Workers, Plain(s) PROVE AdmissionInv'
  BY <1>1, PlainSteps, AdmissionQuiet
<1>2. ASSUME NEW s \in Workers,
             \/ RevokeDeviceKey(s) \/ CreateSession(s) \/ Logout(s) \/ RegisterClient(s)
             \/ Disconnected(s) \/ ClosePanics(s) \/ RevokeAllDeviceKeys(s) \/ InsertInstanceBan(s)
             \/ LiftInstanceBan(s)
      PROVE  AdmissionInv'
  <2>1. UNCHANGED <<name, uses, admitted>> /\ \E k : Moves(s, k) /\ (k = Idle \/ Follows(job[s], k))
    BY <1>2, RevokeMoves, CreateSessionMoves, LogoutMoves, RegisterClientMoves, DisconnectedMoves,
       PanicMoves, RevokeAllMoves, InsertBanMoves, LiftMoves
  <2> QED BY <2>1, MovesOne, AdmissionQuiet
<1>3. ASSUME NEW s \in Workers, VerifyBan(s) \/ Verifying(s) \/ Banning(s) \/ DisconnectDevice(s)
      PROVE  AdmissionInv'
  <2>1. UNCHANGED <<name, uses, admitted>>
        /\ \E k : Moves(s, k) /\ (Follows(job[s], k) \/ ~k.invited)
    BY <1>3, VerifyBanMoves, VerifyMoves, BanMoves, DisconnectMoves DEF Verifying, Banning
  <2>2. PICK k : Moves(s, k) /\ (Follows(job[s], k) \/ ~k.invited)
    BY <2>1
  <2>3. CASE Follows(job[s], k)
    BY <2>1, <2>2, <2>3, MovesOne, AdmissionQuiet
  <2>4. CASE ~k.invited
    <3>1. ~job'[s].invited /\ \A w \in Workers \ {s} : job'[w] = job[w]
      BY <2>2, <2>4, MovesOne
    <3>2. Invited' \subseteq Invited
      BY <3>1 DEF Invited, At
    <3>3. Registered' = Registered
      BY <2>1 DEF Registered
    <3>4. /\ IsFiniteSet(Invited') /\ Cardinality(Invited') <= Cardinality(Invited)
          /\ Cardinality(Invited') \in Nat /\ Cardinality(Invited) \in Nat
      BY <3>2, FS_Subset, FS_CardinalityType DEF AdmissionInv
    <3>5. admitted' + Cardinality(Invited') <= uses'
      BY <2>1, <3>4 DEF AdmissionInv, AdmissionsBounded, Invited, TypeInv, TablesOK
    <3> QED BY <2>1, <3>3, <3>4, <3>5 DEF AdmissionInv, AdmissionsBounded, Invited
  <2> QED BY <2>2, <2>3, <2>4
<1>4. ASSUME Background \/ Challenging PROVE AdmissionInv'
  <2>1. UNCHANGED <<name, uses, admitted, job>>
    BY <1>4, BackgroundMoves DEF Background, Challenging, Challenge
  <2> QED BY <2>1, AdmissionQuiet DEF Tame
<1>5. ASSUME Restart PROVE AdmissionInv'
  <2>1. UNCHANGED <<name, uses, admitted>> /\ \A w \in Workers : job'[w] = Idle
    BY <1>5 DEF Restart, accounts
  <2> QED BY <2>1, AdmissionQuiet DEF Tame
<1> QED BY <1>1, <1>2, <1>3, <1>4, <1>5, AdmissionClaim, AdmissionCreate, NextCases DEF Plain

\* Nobody is registered at the start.
LEMMA InitAdmission == Init => AdmissionInv
<1> SUFFICES ASSUME Init PROVE AdmissionInv
  OBVIOUS
<1>1. Registered = {} /\ Invited = {}
  BY IdleOK DEF Init, Registered, Invited
<1>2. IsFiniteSet(Registered) /\ Cardinality(Registered) = 0
  BY <1>1, FS_EmptySet
<1>3. IsFiniteSet(Invited) /\ Cardinality(Invited) = 0
  BY <1>1, FS_EmptySet
<1>4. admitted = 0 /\ uses = 0 /\ UserLimit \in Nat /\ InviteUses \in Nat
  BY SessionAssumption DEF Init
<1> QED BY <1>2, <1>3, <1>4 DEF AdmissionInv, AdmissionsBounded, Invited

\* For every limit and number of requests in flight: nobody is admitted on an
\* invite without a use of it, and the limits of the invite and of the instance
\* are kept.
THEOREM AdmissionsKept == Spec => []AdmissionsBounded
<1>1. Init => TypeInv /\ AdmissionInv
  BY InitTypes, InitAdmission
<1>2. TypeInv /\ AdmissionInv /\ [Next]_vars => (TypeInv /\ AdmissionInv)'
  BY NextTypes, NextAdmission
<1>3. AdmissionInv => AdmissionsBounded
  BY DEF AdmissionInv
<1> QED BY <1>1, <1>2, <1>3, PTL DEF Spec
=============================================================================
