----------------------------- MODULE GuildProofs -----------------------------
(***************************************************************************)
(* Proofs about Guild: the guild's one owner is its creator, and every     *)
(* admin was made one by the creator, for any number of users and requests *)
(* in flight, although each request decides on levels it read earlier.     *)
(*                                                                         *)
(* The argument follows what a request in flight may still do (JobInv).    *)
(* Once it has passed CheckTarget its target is not a creator who is still *)
(* owner, for nobody outranks that level; the level it writes is below the *)
(* level it read, so below Owner, and Admin only if it read Owner, which   *)
(* only the creator has.                                                   *)
(*                                                                         *)
(* The second half is about sanctions and limits.  SanctionsInv says what  *)
(* a request still knows of the bans or mutes it has looked up: those in   *)
(* force now are all newer than its look.  LimitsInv counts the requests   *)
(* in flight: those that hold a use of an invite and have not joined yet,  *)
(* and those that compared member_count and have not incremented it.       *)
(***************************************************************************)
EXTENDS Guild, SequenceTheorems, FiniteSetTheorems, TLAPS

\* The steps at which a job has an actor, a target, an invite code; the steps
\* of a guild that may not have its owner yet; the steps after CheckTarget.
ActorPcs == {"owner", "joinLevel", "joinBan", "add", "claimBan", "claimCap", "claimUse",
             "target", "write", "sendMember", "sendInsert"}
TargetPcs == {"target", "remove", "insert", "write", "active", "lift"}
CodePcs == {"invite", "claimBan", "claimCap", "claimUse"}
EarlyPcs == {"idle", "owner", "sendMember", "sendInsert"}
ActingPcs == {"remove", "insert", "write"}

\* What a job's record holds at each of its steps, and what it may still do to
\* the levels, given the creator, whether the guild is founded, and whether
\* its owner is gone for good.
JobInv(j, cr, fo, gone) ==
  /\ j \in Job
  /\ j.pc \in ActorPcs => j.actor \in Users
  /\ j.pc \in TargetPcs => j.target \in Users
  /\ j.pc \in CodePcs => j.code \in Codes
  /\ j.pc = "target" => j.kind \in {"kick", "ban", "mute", "role"}
  /\ j.pc = "insert" => j.kind \in {"ban", "mute"}
  /\ j.pc = "owner" => ~fo /\ j.actor = cr
  /\ j.pc \notin EarlyPcs => fo
  /\ j.pc = "target" /\ j.rank = Owner => j.actor = cr
  /\ j.pc = "write" => j.new # Owner /\ (j.new = Admin => j.actor = cr)
  /\ j.pc \in ActingPcs /\ j.target = cr => gone

Gone == ousted \/ guild # "live"

JobsInv == job \in [Workers -> Job] /\ \A s \in Workers : JobInv(job[s], creator, founded, Gone)

OneFounder == \A s, t \in Workers : At(s, "owner") /\ At(t, "owner") => s = t

\* Before the row exists nothing runs; before it has its owner it has no
\* members and no invites.
Unborn ==
  IF guild = "none" THEN ~founded /\ \A s \in Workers : job[s] = Idle ELSE creator \in Users
Unfounded ==
  ~founded => (\A u \in Users : level[u] = None) /\ (\A c \in Codes : invite[c] = None)

\* The types of the tables.
TablesOK ==
  /\ now \in Nat /\ count \in Nat
  /\ guild \in {"none", "live", "deleted"}
  /\ level \in [Users -> Levels \cup {None}]
  /\ sanction \in Seq(SanctionRow)
  /\ invite \in [Codes -> InviteRow \cup {None}]
  /\ creator \in Users \cup {None} /\ founded \in BOOLEAN
  /\ giver \in [Users -> Users \cup {None}]
  /\ ousted \in BOOLEAN /\ excused \subseteq Users
  /\ joined \in [Codes -> Nat]

Inv == TablesOK /\ JobsInv /\ OneFounder /\ Unborn /\ Unfounded /\ SoleOwner /\ AdminsByOwner

\* The levels' constants.
LEMMA LevelFacts ==
  /\ Member \in Levels /\ Mod \in Levels /\ Admin \in Levels /\ Owner \in Levels
  /\ Member # Owner /\ Admin # Owner /\ Member # Admin /\ None \notin Levels
  /\ \A k \in Levels : k \in Int /\ k <= Owner /\ (k # Owner => k <= Admin)
BY GuildAssumption DEF Member, Mod, Admin, Owner, Levels

\* A worker without a request satisfies the invariant of jobs.
LEMMA IdleInv ==
  ASSUME NEW cr, NEW fo, NEW gone
  PROVE  JobInv(Idle, cr, fo, gone) /\ Idle.pc = "idle"
BY GuildAssumption DEF JobInv, Job, Idle, Pcs, Levels, Member, Owner, ActorPcs, TargetPcs,
     CodePcs, EarlyPcs, ActingPcs

\* A step that leaves creator and founded alone and replaces one job by one
\* that satisfies the invariant keeps the jobs' part of the invariant.
LEMMA JobUpdate ==
  ASSUME NEW s \in Workers, NEW j, Inv, JobInv(j, creator, founded, Gone'),
         job' = [job EXCEPT ![s] = j], j.pc # "owner", guild # "none",
         UNCHANGED <<creator, founded>>, Gone => Gone', guild' # "none"
  PROVE  (JobsInv /\ OneFounder /\ Unborn)'
<1>1. job \in [Workers -> Job] /\ \A t \in Workers : JobInv(job[t], creator, founded, Gone)
  BY DEF Inv, JobsInv
<1>2. j \in Job
  BY DEF JobInv
<1>3. job' \in [Workers -> Job] /\ job'[s] = j /\ \A t \in Workers \ {s} : job'[t] = job[t]
  BY <1>1, <1>2
<1>4. ASSUME NEW t \in Workers, t # s
      PROVE  JobInv(job[t], creator, founded, Gone')
  BY <1>1 DEF JobInv
<1>5. JobsInv'
  BY <1>3, <1>4 DEF JobsInv
<1>6. OneFounder'
  BY <1>3 DEF Inv, OneFounder, At
<1>7. Unborn'
  BY DEF Inv, Unborn
<1> QED BY <1>5, <1>6, <1>7

\* A step inside a handler has a guild behind it.
LEMMA RunningGuild ==
  ASSUME NEW s \in Workers, Inv, job[s].pc # "idle"
  PROVE  guild \in {"live", "deleted"}
<1>1. Idle.pc = "idle"
  BY IdleInv
<1> QED BY <1>1 DEF Inv, Unborn, TablesOK

\* Starting a handler without touching the tables.
LEMMA StartInv ==
  ASSUME NEW s \in Workers, NEW j, Inv, JobInv(j, creator, founded, Gone), j.pc # "owner",
         guild # "none", Start(s, j), UNCHANGED <<tables, history>>
  PROVE  Inv'
<1>1. UNCHANGED <<now, guild, count, level, sanction, invite, creator, founded, giver, ousted,
                  joined, excused>>
  BY DEF tables, history
<1>2. Gone' = Gone /\ job' = [job EXCEPT ![s] = j]
  BY <1>1 DEF Gone, Start
<1>3. (JobsInv /\ OneFounder /\ Unborn)'
  BY <1>1, <1>2, JobUpdate
<1> QED BY <1>1, <1>3 DEF Inv, TablesOK, Unfounded, SoleOwner, AdminsByOwner

\* Ending a handler without touching the tables.
LEMMA DoneInv ==
  ASSUME NEW s \in Workers, Inv, job[s].pc # "idle", Done(s), UNCHANGED <<tables, history>>
  PROVE  Inv'
<1>1. UNCHANGED <<now, guild, count, level, sanction, invite, creator, founded, giver, ousted,
                  joined, excused>>
  BY DEF tables, history
<1>2. Gone' = Gone /\ job' = [job EXCEPT ![s] = Idle] /\ guild # "none"
  BY <1>1, RunningGuild DEF Gone, Done
<1>3. (JobsInv /\ OneFounder /\ Unborn)'
  BY <1>1, <1>2, IdleInv, JobUpdate
<1> QED BY <1>1, <1>3 DEF Inv, TablesOK, Unfounded, SoleOwner, AdminsByOwner

\* A member means a founded guild, and a live or deleted row.
LEMMA MemberMeansFounded ==
  ASSUME Inv, NEW u \in Users, IsMember(u)
  PROVE  founded /\ guild # "none" /\ level[u] \in Levels
BY DEF Inv, IsMember, Unfounded, Unborn, TablesOK

\* JoinServer keeps the invariant.
LEMMA JoinServerInv ==
  ASSUME NEW s \in Workers, NEW u \in Users, Inv, JoinServer(s, u)
  PROVE  Inv'
<1> DEFINE j == [Idle EXCEPT !.pc = "joinLevel", !.actor = u]
<1>1. founded /\ guild # "none"
  BY DEF JoinServer
<1>2. Start(s, j) /\ UNCHANGED <<tables, history>>
  BY DEF JoinServer
<1>3. JobInv(j, creator, founded, Gone) /\ j.pc # "owner"
  BY <1>1, GuildAssumption, LevelFacts DEF JobInv, Job, Idle, Pcs, AllKinds, ActorPcs, TargetPcs,
         CodePcs, EarlyPcs, ActingPcs
<1> HIDE DEF j
<1> QED BY <1>1, <1>2, <1>3, StartInv

\* CreateInvite keeps the invariant.
LEMMA CreateInviteInv ==
  ASSUME NEW s \in Workers, NEW u \in Users, NEW c \in Codes, NEW d \in Lifetimes, Inv, CreateInvite(s, u, c, d)
  PROVE  Inv'
<1> DEFINE j == [Idle EXCEPT !.pc = "invite", !.actor = u, !.code = c, !.until = now + d]
<1>1. founded /\ guild # "none" /\ now + d \in Nat
  BY GuildAssumption, MemberMeansFounded DEF CreateInvite, Inv, TablesOK
<1>2. Start(s, j) /\ UNCHANGED <<tables, history>>
  BY DEF CreateInvite
<1>3. JobInv(j, creator, founded, Gone) /\ j.pc # "owner"
  BY <1>1, GuildAssumption, LevelFacts DEF JobInv, Job, Idle, Pcs, AllKinds, ActorPcs, TargetPcs,
         CodePcs, EarlyPcs, ActingPcs
<1> HIDE DEF j
<1> QED BY <1>1, <1>2, <1>3, StartInv

\* ClaimInvite keeps the invariant.
LEMMA ClaimInviteInv ==
  ASSUME NEW s \in Workers, NEW u \in Users, NEW c \in Codes, Inv, ClaimInvite(s, u, c)
  PROVE  Inv'
<1> DEFINE j == [Idle EXCEPT !.pc = "claimBan", !.actor = u, !.code = c]
<1>1. founded /\ guild # "none"
  BY DEF ClaimInvite, Inv, Unfounded, Unborn
<1>2. Start(s, j) /\ UNCHANGED <<tables, history>>
  BY DEF ClaimInvite
<1>3. JobInv(j, creator, founded, Gone) /\ j.pc # "owner"
  BY <1>1, GuildAssumption, LevelFacts DEF JobInv, Job, Idle, Pcs, AllKinds, ActorPcs, TargetPcs,
         CodePcs, EarlyPcs, ActingPcs
<1> HIDE DEF j
<1> QED BY <1>1, <1>2, <1>3, StartInv

\* LeaveServer keeps the invariant.
LEMMA LeaveServerInv ==
  ASSUME NEW s \in Workers, NEW u \in Users, Inv, LeaveServer(s, u)
  PROVE  Inv'
<1> DEFINE j == [Idle EXCEPT !.pc = "remove", !.kind = "leave", !.actor = u, !.target = u]
<1>1. founded /\ guild # "none" /\ (u = creator => Gone)
  BY MemberMeansFounded DEF LeaveServer, Inv, SoleOwner, Gone
<1>2. Start(s, j) /\ UNCHANGED <<tables, history>>
  BY DEF LeaveServer
<1>3. JobInv(j, creator, founded, Gone) /\ j.pc # "owner"
  BY <1>1, GuildAssumption, LevelFacts DEF JobInv, Job, Idle, Pcs, AllKinds, ActorPcs, TargetPcs,
         CodePcs, EarlyPcs, ActingPcs
<1> HIDE DEF j
<1> QED BY <1>1, <1>2, <1>3, StartInv

\* KickMember keeps the invariant.
LEMMA KickMemberInv ==
  ASSUME NEW s \in Workers, NEW u \in Users, NEW t \in Users, Inv, KickMember(s, u, t)
  PROVE  Inv'
<1> DEFINE j == [Idle EXCEPT !.pc = "target", !.kind = "kick", !.actor = u, !.target = t,
                  !.rank = level[u]]
<1>1. founded /\ guild # "none" /\ level[u] \in Levels /\ (level[u] = Owner => u = creator)
  BY GuildAssumption, MemberMeansFounded DEF KickMember, Moderate, Inv, TablesOK, SoleOwner
<1>2. Start(s, j) /\ UNCHANGED <<tables, history>>
  BY DEF KickMember, Moderate
<1>3. JobInv(j, creator, founded, Gone) /\ j.pc # "owner"
  BY <1>1, GuildAssumption, LevelFacts DEF JobInv, Job, Idle, Pcs, AllKinds, ActorPcs, TargetPcs,
         CodePcs, EarlyPcs, ActingPcs
<1> HIDE DEF j
<1> QED BY <1>1, <1>2, <1>3, StartInv

\* BanMember keeps the invariant.
LEMMA BanMemberInv ==
  ASSUME NEW s \in Workers, NEW u \in Users, NEW t \in Users, NEW d \in Lifetimes, Inv, BanMember(s, u, t, d)
  PROVE  Inv'
<1> DEFINE j == [Idle EXCEPT !.pc = "target", !.kind = "ban", !.actor = u, !.target = t,
                  !.rank = level[u], !.until = d]
<1>1. founded /\ guild # "none" /\ level[u] \in Levels /\ (level[u] = Owner => u = creator) /\ d \in Nat
  BY GuildAssumption, MemberMeansFounded DEF BanMember, Moderate, Inv, TablesOK, SoleOwner
<1>2. Start(s, j) /\ UNCHANGED <<tables, history>>
  BY DEF BanMember, Moderate
<1>3. JobInv(j, creator, founded, Gone) /\ j.pc # "owner"
  BY <1>1, GuildAssumption, LevelFacts DEF JobInv, Job, Idle, Pcs, AllKinds, ActorPcs, TargetPcs,
         CodePcs, EarlyPcs, ActingPcs
<1> HIDE DEF j
<1> QED BY <1>1, <1>2, <1>3, StartInv

\* MuteMember keeps the invariant.
LEMMA MuteMemberInv ==
  ASSUME NEW s \in Workers, NEW u \in Users, NEW t \in Users, NEW d \in Lifetimes, Inv, MuteMember(s, u, t, d)
  PROVE  Inv'
<1> DEFINE j == [Idle EXCEPT !.pc = "target", !.kind = "mute", !.actor = u, !.target = t,
                  !.rank = level[u], !.until = d]
<1>1. founded /\ guild # "none" /\ level[u] \in Levels /\ (level[u] = Owner => u = creator) /\ d \in Nat
  BY GuildAssumption, MemberMeansFounded DEF MuteMember, Moderate, Inv, TablesOK, SoleOwner
<1>2. Start(s, j) /\ UNCHANGED <<tables, history>>
  BY DEF MuteMember, Moderate
<1>3. JobInv(j, creator, founded, Gone) /\ j.pc # "owner"
  BY <1>1, GuildAssumption, LevelFacts DEF JobInv, Job, Idle, Pcs, AllKinds, ActorPcs, TargetPcs,
         CodePcs, EarlyPcs, ActingPcs
<1> HIDE DEF j
<1> QED BY <1>1, <1>2, <1>3, StartInv

\* ChangeRole keeps the invariant.
LEMMA ChangeRoleInv ==
  ASSUME NEW s \in Workers, NEW u \in Users, NEW t \in Users, NEW n \in Levels, Inv, ChangeRole(s, u, t, n)
  PROVE  Inv'
<1> DEFINE j == [Idle EXCEPT !.pc = "target", !.kind = "role", !.actor = u, !.target = t,
                  !.rank = level[u], !.new = n]
<1>1. founded /\ guild # "none" /\ level[u] \in Levels /\ (level[u] = Owner => u = creator)
  BY GuildAssumption, MemberMeansFounded DEF ChangeRole, Moderate, Inv, TablesOK, SoleOwner
<1>2. Start(s, j) /\ UNCHANGED <<tables, history>>
  BY DEF ChangeRole, Moderate
<1>3. JobInv(j, creator, founded, Gone) /\ j.pc # "owner"
  BY <1>1, GuildAssumption, LevelFacts DEF JobInv, Job, Idle, Pcs, AllKinds, ActorPcs, TargetPcs,
         CodePcs, EarlyPcs, ActingPcs
<1> HIDE DEF j
<1> QED BY <1>1, <1>2, <1>3, StartInv

\* UnbanMember keeps the invariant.
LEMMA UnbanMemberInv ==
  ASSUME NEW s \in Workers, NEW u \in Users, NEW t \in Users, Inv, UnbanMember(s, u, t)
  PROVE  Inv'
<1> DEFINE j == [Idle EXCEPT !.pc = "active", !.kind = "ban", !.actor = u, !.target = t]
<1>1. founded /\ guild # "none"
  BY MemberMeansFounded DEF UnbanMember, Lift
<1>2. Start(s, j) /\ UNCHANGED <<tables, history>>
  BY DEF UnbanMember, Lift
<1>3. JobInv(j, creator, founded, Gone) /\ j.pc # "owner"
  BY <1>1, GuildAssumption, LevelFacts DEF JobInv, Job, Idle, Pcs, AllKinds, ActorPcs, TargetPcs,
         CodePcs, EarlyPcs, ActingPcs
<1> HIDE DEF j
<1> QED BY <1>1, <1>2, <1>3, StartInv

\* UnmuteMember keeps the invariant.
LEMMA UnmuteMemberInv ==
  ASSUME NEW s \in Workers, NEW u \in Users, NEW t \in Users, Inv, UnmuteMember(s, u, t)
  PROVE  Inv'
<1> DEFINE j == [Idle EXCEPT !.pc = "active", !.kind = "mute", !.actor = u, !.target = t]
<1>1. founded /\ guild # "none"
  BY MemberMeansFounded DEF UnmuteMember, Lift
<1>2. Start(s, j) /\ UNCHANGED <<tables, history>>
  BY DEF UnmuteMember, Lift
<1>3. JobInv(j, creator, founded, Gone) /\ j.pc # "owner"
  BY <1>1, GuildAssumption, LevelFacts DEF JobInv, Job, Idle, Pcs, AllKinds, ActorPcs, TargetPcs,
         CodePcs, EarlyPcs, ActingPcs
<1> HIDE DEF j
<1> QED BY <1>1, <1>2, <1>3, StartInv

\* DeleteServer keeps the invariant.
LEMMA DeleteServerInv ==
  ASSUME NEW s \in Workers, NEW u \in Users, Inv, DeleteServer(s, u)
  PROVE  Inv'
<1> DEFINE j == [Idle EXCEPT !.pc = "delete", !.actor = u]
<1>1. founded /\ guild # "none"
  BY LevelFacts, MemberMeansFounded DEF DeleteServer, IsMember
<1>2. Start(s, j) /\ UNCHANGED <<tables, history>>
  BY DEF DeleteServer
<1>3. JobInv(j, creator, founded, Gone) /\ j.pc # "owner"
  BY <1>1, GuildAssumption, LevelFacts DEF JobInv, Job, Idle, Pcs, AllKinds, ActorPcs, TargetPcs,
         CodePcs, EarlyPcs, ActingPcs
<1> HIDE DEF j
<1> QED BY <1>1, <1>2, <1>3, StartInv

\* SendMessage keeps the invariant.
LEMMA SendMessageInv ==
  ASSUME NEW s \in Workers, NEW u \in Users, Inv, SendMessage(s, u)
  PROVE  Inv'
<1>1. guild # "none" /\ Len(sanction) \in Nat /\ UNCHANGED <<tables, history>>
  BY DEF SendMessage, Inv, TablesOK
<1>2. ASSUME NEW n \in Nat,
             Start(s, [Idle EXCEPT !.pc = "sendMember", !.actor = u, !.seen = n])
      PROVE  Inv'
  <2> DEFINE j == [Idle EXCEPT !.pc = "sendMember", !.actor = u, !.seen = n]
  <2>1. JobInv(j, creator, founded, Gone) /\ j.pc # "owner"
    BY GuildAssumption, LevelFacts DEF JobInv, Job, Idle, Pcs, AllKinds, ActorPcs, TargetPcs,
         CodePcs, EarlyPcs, ActingPcs
  <2>2. Start(s, j)
    BY <1>2
  <2> HIDE DEF j
  <2> QED BY <1>1, <2>1, <2>2, StartInv
<1>4. \/ Start(s, [Idle EXCEPT !.pc = "sendMember", !.actor = u, !.seen = Len(sanction)])
      \/ Start(s, [Idle EXCEPT !.pc = "sendMember", !.actor = u])
  BY DEF SendMessage
<1>5. CASE Start(s, [Idle EXCEPT !.pc = "sendMember", !.actor = u, !.seen = Len(sanction)])
  <2> DEFINE n == Len(sanction)
  <2>1. n \in Nat /\ Start(s, [Idle EXCEPT !.pc = "sendMember", !.actor = u, !.seen = n])
    BY <1>1, <1>5
  <2> HIDE DEF n
  <2> QED BY <2>1, <1>2
<1>6. CASE Start(s, [Idle EXCEPT !.pc = "sendMember", !.actor = u])
  <2> DEFINE j == [Idle EXCEPT !.pc = "sendMember", !.actor = u]
  <2>1. JobInv(j, creator, founded, Gone) /\ j.pc # "owner"
    BY GuildAssumption, LevelFacts DEF JobInv, Job, Idle, Pcs, AllKinds, ActorPcs, TargetPcs,
         CodePcs, EarlyPcs, ActingPcs
  <2>2. Start(s, j)
    BY <1>6
  <2> HIDE DEF j
  <2> QED BY <1>1, <2>1, <2>2, StartInv
<1> QED BY <1>4, <1>5, <1>6

\* A handler that moves on without touching the tables.
LEMMA StepInv ==
  ASSUME NEW s \in Workers, NEW j, Inv, job[s].pc # "idle",
         JobInv(j, creator, founded, Gone), j.pc # "owner",
         job' = [job EXCEPT ![s] = j], UNCHANGED <<tables, history>>
  PROVE  Inv'
<1>1. UNCHANGED <<now, guild, count, level, sanction, invite, creator, founded, giver, ousted,
                  joined, excused>>
  BY DEF tables, history
<1>2. Gone' = Gone /\ guild # "none"
  BY <1>1, RunningGuild DEF Gone
<1>3. (JobsInv /\ OneFounder /\ Unborn)'
  BY <1>1, <1>2, JobUpdate
<1> QED BY <1>1, <1>3 DEF Inv, TablesOK, Unfounded, SoleOwner, AdminsByOwner

\* A job that moves to a step whose fields it has filled in, with the date of
\* a check or without, satisfies the invariant of jobs; it does not move to
\* the steps that say something of its levels.
LEMMA MoveInv ==
  ASSUME NEW s \in Workers, NEW pc \in Pcs, NEW n \in Nat, Inv, job[s].pc \notin EarlyPcs,
         pc \notin ActingPcs \cup {"owner", "target"},
         pc \in ActorPcs => job[s].actor \in Users,
         pc \in TargetPcs => job[s].target \in Users,
         pc \in CodePcs => job[s].code \in Codes
  PROVE  /\ JobInv([job[s] EXCEPT !.pc = pc], creator, founded, Gone)
         /\ JobInv([job[s] EXCEPT !.pc = pc, !.seen = n], creator, founded, Gone)
         /\ [job[s] EXCEPT !.pc = pc].pc = pc
         /\ [job[s] EXCEPT !.pc = pc, !.seen = n].pc = pc
<1>1. job[s] \in Job /\ founded
  BY DEF Inv, JobsInv, JobInv
<1>2. ASSUME NEW j \in Job, j.pc = pc, j.actor = job[s].actor, j.target = job[s].target,
             j.code = job[s].code
      PROVE  JobInv(j, creator, founded, Gone)
  BY <1>1, <1>2 DEF JobInv, ActingPcs
<1>3. [job[s] EXCEPT !.pc = pc] \in Job /\ [job[s] EXCEPT !.pc = pc, !.seen = n] \in Job
      /\ [job[s] EXCEPT !.pc = pc].pc = pc
      /\ [job[s] EXCEPT !.pc = pc, !.seen = n].pc = pc
  BY <1>1 DEF Job
<1> DEFINE a == [job[s] EXCEPT !.pc = pc]
           b == [job[s] EXCEPT !.pc = pc, !.seen = n]
<1>4. a.actor = job[s].actor /\ a.target = job[s].target /\ a.code = job[s].code
  BY <1>1 DEF Job
<1>5. b.actor = job[s].actor /\ b.target = job[s].target /\ b.code = job[s].code
  BY <1>1 DEF Job
<1>6. a \in Job /\ a.pc = pc /\ b \in Job /\ b.pc = pc
  BY <1>3
<1>7. JobInv(a, creator, founded, Gone) /\ JobInv(b, creator, founded, Gone)
  <2> HIDE DEF a, b
  <2> QED BY <1>2, <1>4, <1>5, <1>6
<1> QED BY <1>3, <1>7

\* The same as steps of the handler.
LEMMA GotoInv ==
  ASSUME NEW s \in Workers, NEW pc \in Pcs, Inv, job[s].pc \notin EarlyPcs,
         pc \notin ActingPcs \cup {"owner", "target"},
         pc \in ActorPcs => job[s].actor \in Users,
         pc \in TargetPcs => job[s].target \in Users,
         pc \in CodePcs => job[s].code \in Codes,
         Goto(s, pc), UNCHANGED <<tables, history>>
  PROVE  Inv'
<1> DEFINE j == [job[s] EXCEPT !.pc = pc]
<1>1. JobInv(j, creator, founded, Gone) /\ j.pc = pc
  BY MoveInv, 0 \in Nat
<1>2. job' = [job EXCEPT ![s] = j]
  BY DEF Goto
<1>3. job[s].pc # "idle" /\ pc # "owner"
  BY DEF EarlyPcs
<1> HIDE DEF j
<1> QED BY <1>1, <1>2, <1>3, StepInv

\* The same when the step also notes the number of sanctions it has seen.
LEMMA GotoSeenInv ==
  ASSUME NEW s \in Workers, NEW pc \in Pcs, NEW n \in Nat, Inv, job[s].pc \notin EarlyPcs,
         pc \notin ActingPcs \cup {"owner", "target"},
         pc \in ActorPcs => job[s].actor \in Users,
         pc \in TargetPcs => job[s].target \in Users,
         pc \in CodePcs => job[s].code \in Codes,
         job' = [job EXCEPT ![s].pc = pc, ![s].seen = n], UNCHANGED <<tables, history>>
  PROVE  Inv'
<1> DEFINE j == [job[s] EXCEPT !.pc = pc, !.seen = n]
<1>1. JobInv(j, creator, founded, Gone) /\ j.pc = pc
  BY MoveInv
<1>2. job' = [job EXCEPT ![s] = j]
  OBVIOUS
<1>3. job[s].pc # "idle" /\ pc # "owner"
  BY DEF EarlyPcs
<1> HIDE DEF j
<1> QED BY <1>1, <1>2, <1>3, StepInv

\* The lookups of joinServer, claimInvite and the unban and unmute handlers
\* keep the invariant.
LEMMA LookupInv ==
  ASSUME NEW s \in Workers, Inv,
         \/ JoinLevel(s) \/ JoinBan(s) \/ ClaimBan(s) \/ ClaimCap(s) \/ LiftActive(s)
  PROVE  Inv'
<1>1. JobInv(job[s], creator, founded, Gone) /\ Len(sanction) \in Nat
      /\ sanction \in Seq(SanctionRow)
  BY DEF Inv, JobsInv, TablesOK
<1>2. UNCHANGED <<tables, history>>
  BY DEF JoinLevel, JoinBan, ClaimBan, ClaimCap, LiftActive
<1>3. job[s].pc \in {"joinLevel", "joinBan", "claimBan", "claimCap", "active"}
  BY DEF JoinLevel, JoinBan, ClaimBan, ClaimCap, LiftActive, At
<1>4. job[s].pc \notin EarlyPcs /\ job[s].pc # "idle"
      /\ (job[s].pc # "active" => job[s].actor \in Users)
      /\ (job[s].pc = "active" => job[s].target \in Users)
      /\ (job[s].pc \in {"claimBan", "claimCap"} => job[s].code \in Codes)
  BY <1>1, <1>3 DEF JobInv, EarlyPcs, ActorPcs, TargetPcs, CodePcs
<1>5. ASSUME Done(s) PROVE Inv'
  BY <1>2, <1>4, <1>5, DoneInv
<1>6. ASSUME job[s].pc # "active", Goto(s, "joinBan") PROVE Inv'
  BY <1>2, <1>4, <1>6, GotoInv DEF Pcs, ActingPcs, ActorPcs, TargetPcs, CodePcs
<1>7. ASSUME job[s].pc = "claimCap", Goto(s, "claimUse") PROVE Inv'
  BY <1>2, <1>4, <1>7, GotoInv DEF Pcs, ActingPcs, ActorPcs, TargetPcs, CodePcs
<1>8. ASSUME NEW pc, NEW n \in Nat, job' = [job EXCEPT ![s].pc = pc, ![s].seen = n],
             \/ job[s].pc = "joinBan" /\ pc = "add"
             \/ job[s].pc = "claimBan" /\ pc = "claimCap"
             \/ job[s].pc = "active" /\ pc = "lift"
      PROVE  Inv'
  <2>1. pc \in Pcs /\ pc \notin ActingPcs \cup {"owner", "target"}
        /\ (pc \in ActorPcs => job[s].actor \in Users)
        /\ (pc \in TargetPcs => job[s].target \in Users)
        /\ (pc \in CodePcs => job[s].code \in Codes)
    BY <1>4, <1>8 DEF Pcs, ActingPcs, ActorPcs, TargetPcs, CodePcs
  <2> QED BY <1>2, <1>4, <1>8, <2>1, GotoSeenInv
<1>9. CASE JoinLevel(s)
  BY <1>5, <1>6, <1>9 DEF JoinLevel, At
<1>10. CASE JoinBan(s)
  BY <1>1, <1>5, <1>8, <1>10 DEF JoinBan, CheckBan, At
<1>11. CASE ClaimBan(s)
  BY <1>1, <1>5, <1>8, <1>11 DEF ClaimBan, CheckBan, At
<1>12. CASE ClaimCap(s)
  BY <1>5, <1>7, <1>12 DEF ClaimCap, At
<1>13. CASE LiftActive(s)
  <2>1. ActiveSanctions(job[s].kind, job[s].target) \subseteq Nat
    BY <1>1 DEF ActiveSanctions
  <2> QED BY <1>5, <1>8, <1>13, <2>1 DEF LiftActive, At
<1> QED BY <1>9, <1>10, <1>11, <1>12, <1>13

\* CheckTarget lets a job through only if it may act on its target.
LEMMA CheckTargetInv ==
  ASSUME NEW s \in Workers, Inv, CheckTarget(s)
  PROVE  Inv'
<1>1. JobInv(job[s], creator, founded, Gone) /\ job[s] \in Job /\ job[s].pc = "target"
      /\ UNCHANGED <<tables, history>>
  BY DEF Inv, JobsInv, CheckTarget, At
<1>2. CASE Done(s)
  BY <1>1, <1>2, DoneInv
<1>3. CASE Outranks(job[s]) /\ job' = [job EXCEPT ![s] = AfterTarget(job[s])]
  <2> DEFINE j == AfterTarget(job[s])
  <2>1. job[s].kind \in {"kick", "ban", "mute", "role"} /\ job[s].target \in Users
        /\ job[s].actor \in Users /\ founded /\ (job[s].rank = Owner => job[s].actor = creator)
    BY <1>1 DEF JobInv, ActorPcs, TargetPcs, EarlyPcs
  <2>3. job[s].rank \in Levels /\ job[s].new \in Levels
    BY <1>1 DEF Job
  <2>4. level[job[s].target] \in Levels /\ job[s].rank > level[job[s].target]
        /\ job[s].rank > job[s].new
    BY <1>3, <2>1, MemberMeansFounded DEF Outranks
  <2>5. job[s].target = creator => Gone
    BY <2>1, <2>3, <2>4, LevelFacts DEF Inv, SoleOwner, Gone, Levels, Owner, Member
  <2>6. job[s].new # Owner /\ (job[s].new = Admin => job[s].rank = Owner)
    BY <2>3, <2>4 DEF Levels, Owner, Member, Admin
  <2>7. j \in Job /\ j.pc \in ActingPcs /\ j.actor = job[s].actor /\ j.target = job[s].target
        /\ j.new = job[s].new /\ j.kind = job[s].kind
        /\ (j.pc = "insert" => job[s].kind \in {"ban", "mute"})
    <3>1. now + job[s].until \in Nat
      BY <1>1 DEF Inv, TablesOK, Job
    <3>2. CASE job[s].kind \in {"kick", "role"}
      BY <1>1, <3>2, LevelFacts DEF AfterTarget, Job, ActingPcs, Pcs
    <3>3. CASE job[s].kind \in {"ban", "mute"}
      BY <1>1, <3>1, <3>3, LevelFacts DEF AfterTarget, Job, ActingPcs, Pcs
    <3> QED BY <2>1, <3>2, <3>3
  <2>8. job' = [job EXCEPT ![s] = j]
    BY <1>3
  <2> HIDE DEF j
  <2>9. JobInv(j, creator, founded, Gone) /\ j.pc # "owner"
    BY <2>1, <2>5, <2>6, <2>7
       DEF JobInv, ActorPcs, TargetPcs, CodePcs, EarlyPcs, ActingPcs
  <2> QED BY <1>1, <2>8, <2>9, StepInv
<1> QED BY <1>2, <1>3 DEF CheckTarget

\* The rest of message.send keeps the invariant.
LEMMA SendInv ==
  ASSUME NEW s \in Workers, Inv, SendMember(s) \/ InsertMessage(s)
  PROVE  Inv'
<1>1. JobInv(job[s], creator, founded, Gone) /\ job[s] \in Job
      /\ job[s].pc \in {"sendMember", "sendInsert"} /\ UNCHANGED <<tables, history>>
  BY DEF Inv, JobsInv, SendMember, InsertMessage, At
<1>2. CASE Done(s)
  BY <1>1, <1>2, DoneInv
<1>3. CASE Goto(s, "sendInsert")
  <2> DEFINE j == [job[s] EXCEPT !.pc = "sendInsert"]
  <2>1. j \in Job /\ j.pc = "sendInsert" /\ j.actor \in Users
    BY <1>1 DEF Job, Pcs, JobInv, ActorPcs
  <2>2. job' = [job EXCEPT ![s] = j]
    BY <1>3 DEF Goto
  <2> HIDE DEF j
  <2>3. JobInv(j, creator, founded, Gone) /\ j.pc # "owner"
    BY <2>1 DEF JobInv, ActorPcs, TargetPcs, CodePcs, EarlyPcs, ActingPcs
  <2> QED BY <1>1, <2>2, <2>3, StepInv
<1> QED BY <1>2, <1>3 DEF SendMember, InsertMessage

\* createServer's row keeps the invariant: nothing else runs yet.
LEMMA CreateServerInv ==
  ASSUME NEW s \in Workers, NEW u \in Users, Inv, CreateServer(s, u)
  PROVE  Inv'
<1> DEFINE j == [Idle EXCEPT !.pc = "owner", !.actor = u]
<1>1. job \in [Workers -> Job] /\ guild = "none" /\ ~founded
      /\ (\A t \in Workers : job[t] = Idle)
      /\ (\A v \in Users : level[v] = None) /\ (\A c \in Codes : invite[c] = None)
  BY DEF Inv, JobsInv, Unborn, Unfounded, CreateServer
<1>2. job' = [job EXCEPT ![s] = j] /\ guild' = "live" /\ creator' = u
      /\ UNCHANGED <<now, count, level, sanction, invite, founded, giver, ousted, joined, excused>>
  BY DEF CreateServer, Start
<1>3. JobInv(j, u, founded, Gone') /\ j \in Job /\ j.pc = "owner"
  BY <1>1, GuildAssumption, LevelFacts DEF JobInv, Job, Idle, Pcs, AllKinds, ActorPcs, TargetPcs,
       CodePcs, EarlyPcs, ActingPcs
<1> HIDE DEF j
<1>4. job' \in [Workers -> Job] /\ job'[s] = j /\ \A t \in Workers \ {s} : job'[t] = Idle
  BY <1>1, <1>2, <1>3
<1>5. JobsInv'
  BY <1>2, <1>3, <1>4, IdleInv DEF JobsInv
<1>6. OneFounder'
  BY <1>4, IdleInv DEF OneFounder, At
<1>7. (Unborn /\ Unfounded)'
  BY <1>1, <1>2 DEF Unborn, Unfounded
<1>8. (SoleOwner /\ AdminsByOwner)'
  BY <1>1, <1>2, LevelFacts DEF SoleOwner, AdminsByOwner
<1>9. TablesOK'
  BY <1>2 DEF Inv, TablesOK
<1> QED BY <1>5, <1>6, <1>7, <1>8, <1>9 DEF Inv

\* createServer's second statement keeps it: no other founder is left.
LEMMA CreateServerOwnerInv ==
  ASSUME NEW s \in Workers, Inv, CreateServerOwner(s)
  PROVE  Inv'
<1> DEFINE u == job[s].actor
<1>1. job \in [Workers -> Job] /\ job[s].pc = "owner" /\ ~founded /\ u = creator /\ u \in Users
      /\ (\A t \in Workers \ {s} : job[t].pc # "owner")
      /\ (\A t \in Workers : JobInv(job[t], creator, founded, Gone))
  BY DEF Inv, JobsInv, JobInv, OneFounder, CreateServerOwner, At, ActorPcs
<1>2. job' = [job EXCEPT ![s] = Idle] /\ guild # "none"
      /\ UNCHANGED <<now, guild, count, sanction, invite, creator, giver, ousted, joined, excused>>
  BY <1>1, RunningGuild DEF CreateServerOwner, Done
<1>3. Idle \in Job /\ Idle.pc = "idle" /\ Gone' = Gone
  BY <1>2, IdleInv DEF JobInv, Gone
<1>4. job' \in [Workers -> Job] /\ job'[s] = Idle /\ \A t \in Workers \ {s} : job'[t] = job[t]
  BY <1>1, <1>2, <1>3
<1>5. ASSUME NEW t \in Workers \ {s}, NEW fo \in BOOLEAN
      PROVE  JobInv(job[t], creator, fo, Gone)
  BY <1>1 DEF JobInv, EarlyPcs
<1>6. founded' \in BOOLEAN
  BY <1>1 DEF CreateServerOwner, Inv, TablesOK
<1>7. JobsInv'
  BY <1>2, <1>3, <1>4, <1>5, <1>6, IdleInv DEF JobsInv
<1>8. OneFounder' /\ Unborn'
  BY <1>1, <1>2, <1>3, <1>4 DEF OneFounder, Unborn, At
<1>9. CASE guild = "live" /\ ~IsMember(u) /\ level' = [level EXCEPT ![u] = Owner] /\ founded'
  <2>1. TablesOK'
    BY <1>1, <1>2, <1>6, <1>9, LevelFacts DEF Inv, TablesOK
  <2>2. level \in [Users -> Levels \cup {None}] /\ level'[u] = Owner
        /\ \A v \in Users \ {u} : level'[v] = level[v]
    BY <1>1, <1>9 DEF Inv, TablesOK
  <2>3. SoleOwner' /\ AdminsByOwner' /\ Unfounded'
    BY <1>1, <1>2, <1>9, <2>2, LevelFacts DEF Inv, SoleOwner, AdminsByOwner, Unfounded
  <2> QED BY <1>7, <1>8, <2>1, <2>3 DEF Inv
<1>10. CASE UNCHANGED <<level, founded>>
  BY <1>2, <1>7, <1>8, <1>10 DEF Inv, TablesOK, SoleOwner, AdminsByOwner, Unfounded
<1> QED BY <1>9, <1>10 DEF CreateServerOwner

\* A new member has the lowest level and is not an owner who is still there.
LEMMA AddServerMemberInv ==
  ASSUME NEW s \in Workers, Inv, AddServerMember(s)
  PROVE  Inv'
<1> DEFINE u == job[s].actor
<1>1. job[s].pc = "add" /\ founded /\ u \in Users /\ job[s] \in Job /\ guild # "none"
      /\ UNCHANGED <<now, guild, count, sanction, invite, creator, founded, giver, ousted>>
  BY RunningGuild DEF Inv, JobsInv, JobInv, AddServerMember, At, ActorPcs, EarlyPcs
<1>2. Gone' = Gone
  BY <1>1 DEF Gone
<1>3. CASE Done(s) /\ UNCHANGED <<level, joined, excused>>
  <2>1. UNCHANGED <<tables, history>>
    BY <1>1, <1>3 DEF tables, history
  <2> QED BY <1>1, <1>3, <2>1, DoneInv
<1>4. CASE ~IsMember(u) /\ level' = [level EXCEPT ![u] = Member] /\ Goto(s, "count")
  <2> DEFINE j == [job[s] EXCEPT !.pc = "count"]
  <2>1. JobInv(j, creator, founded, Gone) /\ j.pc = "count"
    <3>1. "count" \in Pcs \ (ActingPcs \cup {"owner", "target"} \cup ActorPcs \cup TargetPcs \cup CodePcs)
      BY DEF Pcs, ActingPcs, ActorPcs, TargetPcs, CodePcs
    <3>2. job[s].pc \notin EarlyPcs
      BY <1>1 DEF EarlyPcs
    <3> QED BY <3>1, <3>2, MoveInv, 0 \in Nat
  <2>2. job' = [job EXCEPT ![s] = j]
    BY <1>4 DEF Goto
  <2> HIDE DEF j
  <2>3. (JobsInv /\ OneFounder /\ Unborn)'
    BY <1>1, <1>2, <2>1, <2>2, JobUpdate
  <2>4. joined' \in [Codes -> Nat] /\ excused' \subseteq Users
    <3>1. job[s].code \in Codes \cup {None} /\ joined \in [Codes -> Nat] /\ excused \subseteq Users
      BY <1>1 DEF Inv, TablesOK, Job
    <3>2. joined' = joined \/ (job[s].code # None /\ joined' = [joined EXCEPT ![job[s].code] = @ + 1])
          \/ UNCHANGED <<level, joined, excused>>
      BY DEF AddServerMember
    <3>3. excused' = excused \/ excused' = excused \cup {u}
      BY DEF AddServerMember
    <3>4. joined' \in [Codes -> Nat]
      BY <3>1, <3>2
    <3> QED BY <1>1, <3>1, <3>3, <3>4
  <2>5. TablesOK'
    BY <1>1, <1>4, <2>4, LevelFacts DEF Inv, TablesOK
  <2>6. level'[u] = Member /\ \A v \in Users \ {u} : level'[v] = level[v]
    BY <1>1, <1>4 DEF Inv, TablesOK
  <2>7. (SoleOwner /\ AdminsByOwner /\ Unfounded)'
    BY <1>1, <1>4, <2>6, LevelFacts
       DEF Inv, SoleOwner, AdminsByOwner, Unfounded, IsMember
  <2> QED BY <2>3, <2>5, <2>7 DEF Inv
<1> QED BY <1>3, <1>4 DEF AddServerMember

\* The statements that touch neither levels nor jobs' authority.
LEMMA CountAndInviteInv ==
  ASSUME NEW s \in Workers, Inv,
         \/ IncrementGuildMemberCount(s) \/ CreateInviteInsert(s) \/ LiftSanction(s)
  PROVE  Inv'
<1>1. job[s].pc \in {"count", "invite", "lift"} /\ job[s] \in Job /\ founded /\ guild # "none"
      /\ (job[s].pc = "invite" => job[s].code \in Codes)
  BY RunningGuild DEF Inv, JobsInv, JobInv, IncrementGuildMemberCount, CreateInviteInsert, LiftSanction,
       At, EarlyPcs, CodePcs
<1>2. job' = [job EXCEPT ![s] = Idle]
      /\ UNCHANGED <<now, guild, level, creator, founded, giver, ousted, joined, excused>>
  BY DEF IncrementGuildMemberCount, CreateInviteInsert, LiftSanction, Done, history
<1>3. Gone' = Gone
  BY <1>2 DEF Gone
<1>4. (JobsInv /\ OneFounder /\ Unborn)'
  BY <1>1, <1>2, <1>3, IdleInv, JobUpdate
<1>5. (SoleOwner /\ AdminsByOwner /\ Unfounded)'
  BY <1>1, <1>2 DEF Inv, SoleOwner, AdminsByOwner, Unfounded
<1>6. count' \in Nat /\ invite' \in [Codes -> InviteRow \cup {None}]
      /\ sanction' \in Seq(SanctionRow)
  <2>1. count \in Nat /\ invite \in [Codes -> InviteRow \cup {None}]
        /\ sanction \in Seq(SanctionRow)
    BY DEF Inv, TablesOK
  <2>2. CASE IncrementGuildMemberCount(s)
    BY <2>1, <2>2 DEF IncrementGuildMemberCount
  <2>3. CASE CreateInviteInsert(s)
    <3>1. [max |-> MaxUses, uses |-> 0, until |-> job[s].until] \in InviteRow
      BY <1>1, GuildAssumption DEF InviteRow, Job
    <3> QED BY <1>1, <2>1, <2>3, <3>1 DEF CreateInviteInsert, At
  <2>4. CASE LiftSanction(s)
    <3>1. ASSUME job[s].seen \in DOMAIN sanction,
                 sanction' = [sanction EXCEPT ![job[s].seen].lifted = TRUE]
          PROVE  sanction' \in Seq(SanctionRow)
      <4> DEFINE i == job[s].seen
                 r == [sanction[i] EXCEPT !.lifted = TRUE]
      <4>1. i \in 1 .. Len(sanction) /\ sanction[i] \in SanctionRow
        BY <2>1, <3>1
      <4>2. r \in SanctionRow
        BY <4>1 DEF SanctionRow
      <4>3. sanction' = [sanction EXCEPT ![i] = r]
        BY <3>1
      <4> HIDE DEF i, r
      <4> QED BY <2>1, <4>1, <4>2, <4>3, ExceptSeq
    <3> QED BY <2>1, <2>4, <3>1 DEF LiftSanction
  <2> QED BY <2>2, <2>3, <2>4
<1> QED BY <1>2, <1>4, <1>5, <1>6 DEF Inv, TablesOK

\* ClaimInviteUse keeps the invariant.
LEMMA ClaimInviteUseInv ==
  ASSUME NEW s \in Workers, Inv, ClaimInviteUse(s)
  PROVE  Inv'
<1> DEFINE c == job[s].code
<1>1. job[s].pc = "claimUse" /\ founded /\ c \in Codes /\ job[s].actor \in Users /\ guild # "none"
      /\ UNCHANGED <<now, guild, count, level, sanction, creator, founded, giver, ousted, joined,
                     excused>>
  BY RunningGuild
     DEF Inv, JobsInv, JobInv, ClaimInviteUse, At, CodePcs, ActorPcs, EarlyPcs, history
<1>2. CASE Done(s) /\ UNCHANGED invite
  <2>1. UNCHANGED <<tables, history>>
    BY <1>1, <1>2 DEF tables, history
  <2> QED BY <1>1, <1>2, <2>1, DoneInv
<1>3. CASE Usable(c) /\ invite' = [invite EXCEPT ![c].uses = @ + 1] /\ Goto(s, "add")
  <2> DEFINE j == [job[s] EXCEPT !.pc = "add"]
             r == [invite[c] EXCEPT !.uses = @ + 1]
  <2>1. JobInv(j, creator, founded, Gone) /\ j.pc = "add"
    <3>1. "add" \in Pcs \ (ActingPcs \cup {"owner", "target"} \cup TargetPcs \cup CodePcs)
      BY DEF Pcs, ActingPcs, TargetPcs, CodePcs
    <3>2. job[s].pc \notin EarlyPcs
      BY <1>1 DEF EarlyPcs
    <3> QED BY <1>1, <3>1, <3>2, MoveInv, 0 \in Nat
  <2>2. job' = [job EXCEPT ![s] = j] /\ Gone' = Gone
    BY <1>1, <1>3 DEF Goto, Gone
  <2>3. r \in InviteRow
    <3>1. invite[c] \in InviteRow
      BY <1>1, <1>3 DEF Inv, TablesOK, Usable
    <3> QED BY <3>1 DEF InviteRow
  <2>4. invite' = [invite EXCEPT ![c] = r]
    BY <1>3
  <2> HIDE DEF j, r
  <2>5. (JobsInv /\ OneFounder /\ Unborn)'
    BY <1>1, <2>1, <2>2, JobUpdate
  <2>6. TablesOK'
    BY <1>1, <2>3, <2>4 DEF Inv, TablesOK
  <2> QED BY <1>1, <2>5, <2>6 DEF Inv, SoleOwner, AdminsByOwner, Unfounded
<1> QED BY <1>2, <1>3 DEF ClaimInviteUse

\* A role that is written is not the owner's, and an admin's only from the
\* creator.
LEMMA UpdateServerMemberLevelInv ==
  ASSUME NEW s \in Workers, Inv, UpdateServerMemberLevel(s)
  PROVE  Inv'
<1> DEFINE j == job[s]
<1>1. j.pc = "write" /\ founded /\ j.actor \in Users /\ j.target \in Users /\ j.new \in Levels
      /\ j.new # Owner /\ (j.new = Admin => j.actor = creator) /\ (j.target = creator => Gone)
      /\ guild # "none"
  BY RunningGuild DEF Inv, JobsInv, JobInv, Job, UpdateServerMemberLevel, At, TargetPcs, ActorPcs,
       ActingPcs, EarlyPcs
<1>2. job' = [job EXCEPT ![s] = Idle] /\ UNCHANGED <<now, guild, count, sanction, invite, creator,
                                                   founded, ousted, joined, excused>>
  BY DEF UpdateServerMemberLevel, Done
<1>3. Gone' = Gone
  BY <1>2 DEF Gone
<1>4. (JobsInv /\ OneFounder /\ Unborn)'
  BY <1>1, <1>2, <1>3, IdleInv, JobUpdate
<1>5. CASE UNCHANGED <<level, giver>>
  BY <1>2, <1>4, <1>5 DEF Inv, TablesOK, SoleOwner, AdminsByOwner, Unfounded
<1>6. CASE /\ level' = [level EXCEPT ![j.target] = j.new]
           /\ giver' = [giver EXCEPT ![j.target] = IF j.new = Admin THEN j.actor ELSE None]
  <2>1. TablesOK'
    BY <1>1, <1>2, <1>6 DEF Inv, TablesOK
  <2>2. level'[j.target] = j.new /\ (j.new = Admin => giver'[j.target] = creator)
        /\ \A v \in Users \ {j.target} : level'[v] = level[v] /\ giver'[v] = giver[v]
    BY <1>1, <1>6 DEF Inv, TablesOK
  <2>3. SoleOwner'
    BY <1>1, <1>2, <2>2 DEF Inv, SoleOwner, Unborn, Gone
  <2>4. (AdminsByOwner /\ Unfounded)'
    BY <1>1, <1>2, <2>2 DEF Inv, AdminsByOwner, Unfounded
  <2> QED BY <1>4, <2>1, <2>3, <2>4 DEF Inv
<1> QED BY <1>5, <1>6 DEF UpdateServerMemberLevel

\* InsertBan and InsertMute keep the invariant.
LEMMA InsertSanctionInv ==
  ASSUME NEW s \in Workers, Inv, InsertSanction(s)
  PROVE  Inv'
<1>1. job[s].pc = "insert" /\ founded /\ job[s].target \in Users /\ job[s] \in Job
      /\ job[s].kind \in {"ban", "mute"} /\ guild # "none"
      /\ (job[s].target = creator => Gone)
      /\ UNCHANGED <<now, guild, count, level, invite, creator, founded, giver, ousted, joined,
                     excused>>
  BY RunningGuild
     DEF Inv, JobsInv, JobInv, InsertSanction, At, TargetPcs, ActingPcs, EarlyPcs, history
<1>2. Gone' = Gone
  BY <1>1 DEF Gone
<1>3. sanction' \in Seq(SanctionRow)
  <2>1. [kind |-> job[s].kind, user |-> job[s].target, until |-> job[s].until, lifted |-> FALSE]
          \in SanctionRow
    BY <1>1 DEF SanctionRow, Job
  <2>2. sanction \in Seq(SanctionRow)
    BY DEF Inv, TablesOK
  <2> DEFINE r == [kind |-> job[s].kind, user |-> job[s].target, until |-> job[s].until,
                   lifted |-> FALSE]
  <2>3. sanction' = sanction \/ sanction' = Append(sanction, r)
    BY DEF InsertSanction
  <2>4. r \in SanctionRow
    BY <2>1
  <2> HIDE DEF r
  <2> QED BY <2>2, <2>3, <2>4
<1>4. (TablesOK /\ SoleOwner /\ AdminsByOwner /\ Unfounded)'
  BY <1>1, <1>3 DEF Inv, TablesOK, SoleOwner, AdminsByOwner, Unfounded
<1>5. CASE Done(s)
  <2>1. (JobsInv /\ OneFounder /\ Unborn)'
    BY <1>1, <1>2, <1>5, IdleInv, JobUpdate DEF Done
  <2> QED BY <1>4, <2>1 DEF Inv
<1>6. CASE Goto(s, "remove")
  <2> DEFINE j == [job[s] EXCEPT !.pc = "remove"]
  <2>1. j \in Job /\ j.pc = "remove" /\ j.target = job[s].target
    BY <1>1 DEF Job, Pcs
  <2>2. job' = [job EXCEPT ![s] = j]
    BY <1>6 DEF Goto
  <2> HIDE DEF j
  <2>3. JobInv(j, creator, founded, Gone)
    BY <1>1, <2>1 DEF JobInv, ActorPcs, TargetPcs, CodePcs, EarlyPcs
  <2>4. (JobsInv /\ OneFounder /\ Unborn)'
    BY <1>1, <1>2, <2>1, <2>2, <2>3, JobUpdate
  <2> QED BY <1>4, <2>4 DEF Inv
<1> QED BY <1>5, <1>6 DEF InsertSanction

\* Taking a member out keeps the tables' part of the invariant unless the
\* member is the owner of a live guild.
LEMMA RemovalInv ==
  ASSUME NEW u \in Users, Inv, RemoveServerMember(u), u = creator => Gone',
         UNCHANGED <<now, guild, count, sanction, invite, creator, founded, joined>>,
         ousted' \in BOOLEAN, ousted => ousted'
  PROVE  (TablesOK /\ SoleOwner /\ AdminsByOwner /\ Unfounded)'
<1>1. level' = [level EXCEPT ![u] = None] /\ giver' = [giver EXCEPT ![u] = None]
      /\ excused' = excused \ {u}
  BY DEF RemoveServerMember
<1>2. TablesOK'
  BY <1>1 DEF Inv, TablesOK
<1>3. level'[u] = None /\ \A v \in Users \ {u} : level'[v] = level[v] /\ giver'[v] = giver[v]
  BY <1>1 DEF Inv, TablesOK
<1>4. (AdminsByOwner /\ Unfounded)'
  BY <1>3, LevelFacts DEF Inv, AdminsByOwner, Unfounded
<1>5. SoleOwner'
  <2>1. guild = "live" => creator \in Users
    BY DEF Inv, Unborn
  <2> QED BY <1>3, <2>1, LevelFacts DEF Inv, SoleOwner, Gone
<1> QED BY <1>2, <1>4, <1>5

\* The removal of kick, ban and leave keeps the invariant: their target is no
\* owner who is still there.
LEMMA RemoveInv ==
  ASSUME NEW s \in Workers, Inv, Remove(s)
  PROVE  Inv'
<1>1. job[s].pc = "remove" /\ founded /\ job[s].target \in Users /\ guild # "none"
      /\ (job[s].target = creator => Gone) /\ job' = [job EXCEPT ![s] = Idle]
      /\ UNCHANGED <<now, guild, count, sanction, invite, creator, founded, ousted, joined>>
  BY RunningGuild DEF Inv, JobsInv, JobInv, Remove, Done, At, TargetPcs, ActingPcs, EarlyPcs
<1>2. Gone' = Gone
  BY <1>1 DEF Gone
<1>3. (JobsInv /\ OneFounder /\ Unborn)'
  BY <1>1, <1>2, IdleInv, JobUpdate
<1>4. CASE RemoveServerMember(job[s].target)
  <2> DEFINE u == job[s].target
  <2>1. u \in Users /\ RemoveServerMember(u) /\ (u = creator => Gone')
        /\ ousted' \in BOOLEAN /\ (ousted => ousted')
    BY <1>1, <1>2, <1>4 DEF Inv, TablesOK
  <2> HIDE DEF u
  <2>2. (TablesOK /\ SoleOwner /\ AdminsByOwner /\ Unfounded)'
    BY <1>1, <2>1, RemovalInv
  <2> QED BY <1>3, <2>2 DEF Inv
<1>5. CASE UNCHANGED <<level, giver>> /\ excused' \subseteq Users
  BY <1>1, <1>3, <1>5 DEF Inv, TablesOK, SoleOwner, AdminsByOwner, Unfounded
<1>6. excused \subseteq Users
  BY DEF Inv, TablesOK
<1> QED BY <1>1, <1>4, <1>5, <1>6 DEF Remove

\* deleteServer's row takes all levels and invites with it.
LEMMA DeleteServerRowInv ==
  ASSUME NEW s \in Workers, Inv, DeleteServerRow(s)
  PROVE  Inv'
<1>1. job[s].pc = "delete" /\ founded /\ guild # "none" /\ job' = [job EXCEPT ![s] = Idle]
      /\ guild' = "deleted" /\ level' = [u \in Users |-> None] /\ giver' = [u \in Users |-> None]
      /\ sanction' = <<>> /\ invite' = [c \in Codes |-> None] /\ excused' = {}
      /\ UNCHANGED <<now, count, creator, founded, ousted, joined>>
  BY RunningGuild DEF Inv, JobsInv, JobInv, DeleteServerRow, Done, At, EarlyPcs
<1>2. Gone'
  BY <1>1 DEF Gone
<1>3. (JobsInv /\ OneFounder /\ Unborn)'
  BY <1>1, <1>2, IdleInv, JobUpdate
<1>4. TablesOK'
  BY <1>1 DEF Inv, TablesOK
<1>5. (SoleOwner /\ AdminsByOwner /\ Unfounded)'
  BY <1>1, LevelFacts DEF SoleOwner, AdminsByOwner, Unfounded
<1> QED BY <1>3, <1>4, <1>5 DEF Inv

\* An instance ban removes anyone, and remembers when it was the creator.
LEMMA InstanceBanInv ==
  ASSUME NEW u \in Users, Inv, InstanceBan(u)
  PROVE  Inv'
<1>1. founded /\ guild # "none" /\ RemoveServerMember(u) /\ ousted' = (ousted \/ u = creator)
      /\ UNCHANGED <<now, guild, count, sanction, invite, job, creator, founded, joined>>
  BY MemberMeansFounded DEF InstanceBan
<1>2. (u = creator => Gone') /\ (Gone => Gone') /\ ousted' \in BOOLEAN /\ (ousted => ousted')
  BY <1>1 DEF Gone, Inv, TablesOK
<1>3. (TablesOK /\ SoleOwner /\ AdminsByOwner /\ Unfounded)'
  BY <1>1, <1>2, RemovalInv
<1>4. \A t \in Workers : JobInv(job[t], creator, founded, Gone')
  BY <1>2 DEF Inv, JobsInv, JobInv
<1>5. (JobsInv /\ OneFounder /\ Unborn)'
  BY <1>1, <1>4 DEF Inv, JobsInv, OneFounder, Unborn, At
<1> QED BY <1>3, <1>5 DEF Inv

\* A handler that stops where it is only ends its job.
LEMMA AbandonInv ==
  ASSUME NEW s \in Workers, Inv, Abandon(s)
  PROVE  Inv'
<1>1. job[s] # Idle /\ job' = [job EXCEPT ![s] = Idle]
      /\ UNCHANGED <<now, guild, count, level, sanction, invite, creator, founded, giver, ousted,
                     joined>>
  BY DEF Abandon, Done, tables
<1>2. guild # "none" /\ Gone' = Gone
  BY <1>1 DEF Inv, Unborn, Gone
<1>3. (JobsInv /\ OneFounder /\ Unborn)'
  BY <1>1, <1>2, IdleInv, JobUpdate
<1>4. excused' \subseteq Users
  <2>1. job[s].pc = "remove" => job[s].target \in Users
    BY DEF Inv, JobsInv, JobInv, TargetPcs
  <2> QED BY <2>1 DEF Abandon, At, Inv, TablesOK
<1> QED BY <1>1, <1>3, <1>4 DEF Inv, TablesOK, SoleOwner, AdminsByOwner, Unfounded

\* A guild that is not there satisfies the invariant.
LEMMA InitInv == Init => Inv
<1> SUFFICES ASSUME Init PROVE Inv
  OBVIOUS
<1>1. TablesOK
  <2>1. sanction \in Seq(SanctionRow)
    BY DEF Init
  <2>2. /\ now \in Nat /\ count \in Nat /\ guild \in {"none", "live", "deleted"}
        /\ level \in [Users -> Levels \cup {None}]
        /\ invite \in [Codes -> InviteRow \cup {None}]
    BY DEF Init
  <2>3. /\ creator \in Users \cup {None} /\ founded \in BOOLEAN
        /\ giver \in [Users -> Users \cup {None}]
        /\ ousted \in BOOLEAN /\ excused \subseteq Users
        /\ joined \in [Codes -> Nat]
    BY DEF Init
  <2> QED BY <2>1, <2>2, <2>3 DEF TablesOK
<1>2. Idle \in Job
  BY IdleInv DEF JobInv
<1>3. JobsInv /\ OneFounder /\ Unborn
  BY <1>2, IdleInv DEF Init, JobsInv, OneFounder, Unborn, At
<1>4. Unfounded /\ SoleOwner /\ AdminsByOwner
  BY LevelFacts DEF Init, Unfounded, SoleOwner, AdminsByOwner
<1> QED BY <1>1, <1>3, <1>4 DEF Inv

\* Every step keeps the invariant.
LEMMA NextInv == Inv /\ [Next]_vars => Inv'
<1> SUFFICES ASSUME Inv, [Next]_vars PROVE Inv'
  OBVIOUS
<1>1. CASE UNCHANGED vars
  BY <1>1 DEF vars, Inv, TablesOK, JobsInv, OneFounder, Unborn, Unfounded, SoleOwner,
       AdminsByOwner, Gone, At
<1>2. CASE Tick
  BY <1>2 DEF Tick, history, Inv, TablesOK, JobsInv, OneFounder, Unborn, Unfounded, SoleOwner,
       AdminsByOwner, Gone, At
<1>3. ASSUME NEW s \in Workers, NEW u \in Users,
             \/ CreateServer(s, u) \/ JoinServer(s, u) \/ LeaveServer(s, u)
             \/ SendMessage(s, u) \/ DeleteServer(s, u)
             \/ \E c \in Codes : ClaimInvite(s, u, c) \/ \E d \in Lifetimes : CreateInvite(s, u, c, d)
      PROVE  Inv'
  BY <1>3, CreateServerInv, JoinServerInv, LeaveServerInv, SendMessageInv, DeleteServerInv,
     ClaimInviteInv, CreateInviteInv
<1>4. ASSUME NEW s \in Workers, NEW u \in Users, NEW t \in Users,
             \/ KickMember(s, u, t) \/ UnbanMember(s, u, t) \/ UnmuteMember(s, u, t)
             \/ \E d \in Lifetimes : BanMember(s, u, t, d) \/ MuteMember(s, u, t, d)
             \/ \E n \in Levels : ChangeRole(s, u, t, n)
      PROVE  Inv'
  BY <1>4, KickMemberInv, UnbanMemberInv, UnmuteMemberInv, BanMemberInv, MuteMemberInv, ChangeRoleInv
<1>5. ASSUME NEW s \in Workers,
             \/ CreateServerOwner(s) \/ JoinLevel(s) \/ JoinBan(s) \/ AddServerMember(s)
             \/ IncrementGuildMemberCount(s) \/ CreateInviteInsert(s) \/ ClaimBan(s)
             \/ ClaimCap(s) \/ ClaimInviteUse(s) \/ CheckTarget(s) \/ UpdateServerMemberLevel(s)
             \/ InsertSanction(s) \/ Remove(s) \/ LiftActive(s) \/ LiftSanction(s)
             \/ SendMember(s) \/ InsertMessage(s) \/ DeleteServerRow(s) \/ Abandon(s)
      PROVE  Inv'
  BY <1>5, CreateServerOwnerInv, LookupInv, AddServerMemberInv, CountAndInviteInv, ClaimInviteUseInv,
     CheckTargetInv, UpdateServerMemberLevelInv, InsertSanctionInv, RemoveInv, SendInv,
     DeleteServerRowInv, AbandonInv
<1>6. ASSUME NEW u \in Users, InstanceBan(u) PROVE Inv'
  BY <1>6, InstanceBanInv
<1> QED BY <1>1, <1>2, <1>3, <1>4, <1>5, <1>6 DEF Next

\* The invariant holds in every state of a guild's life.
THEOREM Invariance == Spec => []Inv
BY InitInv, NextInv, PTL DEF Spec

\* The tables and the requests in flight keep their types.
THEOREM TypeCorrect == Spec => []TypeOK
<1>1. Inv => TypeOK
  BY DEF Inv, TablesOK, JobsInv, TypeOK
<1> QED BY <1>1, Invariance, PTL

\* No interleaving of role changes, kicks, bans, leaves, joins and a deletion
\* makes a second owner of a guild or takes its creator's ownership away.
THEOREM OwnerIsCreator == Spec => []SoleOwner
<1>1. Inv => SoleOwner
  BY DEF Inv
<1> QED BY <1>1, Invariance, PTL

\* Nobody but the creator ever made an admin, whatever level changeRole had
\* read when the actor was demoted meanwhile.
THEOREM AdminsAreOwnersChoice == Spec => []AdminsByOwner
<1>1. Inv => AdminsByOwner
  BY DEF Inv
<1> QED BY <1>1, Invariance, PTL


-----------------------------------------------------------------------------
(***************************************************************************)
(* Sanctions and limits.  What a request in flight knows of the sanctions  *)
(* it looked up (Looked), what it has claimed of an invite (InvitesHeld)   *)
(* and of the cap (CapHeld).                                               *)
(***************************************************************************)
BanPcs == {"claimCap", "claimUse", "add"}
SendPcs == {"sendMember", "sendInsert"}
CountPcs == {"joinLevel", "joinBan", "claimUse", "add", "count"}
WatchedPcs == BanPcs \cup SendPcs \cup CountPcs

\* A request that looked for a sanction of its actor, and when.
Looks(j, k, u, n) ==
  /\ j.actor = u /\ j.seen = n
  /\ \/ k = "ban" /\ j.pc \in BanPcs
     \/ k = "mute" /\ j.pc \in SendPcs

\* No sanction that was there at that time is in force now.
Clear(k, u, n) ==
  /\ guild = "live" => n <= Len(sanction)
  /\ \A i \in ActiveSanctions(k, u) : i > n

Looked ==
  \A s \in Workers, k \in {"ban", "mute"}, u \in Users, n \in Nat :
    Looks(job[s], k, u, n) => Clear(k, u, n)

\* Nobody is sanctioned in a guild that has no owner yet.
NoneYet == ~founded => sanction = <<>>

\* Requests that hold a use of an invite; requests that will still count.
Claims(c) == {s \in Workers : At(s, "add") /\ job[s].code = c}
Counting == {s \in Workers : job[s].pc \in CountPcs}

NoCode == \A s \in Workers : job[s].pc \in {"joinLevel", "joinBan"} => job[s].code = None

InvitesHeld ==
  /\ \A c \in Codes :
       IF invite[c] = None THEN guild # "deleted" => joined[c] = 0 /\ Claims(c) = {}
       ELSE /\ joined[c] + Cardinality(Claims(c)) <= invite[c].uses
            /\ invite[c].uses <= invite[c].max
  /\ guild = "deleted" => \A c \in Codes : invite[c] = None

CapHeld == count + Cardinality(Counting) <= Cap + Cardinality(Workers) - 1

LimitsInv == NoCode /\ InvitesHeld /\ CapHeld
SanctionsInv == Looked /\ NoneYet /\ BannedIsOut

(***************************************************************************)
(* Where the requests go.                                                  *)
(***************************************************************************)
Others(s) == \A t \in Workers \ {s} : job'[t] = job[t]
Aside(s) == Others(s) /\ job[s].pc # "remove" /\ job'[s].pc \notin WatchedPcs
Same(s) == /\ job'[s].actor = job[s].actor /\ job'[s].seen = job[s].seen
           /\ job'[s].code = job[s].code
Hop(s, from, to) == Others(s) /\ job[s].pc = from /\ job'[s].pc = to

\* A request whose record is replaced.
LEMMA Replaced ==
  ASSUME NEW s \in Workers, NEW j, job \in [Workers -> Job], job' = [job EXCEPT ![s] = j]
  PROVE  Others(s) /\ job'[s] = j
BY DEF Others

\* A request that begins.
LEMMA Begins ==
  ASSUME NEW s \in Workers, NEW j, Inv, Start(s, j)
  PROVE  Others(s) /\ job'[s] = j /\ job[s].pc = "idle" /\ job[s] = Idle
BY IdleInv, Replaced DEF Start, Inv, JobsInv

\* A request that ends.
LEMMA Finishes ==
  ASSUME NEW s \in Workers, Inv, Done(s)
  PROVE  Others(s) /\ job'[s] = Idle /\ job'[s].pc = "idle" /\ job'[s].pc \notin WatchedPcs
BY IdleInv, Replaced DEF Done, Inv, JobsInv, WatchedPcs, BanPcs, SendPcs, CountPcs

\* A request that moves on with what it holds.
LEMMA Goes ==
  ASSUME NEW s \in Workers, NEW pc, Inv, Goto(s, pc)
  PROVE  Hop(s, job[s].pc, pc) /\ Same(s) /\ job'[s].kind = job[s].kind
         /\ job'[s].target = job[s].target
<1> DEFINE j == [job[s] EXCEPT !.pc = pc]
<1>1. job \in [Workers -> Job] /\ job[s] \in Job /\ job' = [job EXCEPT ![s] = j]
  BY DEF Goto, Inv, JobsInv
<1>2. j.pc = pc /\ j.actor = job[s].actor /\ j.seen = job[s].seen /\ j.code = job[s].code
      /\ j.kind = job[s].kind /\ j.target = job[s].target
  BY <1>1 DEF Job
<1> HIDE DEF j
<1> QED BY <1>1, <1>2, Replaced DEF Hop, Same

\* The requests that start aside, and the lookups that concern no limit.
LEMMA AsideStarts ==
  ASSUME NEW s \in Workers, NEW u \in Users, Inv,
         \/ LeaveServer(s, u) \/ DeleteServer(s, u)
         \/ \E c \in Codes : ClaimInvite(s, u, c) \/ \E d \in Lifetimes : CreateInvite(s, u, c, d)
         \/ \E t \in Users :
              \/ KickMember(s, u, t) \/ UnbanMember(s, u, t) \/ UnmuteMember(s, u, t)
              \/ \E d \in Lifetimes : BanMember(s, u, t, d) \/ MuteMember(s, u, t, d)
              \/ \E n \in Levels : ChangeRole(s, u, t, n)
  PROVE  Aside(s) /\ UNCHANGED <<tables, history>>
<1>1. ASSUME NEW j, Start(s, j), j.pc \in {"remove", "delete", "claimBan", "invite", "target", "active"}
      PROVE  Aside(s)
  <2>1. j.pc \notin WatchedPcs
    BY <1>1 DEF WatchedPcs, BanPcs, SendPcs, CountPcs
  <2> QED BY <1>1, <2>1, Begins DEF Aside
<1>2. CASE LeaveServer(s, u)
  <2> DEFINE j == [Idle EXCEPT !.pc = "remove", !.kind = "leave", !.actor = u, !.target = u]
  <2>1. Start(s, j) /\ j.pc = "remove" /\ UNCHANGED <<tables, history>>
    BY <1>2 DEF LeaveServer, Idle
  <2> QED BY <1>1, <2>1
<1>3. CASE DeleteServer(s, u)
  <2> DEFINE j == [Idle EXCEPT !.pc = "delete", !.actor = u]
  <2>1. Start(s, j) /\ j.pc = "delete" /\ UNCHANGED <<tables, history>>
    BY <1>3 DEF DeleteServer, Idle
  <2> QED BY <1>1, <2>1
<1>4. ASSUME NEW c \in Codes, ClaimInvite(s, u, c) PROVE Aside(s) /\ UNCHANGED <<tables, history>>
  <2> DEFINE j == [Idle EXCEPT !.pc = "claimBan", !.actor = u, !.code = c]
  <2>1. Start(s, j) /\ j.pc = "claimBan" /\ UNCHANGED <<tables, history>>
    BY <1>4 DEF ClaimInvite, Idle
  <2> QED BY <1>1, <2>1
<1>5. ASSUME NEW c \in Codes, NEW d \in Lifetimes, CreateInvite(s, u, c, d)
      PROVE  Aside(s) /\ UNCHANGED <<tables, history>>
  <2> DEFINE e == now + d
             j == [Idle EXCEPT !.pc = "invite", !.actor = u, !.code = c, !.until = e]
  <2>1. Start(s, j) /\ UNCHANGED <<tables, history>>
    BY <1>5 DEF CreateInvite
  <2>2. j.pc = "invite"
    <3> HIDE DEF e
    <3> QED BY DEF Idle
  <2> QED BY <1>1, <2>1, <2>2
<1>6. ASSUME NEW t \in Users, UnbanMember(s, u, t) \/ UnmuteMember(s, u, t)
      PROVE  Aside(s) /\ UNCHANGED <<tables, history>>
  <2>1. PICK k : Lift(s, k, u, t, Admin) \/ Lift(s, k, u, t, Mod)
    BY <1>6 DEF UnbanMember, UnmuteMember
  <2> DEFINE j == [Idle EXCEPT !.pc = "active", !.kind = k, !.actor = u, !.target = t]
  <2>2. Start(s, j) /\ j.pc = "active" /\ UNCHANGED <<tables, history>>
    BY <2>1 DEF Lift, Idle
  <2> QED BY <1>1, <2>2
<1>7. ASSUME NEW t \in Users,
             \/ KickMember(s, u, t)
             \/ \E d \in Lifetimes : BanMember(s, u, t, d) \/ MuteMember(s, u, t, d)
             \/ \E n \in Levels : ChangeRole(s, u, t, n)
      PROVE  Aside(s) /\ UNCHANGED <<tables, history>>
  <2>1. UNCHANGED <<tables, history>>
    BY <1>7 DEF KickMember, BanMember, MuteMember, ChangeRole, Moderate
  <2>2. CASE KickMember(s, u, t)
    <3> DEFINE j == [Idle EXCEPT !.pc = "target", !.kind = "kick", !.actor = u, !.target = t,
                       !.rank = level[u]]
    <3>1. Start(s, j) /\ j.pc = "target"
      BY <2>2 DEF KickMember, Idle
    <3> QED BY <1>1, <2>1, <3>1
  <2>3. ASSUME NEW d \in Lifetimes, NEW k, BanMember(s, u, t, d) \/ MuteMember(s, u, t, d),
               k = IF BanMember(s, u, t, d) THEN "ban" ELSE "mute"
        PROVE  Aside(s)
    <3> DEFINE j == [Idle EXCEPT !.pc = "target", !.kind = k, !.actor = u, !.target = t,
                       !.rank = level[u], !.until = d]
    <3>1. Start(s, j)
      BY <2>3 DEF BanMember, MuteMember
    <3>2. j.pc = "target"
      BY DEF Idle
    <3> QED BY <1>1, <3>1, <3>2
  <2>4. ASSUME NEW n \in Levels, ChangeRole(s, u, t, n) PROVE Aside(s)
    <3> DEFINE j == [Idle EXCEPT !.pc = "target", !.kind = "role", !.actor = u, !.target = t,
                       !.rank = level[u], !.new = n]
    <3>1. Start(s, j) /\ j.pc = "target"
      BY <2>4 DEF ChangeRole, Idle
    <3> QED BY <1>1, <3>1
  <2> QED BY <1>7, <2>1, <2>2, <2>3, <2>4
<1> QED BY <1>2, <1>3, <1>4, <1>5, <1>6, <1>7

\* The steps that only read and go where nothing is counted.
LEMMA AsideSteps ==
  ASSUME NEW s \in Workers, Inv, CheckTarget(s) \/ LiftActive(s) \/ InsertMessage(s)
  PROVE  Aside(s) /\ UNCHANGED <<tables, history>>
<1>0. job[s] \in Job /\ job \in [Workers -> Job]
  BY DEF Inv, JobsInv
<1>1. job[s].pc # "remove" /\ UNCHANGED <<tables, history>>
  BY DEF CheckTarget, LiftActive, InsertMessage, At
<1>2. CASE Done(s)
  BY <1>1, <1>2, Finishes DEF Aside
<1>3. CASE job' = [job EXCEPT ![s] = AfterTarget(job[s])]
  <2> DEFINE j == AfterTarget(job[s])
  <2>1. j.pc \in {"remove", "write", "insert"}
    <3> DEFINE e == now + job[s].until
    <3>1. j = CASE job[s].kind = "kick" -> [job[s] EXCEPT !.pc = "remove", !.rank = Member]
              [] job[s].kind = "role" -> [job[s] EXCEPT !.pc = "write", !.rank = Member]
              [] OTHER -> [job[s] EXCEPT !.pc = "insert", !.rank = Member, !.until = e]
      BY DEF AfterTarget
    <3> HIDE DEF e, j
    <3> QED BY <1>0, <3>1 DEF Job
  <2>2. j.pc \notin WatchedPcs
    BY <2>1 DEF WatchedPcs, BanPcs, SendPcs, CountPcs
  <2>3. job' = [job EXCEPT ![s] = j]
    BY <1>3
  <2> HIDE DEF j
  <2> QED BY <1>0, <1>1, <2>2, <2>3, Replaced DEF Aside
<1>4. ASSUME NEW i, job' = [job EXCEPT ![s].pc = "lift", ![s].seen = i] PROVE Aside(s)
  <2> DEFINE j == [job[s] EXCEPT !.pc = "lift", !.seen = i]
  <2>1. j.pc = "lift" /\ job' = [job EXCEPT ![s] = j]
    BY <1>0, <1>4 DEF Job
  <2>2. j.pc \notin WatchedPcs
    BY <2>1 DEF WatchedPcs, BanPcs, SendPcs, CountPcs
  <2> HIDE DEF j
  <2> QED BY <1>0, <1>1, <2>1, <2>2, Replaced DEF Aside
<1> QED BY <1>1, <1>2, <1>3, <1>4 DEF CheckTarget, LiftActive, InsertMessage

\* What joinServer, claimInvite and message.send do between their writes.
LEMMA Walks ==
  ASSUME NEW s \in Workers, Inv,
         \/ \E u \in Users : JoinServer(s, u) \/ SendMessage(s, u)
         \/ JoinLevel(s) \/ JoinBan(s) \/ ClaimBan(s) \/ ClaimCap(s) \/ SendMember(s)
  PROVE  /\ UNCHANGED <<tables, history>>
         /\ \/ Aside(s)
            \/ Hop(s, "idle", "joinLevel") /\ job'[s].code = None /\ UnderCap
            \/ Hop(s, "joinLevel", "joinBan") /\ Same(s)
            \/ /\ Hop(s, "joinBan", "add") \/ Hop(s, "claimBan", "claimCap")
               /\ job'[s].actor = job[s].actor /\ job'[s].code = job[s].code
               /\ job'[s].seen = Len(sanction) /\ ActiveSanctions("ban", job[s].actor) = {}
            \/ Hop(s, "claimCap", "claimUse") /\ Same(s) /\ UnderCap
            \/ /\ Hop(s, "idle", "sendMember")
               /\ \/ job'[s].seen = 0
                  \/ \E u \in Users : /\ job'[s].seen = Len(sanction) /\ job'[s].actor = u
                                      /\ ActiveSanctions("mute", u) = {}
            \/ Hop(s, "sendMember", "sendInsert") /\ Same(s)
<1>0. job[s] \in Job /\ job \in [Workers -> Job]
  BY DEF Inv, JobsInv
<1>1. UNCHANGED <<tables, history>>
  BY DEF JoinServer, SendMessage, JoinLevel, JoinBan, ClaimBan, ClaimCap, SendMember
<1>2. ASSUME Done(s), job[s].pc # "remove" PROVE Aside(s)
  BY <1>2, Finishes DEF Aside
<1>3. ASSUME NEW u \in Users, JoinServer(s, u)
      PROVE  Hop(s, "idle", "joinLevel") /\ job'[s].code = None /\ UnderCap
  <2> DEFINE j == [Idle EXCEPT !.pc = "joinLevel", !.actor = u]
  <2>1. Start(s, j) /\ j.pc = "joinLevel" /\ j.code = None /\ UnderCap
    BY <1>3 DEF JoinServer, Idle
  <2> HIDE DEF j
  <2> QED BY <2>1, Begins DEF Hop
<1>4. ASSUME NEW u \in Users, SendMessage(s, u)
      PROVE  /\ Hop(s, "idle", "sendMember")
             /\ \/ job'[s].seen = 0
                \/ /\ job'[s].seen = Len(sanction) /\ job'[s].actor = u
                   /\ ActiveSanctions("mute", u) = {}
  <2> DEFINE n == Len(sanction)
             j == [Idle EXCEPT !.pc = "sendMember", !.actor = u, !.seen = n]
             k == [Idle EXCEPT !.pc = "sendMember", !.actor = u]
  <2>1. (Start(s, j) /\ ActiveSanctions("mute", u) = {}) \/ Start(s, k)
    BY <1>4 DEF SendMessage
  <2>2. n = Len(sanction)
    OBVIOUS
  <2> HIDE DEF n
  <2>3. j.pc = "sendMember" /\ j.seen = n /\ j.actor = u /\ k.pc = "sendMember" /\ k.seen = 0
    BY DEF Idle
  <2> HIDE DEF j, k
  <2> QED BY <2>1, <2>2, <2>3, Begins DEF Hop
<1>5. ASSUME NEW pc, CheckBan(s, pc), ~Done(s)
      PROVE  /\ Hop(s, job[s].pc, pc)
             /\ job'[s].actor = job[s].actor /\ job'[s].code = job[s].code
             /\ job'[s].seen = Len(sanction) /\ ActiveSanctions("ban", job[s].actor) = {}
  <2> DEFINE n == Len(sanction)
             j == [job[s] EXCEPT !.pc = pc, !.seen = n]
  <2>1. job' = [job EXCEPT ![s] = j] /\ ActiveSanctions("ban", job[s].actor) = {}
        /\ n = Len(sanction)
    BY <1>5 DEF CheckBan
  <2> HIDE DEF n
  <2>2. j.pc = pc /\ j.seen = n /\ j.actor = job[s].actor /\ j.code = job[s].code
    BY <1>0 DEF Job
  <2> HIDE DEF j
  <2> QED BY <1>0, <2>1, <2>2, Replaced DEF Hop
<1>6. CASE JoinLevel(s)
  BY <1>1, <1>2, <1>6, Goes DEF JoinLevel, At
<1>7. CASE JoinBan(s)
  <2>1. job[s].pc = "joinBan" /\ CheckBan(s, "add")
    BY <1>7 DEF JoinBan, At
  <2> QED BY <1>1, <1>2, <1>5, <2>1
<1>8. CASE ClaimBan(s)
  <2>1. job[s].pc = "claimBan" /\ CheckBan(s, "claimCap")
    BY <1>8 DEF ClaimBan, At
  <2> QED BY <1>1, <1>2, <1>5, <2>1
<1>9. CASE ClaimCap(s)
  BY <1>1, <1>2, <1>9, Goes DEF ClaimCap, At
<1>10. CASE SendMember(s)
  BY <1>1, <1>2, <1>10, Goes DEF SendMember, At
<1>11. CASE \E u \in Users : JoinServer(s, u)
  BY <1>1, <1>3, <1>11
<1>12. CASE \E u \in Users : SendMessage(s, u)
  BY <1>1, <1>4, <1>12
<1> QED BY <1>6, <1>7, <1>8, <1>9, <1>10, <1>11, <1>12

(***************************************************************************)
(* Sanctions.                                                              *)
(***************************************************************************)
\* No sanction takes effect but the next one that is stored.
Ages ==
  /\ \A k \in {"ban", "mute"}, u \in Users, i \in Nat :
       i \in ActiveSanctions(k, u)' =>
         i \in ActiveSanctions(k, u) \/ (guild = "live" /\ i = Len(sanction) + 1)
  /\ guild' = "live" => guild = "live" /\ Len(sanction) <= Len(sanction')

\* Sanctions are numbered.
LEMMA Numbered ==
  ASSUME Inv
  PROVE  /\ Len(sanction) \in Nat /\ DOMAIN sanction = 1 .. Len(sanction)
         /\ \A k, u : ActiveSanctions(k, u) \subseteq Nat
         /\ \A i \in DOMAIN sanction : sanction[i] \in SanctionRow
<1>1. sanction \in Seq(SanctionRow)
  BY DEF Inv, TablesOK
<1>2. Len(sanction) \in Nat /\ DOMAIN sanction = 1 .. Len(sanction)
      /\ \A i \in DOMAIN sanction : sanction[i] \in SanctionRow
  BY <1>1
<1> QED BY <1>2 DEF ActiveSanctions

\* What was clear stays clear.
LEMMA ClearStays ==
  ASSUME Inv, Inv', Ages, NEW k \in {"ban", "mute"}, NEW u \in Users, NEW n \in Nat, Clear(k, u, n)
  PROVE  Clear(k, u, n)'
<1>1. Len(sanction) \in Nat /\ Len(sanction') \in Nat /\ ActiveSanctions(k, u)' \subseteq Nat
      /\ ActiveSanctions(k, u) \subseteq Nat
  BY Numbered DEF Inv, TablesOK, ActiveSanctions
<1>2. ASSUME NEW i \in ActiveSanctions(k, u)' PROVE i > n
  <2>1. i \in ActiveSanctions(k, u) \/ (guild = "live" /\ i = Len(sanction) + 1)
    BY <1>1 DEF Ages
  <2> QED BY <1>1, <2>1 DEF Clear
<1>3. guild' = "live" => n <= Len(sanction')
  BY <1>1 DEF Ages, Clear
<1> QED BY <1>2, <1>3 DEF Clear

\* What a request knows of sanctions it keeps or has just looked up.
LEMMA LookedStays ==
  ASSUME Inv, Inv', Looked, Ages,
         \A s \in Workers, k \in {"ban", "mute"}, u \in Users, n \in Nat :
           Looks(job'[s], k, u, n) => Looks(job[s], k, u, n) \/ Clear(k, u, n)
  PROVE  Looked'
BY ClearStays DEF Looked

\* A step that leaves sanctions, the guild's row and the clock alone.
LEMMA AgesSame == ASSUME Inv, UNCHANGED <<now, guild, sanction>> PROVE Ages
<1>1. Len(sanction) \in Nat /\ Len(sanction') = Len(sanction) /\ guild' = guild
  BY Numbered
<1>2. Len(sanction) <= Len(sanction')
  BY <1>1
<1>3. \A k \in {"ban", "mute"}, u \in Users, i \in Nat :
        i \in ActiveSanctions(k, u)' =>
          i \in ActiveSanctions(k, u) \/ (guild = "live" /\ i = Len(sanction) + 1)
  BY DEF ActiveSanctions, Active
<1>4. guild' = "live" => guild = "live" /\ Len(sanction) <= Len(sanction')
  BY <1>1, <1>2
<1> QED BY <1>3, <1>4 DEF Ages


\* A handler that will still remove the member that it banned.
Removing(s, u) == At(s, "remove") /\ job[s].kind = "ban" /\ job[s].target = u

\* Bans hold on when no ban starts, nobody comes in, nobody loses an excuse,
\* and no removal is given up.
LEMMA BannedStays ==
  ASSUME BannedIsOut,
         \A u \in Users : /\ ActiveSanctions("ban", u)' \subseteq ActiveSanctions("ban", u)
                          /\ IsMember(u)' => IsMember(u)
                          /\ IsMember(u)' /\ u \in excused => u \in excused'
                          /\ \A s \in Workers : Removing(s, u) /\ IsMember(u)'
                               => Removing(s, u)' \/ u \in excused'
  PROVE  BannedIsOut'
<1> SUFFICES ASSUME NEW u \in Users, IsMember(u)', ActiveSanctions("ban", u)' # {}
             PROVE  u \in excused' \/ \E s \in Workers : Removing(s, u)'
  BY DEF BannedIsOut, Removing
<1>1. u \in excused \/ \E s \in Workers : Removing(s, u)
  BY DEF BannedIsOut, Removing
<1> QED BY <1>1

\* A request that was not about to remove a banned member replaces its record.
LEMMA RemovalsStay ==
  ASSUME NEW s \in Workers, Others(s), job[s].pc # "remove"
  PROVE  \A u \in Users, t \in Workers : Removing(t, u) => Removing(t, u)'
BY DEF Others, Removing, At

\* A step of one request that leaves members, sanctions, guild and clock alone.
LEMMA SanctionsQuiet ==
  ASSUME NEW s \in Workers, Inv, Inv', SanctionsInv, Others(s), job[s].pc # "remove",
         UNCHANGED <<now, guild, sanction, founded, excused>>,
         \A u \in Users : IsMember(u)' => IsMember(u),
         \A k \in {"ban", "mute"}, u \in Users, n \in Nat :
           Looks(job'[s], k, u, n) => Looks(job[s], k, u, n) \/ Clear(k, u, n)
  PROVE  SanctionsInv'
<1>1. Looked'
  <2>1. \A t \in Workers, k \in {"ban", "mute"}, u \in Users, n \in Nat :
          Looks(job'[t], k, u, n) => Looks(job[t], k, u, n) \/ Clear(k, u, n)
    BY DEF Others
  <2> QED BY <2>1, AgesSame, LookedStays DEF SanctionsInv
<1>2. \A u \in Users : ActiveSanctions("ban", u)' = ActiveSanctions("ban", u)
  BY DEF ActiveSanctions, Active
<1>3. BannedIsOut'
  BY <1>2, RemovalsStay, BannedStays DEF SanctionsInv
<1> QED BY <1>1, <1>3 DEF SanctionsInv, NoneYet

\* An unwatched record has looked for nothing.
LEMMA LooksNot ==
  ASSUME NEW j, j.pc \notin WatchedPcs
  PROVE  \A k, u, n : ~Looks(j, k, u, n)
BY DEF Looks, WatchedPcs

\* Steps aside.
LEMMA AsideSanctions ==
  ASSUME NEW s \in Workers, Inv, Inv', SanctionsInv, Aside(s),
         UNCHANGED <<now, guild, sanction, founded, excused>>,
         \A u \in Users : IsMember(u)' => IsMember(u)
  PROVE  SanctionsInv'
BY LooksNot, SanctionsQuiet DEF Aside

\* The steps of Walks: what is looked up is clear.
LEMMA WalkSanctions ==
  ASSUME NEW s \in Workers, Inv, Inv', SanctionsInv,
         \/ \E u \in Users : JoinServer(s, u) \/ SendMessage(s, u)
         \/ JoinLevel(s) \/ JoinBan(s) \/ ClaimBan(s) \/ ClaimCap(s) \/ SendMember(s)
  PROVE  SanctionsInv'
<1>1. UNCHANGED <<now, guild, sanction, founded, excused, level>>
  BY Walks DEF tables, history
<1>2. \A u \in Users : IsMember(u)' => IsMember(u)
  BY <1>1 DEF IsMember
<1>3. Len(sanction) \in Nat /\ \A k, u : ActiveSanctions(k, u) \subseteq Nat \ {0}
  BY Numbered DEF ActiveSanctions
<1>4. CASE Aside(s)
  BY <1>1, <1>2, <1>4, AsideSanctions
<1>5. ASSUME Others(s), job[s].pc # "remove",
             \A k \in {"ban", "mute"}, u \in Users, n \in Nat :
               Looks(job'[s], k, u, n) => Looks(job[s], k, u, n) \/ Clear(k, u, n)
      PROVE  SanctionsInv'
  BY <1>1, <1>2, <1>5, SanctionsQuiet
<1>6. CASE Hop(s, "idle", "joinLevel") \/ Hop(s, "joinLevel", "joinBan")
  BY <1>5, <1>6 DEF Hop, Looks, BanPcs, SendPcs
<1>7. CASE /\ Hop(s, "joinBan", "add") \/ Hop(s, "claimBan", "claimCap")
           /\ job'[s].actor = job[s].actor
           /\ job'[s].seen = Len(sanction) /\ ActiveSanctions("ban", job[s].actor) = {}
  <2>1. ASSUME NEW k \in {"ban", "mute"}, NEW u \in Users, NEW n \in Nat, Looks(job'[s], k, u, n)
        PROVE  Clear(k, u, n)
    <3>1. k = "ban" /\ u = job[s].actor /\ n = Len(sanction)
      BY <1>7, <2>1 DEF Looks, Hop, SendPcs
    <3> QED BY <1>3, <1>7, <3>1 DEF Clear
  <2> QED BY <1>5, <1>7, <2>1 DEF Hop
<1>8. CASE (Hop(s, "claimCap", "claimUse") \/ Hop(s, "sendMember", "sendInsert")) /\ Same(s)
  BY <1>5, <1>8 DEF Hop, Looks, Same, BanPcs, SendPcs
<1>9. CASE /\ Hop(s, "idle", "sendMember")
           /\ \/ job'[s].seen = 0
              \/ \E u \in Users : /\ job'[s].seen = Len(sanction) /\ job'[s].actor = u
                                  /\ ActiveSanctions("mute", u) = {}
  <2>1. ASSUME NEW k \in {"ban", "mute"}, NEW u \in Users, NEW n \in Nat, Looks(job'[s], k, u, n)
        PROVE  Clear(k, u, n)
    <3>1. k = "mute" /\ u = job'[s].actor /\ n = job'[s].seen
      BY <1>9, <2>1 DEF Looks, Hop, BanPcs
    <3>2. CASE n = 0
      BY <1>3, <3>2 DEF Clear
    <3>3. CASE n = Len(sanction) /\ ActiveSanctions("mute", u) = {}
      BY <1>3, <3>1, <3>3 DEF Clear
    <3> QED BY <1>9, <3>1, <3>2, <3>3
  <2> QED BY <1>5, <1>9, <2>1 DEF Hop
<1> QED BY <1>4, <1>6, <1>7, <1>8, <1>9, Walks


\* createServer: nobody is a member and nothing runs yet.
LEMMA CreateServerSanctions ==
  ASSUME NEW s \in Workers, NEW u \in Users, Inv, SanctionsInv, CreateServer(s, u)
  PROVE  SanctionsInv'
<1> DEFINE j == [Idle EXCEPT !.pc = "owner", !.actor = u]
<1>1. /\ \A t \in Workers : job[t] = Idle
      /\ \A v \in Users : level[v] = None
      /\ UNCHANGED <<level, sanction, founded>>
  BY DEF Inv, Unborn, Unfounded, CreateServer
<1>2. Start(s, j) /\ j.pc = "owner"
  BY DEF CreateServer, Idle
<1> HIDE DEF j
<1>3. \A t \in Workers : job'[t].pc \notin WatchedPcs
  <2>1. Idle.pc \notin WatchedPcs /\ j.pc \notin WatchedPcs
    BY <1>2, IdleInv DEF WatchedPcs, BanPcs, SendPcs, CountPcs
  <2> QED BY <1>1, <1>2, <2>1, Begins DEF Others
<1>4. Looked'
  BY <1>3, LooksNot DEF Looked
<1> QED BY <1>1, <1>4 DEF SanctionsInv, NoneYet, BannedIsOut, IsMember

\* The creator becomes a member of a guild without sanctions.
LEMMA OwnerSanctions ==
  ASSUME NEW s \in Workers, Inv, Inv', SanctionsInv, CreateServerOwner(s)
  PROVE  SanctionsInv'
<1>1. /\ job[s].pc = "owner" /\ ~founded /\ sanction = <<>>
      /\ UNCHANGED <<now, guild, sanction, excused>> /\ Done(s)
  BY DEF CreateServerOwner, At, Inv, JobsInv, JobInv, SanctionsInv, NoneYet
<1>2. Others(s) /\ job'[s].pc \notin WatchedPcs
  BY <1>1, Finishes
<1>3. Looked'
  <2>1. \A t \in Workers, k \in {"ban", "mute"}, u \in Users, n \in Nat :
          Looks(job'[t], k, u, n) => Looks(job[t], k, u, n) \/ Clear(k, u, n)
    BY <1>2, LooksNot DEF Others
  <2> QED BY <1>1, <2>1, AgesSame, LookedStays DEF SanctionsInv
<1>4. BannedIsOut' /\ NoneYet'
  BY <1>1 DEF BannedIsOut, NoneYet, ActiveSanctions
<1> QED BY <1>3, <1>4 DEF SanctionsInv

\* A join that found no ban inserts a member whose ban, if any, came after.
LEMMA AddSanctions ==
  ASSUME NEW s \in Workers, Inv, Inv', SanctionsInv, AddServerMember(s)
  PROVE  SanctionsInv'
<1>1. /\ job[s].pc = "add" /\ job[s].actor \in Users /\ job[s].seen \in Nat
      /\ UNCHANGED <<now, guild, sanction, founded>>
  BY DEF AddServerMember, At, Inv, JobsInv, JobInv, Job, ActorPcs
<1>2. CASE Done(s) /\ UNCHANGED <<level, joined, excused>>
  <2>1. Aside(s)
    BY <1>1, <1>2, Finishes DEF Aside
  <2> QED BY <1>1, <1>2, <2>1, AsideSanctions DEF IsMember
<1>3. CASE /\ level' = [level EXCEPT ![job[s].actor] = Member]
           /\ excused' = IF \E i \in ActiveSanctions("ban", job[s].actor) : i > job[s].seen
                         THEN excused \cup {job[s].actor} ELSE excused
           /\ Goto(s, "count")
  <2>1. Hop(s, "add", "count")
    BY <1>1, <1>3, Goes
  <2>2. Looked'
    <3>1. \A t \in Workers, k \in {"ban", "mute"}, u \in Users, n \in Nat :
            Looks(job'[t], k, u, n) => Looks(job[t], k, u, n) \/ Clear(k, u, n)
      BY <2>1 DEF Others, Hop, Looks, BanPcs, SendPcs
    <3> QED BY <1>1, <3>1, AgesSame, LookedStays DEF SanctionsInv
  <2>3. \A u \in Users \ {job[s].actor} : level'[u] = level[u]
    BY <1>1, <1>3 DEF Inv, TablesOK
  <2>4. \A u \in Users : ActiveSanctions("ban", u)' = ActiveSanctions("ban", u)
    BY <1>1 DEF ActiveSanctions, Active
  <2>5. ActiveSanctions("ban", job[s].actor) # {} => job[s].actor \in excused'
    <3>1. \A i \in ActiveSanctions("ban", job[s].actor) : i > job[s].seen
      <4> DEFINE u == job[s].actor
                 n == job[s].seen
      <4>1. Looks(job[s], "ban", u, n)
        BY <1>1 DEF Looks, BanPcs
      <4>2. u \in Users /\ n \in Nat
        BY <1>1
      <4> HIDE DEF u, n
      <4>3. Clear("ban", u, n)
        BY <4>1, <4>2 DEF SanctionsInv, Looked
      <4> QED BY <4>3 DEF Clear, u, n
    <3> QED BY <1>3, <3>1
  <2>6. excused \subseteq excused'
    BY <1>3
  <2>7. BannedIsOut'
    <3> SUFFICES ASSUME NEW u \in Users, IsMember(u)', ActiveSanctions("ban", u)' # {}
                 PROVE  u \in excused' \/ \E t \in Workers : Removing(t, u)'
      BY DEF BannedIsOut, Removing
    <3>1. CASE u = job[s].actor
      BY <2>4, <2>5, <3>1
    <3>2. CASE u # job[s].actor
      <4>1. u \in excused \/ \E t \in Workers : Removing(t, u)
        BY <2>3, <2>4, <3>2 DEF SanctionsInv, BannedIsOut, Removing, IsMember
      <4>2. \A t \in Workers : Removing(t, u) => Removing(t, u)'
        BY <2>1, RemovalsStay DEF Hop
      <4> QED BY <2>6, <4>1, <4>2
    <3> QED BY <3>1, <3>2
  <2> QED BY <1>1, <2>2, <2>7 DEF SanctionsInv, NoneYet
<1> QED BY <1>2, <1>3 DEF AddServerMember

\* Writes that concern neither members' bans nor sanctions.
LEMMA OtherSanctions ==
  ASSUME NEW s \in Workers, Inv, Inv', SanctionsInv,
         \/ IncrementGuildMemberCount(s) \/ CreateInviteInsert(s) \/ ClaimInviteUse(s)
         \/ UpdateServerMemberLevel(s)
  PROVE  SanctionsInv'
<1>1. /\ job[s].pc # "remove" /\ UNCHANGED <<now, guild, sanction, founded, excused>>
  BY DEF IncrementGuildMemberCount, CreateInviteInsert, ClaimInviteUse, UpdateServerMemberLevel,
       At, history
<1>2. \A u \in Users : IsMember(u)' => IsMember(u)
  BY DEF IncrementGuildMemberCount, CreateInviteInsert, ClaimInviteUse, UpdateServerMemberLevel,
       IsMember, Inv, TablesOK
<1>3. CASE Done(s)
  <2>1. Aside(s)
    BY <1>1, <1>3, Finishes DEF Aside
  <2> QED BY <1>1, <1>2, <2>1, AsideSanctions
<1>4. CASE ClaimInviteUse(s) /\ Goto(s, "add")
  <2>1. Hop(s, "claimUse", "add") /\ Same(s)
    BY <1>4, Goes DEF ClaimInviteUse, At
  <2>2. \A k, u, n : Looks(job'[s], k, u, n) => Looks(job[s], k, u, n)
    BY <2>1 DEF Hop, Same, Looks, BanPcs, SendPcs
  <2> QED BY <1>1, <1>2, <2>1, <2>2, SanctionsQuiet DEF Hop
<1> QED BY <1>3, <1>4 DEF IncrementGuildMemberCount, CreateInviteInsert, ClaimInviteUse,
      UpdateServerMemberLevel


\* InsertBan and InsertMute: the new row is the newest, and a ban goes on to
\* remove its target.
LEMMA InsertSanctions ==
  ASSUME NEW s \in Workers, Inv, Inv', SanctionsInv, InsertSanction(s)
  PROVE  SanctionsInv'
<1>1. /\ job[s].pc = "insert" /\ job[s].target \in Users /\ founded
      /\ UNCHANGED <<now, guild, level, founded, excused>>
  BY DEF InsertSanction, At, Inv, JobsInv, JobInv, TargetPcs, EarlyPcs, history
<1>2. CASE Done(s) /\ UNCHANGED sanction
  <2>1. Aside(s)
    BY <1>1, <1>2, Finishes DEF Aside
  <2> QED BY <1>1, <1>2, <2>1, AsideSanctions DEF IsMember
<1> DEFINE r == [kind |-> job[s].kind, user |-> job[s].target, until |-> job[s].until,
                 lifted |-> FALSE]
<1>3. CASE /\ guild = "live" /\ sanction' = Append(sanction, r)
           /\ IF job[s].kind = "ban" THEN Goto(s, "remove") ELSE Done(s)
  <2>1. Len(sanction) \in Nat /\ sanction \in Seq(SanctionRow) /\ r.user = job[s].target
        /\ r.kind = job[s].kind
    BY Numbered DEF Inv, TablesOK
  <2> HIDE DEF r
  <2>2. /\ Len(sanction') = Len(sanction) + 1 /\ DOMAIN sanction' = DOMAIN sanction \cup {Len(sanction) + 1}
        /\ \A i \in DOMAIN sanction : sanction'[i] = sanction[i]
        /\ sanction'[Len(sanction) + 1] = r
    BY <1>3, <2>1, Numbered
  <2>3. ASSUME NEW k, NEW u, NEW i \in ActiveSanctions(k, u)', i \notin ActiveSanctions(k, u)
        PROVE  i = Len(sanction) + 1 /\ k = job[s].kind /\ u = job[s].target
    BY <1>1, <2>1, <2>2, <2>3 DEF ActiveSanctions, Active
  <2>4. Ages
    <3>1. \A k \in {"ban", "mute"}, u \in Users, i \in Nat :
            i \in ActiveSanctions(k, u)' =>
              i \in ActiveSanctions(k, u) \/ (guild = "live" /\ i = Len(sanction) + 1)
      BY <1>3, <2>3
    <3>2. Len(sanction) <= Len(sanction')
      BY <2>1, <2>2
    <3> QED BY <1>3, <3>1, <3>2 DEF Ages
  <2>5. Others(s) /\ job'[s].pc \notin WatchedPcs
        /\ (job[s].kind = "ban" => /\ job'[s].pc = "remove" /\ job'[s].kind = "ban"
                                   /\ job'[s].target = job[s].target)
    <3>1. CASE job[s].kind = "ban" /\ Goto(s, "remove")
      BY <3>1, Goes DEF Hop, Removing, At, WatchedPcs, BanPcs, SendPcs, CountPcs
    <3>2. CASE job[s].kind # "ban" /\ Done(s)
      BY <3>2, Finishes
    <3> QED BY <1>3, <3>1, <3>2
  <2>6. Looked'
    <3>1. \A t \in Workers, k \in {"ban", "mute"}, u \in Users, n \in Nat :
            Looks(job'[t], k, u, n) => Looks(job[t], k, u, n) \/ Clear(k, u, n)
      BY <2>5, LooksNot DEF Others
    <3> QED BY <2>4, <3>1, LookedStays DEF SanctionsInv
  <2>7. BannedIsOut'
    <3> SUFFICES ASSUME NEW u \in Users, IsMember(u)', ActiveSanctions("ban", u)' # {}
                 PROVE  u \in excused' \/ \E t \in Workers : Removing(t, u)'
      BY DEF BannedIsOut, Removing
    <3>1. CASE job[s].kind = "ban" /\ u = job[s].target
      BY <2>5, <3>1 DEF Removing, At
    <3>2. CASE ~(job[s].kind = "ban" /\ u = job[s].target)
      <4>1. ActiveSanctions("ban", u) # {}
        BY <2>3, <3>2
      <4>2. u \in excused \/ \E t \in Workers : Removing(t, u)
        BY <1>1, <4>1 DEF SanctionsInv, BannedIsOut, Removing, IsMember
      <4>3. \A t \in Workers : Removing(t, u) => Removing(t, u)'
        BY <1>1, <2>5, RemovalsStay
      <4> QED BY <1>1, <4>2, <4>3
    <3> QED BY <3>1, <3>2
  <2> QED BY <1>1, <2>6, <2>7 DEF SanctionsInv, NoneYet
<1> QED BY <1>2, <1>3 DEF InsertSanction

\* Removals end the wait of a ban, or leave an excuse.
LEMMA RemoveSanctions ==
  ASSUME NEW s \in Workers, Inv, Inv', SanctionsInv, Remove(s) \/ Abandon(s)
  PROVE  SanctionsInv'
<1>1. UNCHANGED <<now, guild, sanction, founded>> /\ Done(s)
  BY DEF Remove, Abandon, tables
<1>2. Others(s) /\ job'[s].pc \notin WatchedPcs
  BY <1>1, Finishes
<1>3. Looked'
  <2>1. \A t \in Workers, k \in {"ban", "mute"}, u \in Users, n \in Nat :
          Looks(job'[t], k, u, n) => Looks(job[t], k, u, n) \/ Clear(k, u, n)
    BY <1>2, LooksNot DEF Others
  <2> QED BY <1>1, <2>1, AgesSame, LookedStays DEF SanctionsInv
<1>4. \A u \in Users : ActiveSanctions("ban", u)' \subseteq ActiveSanctions("ban", u)
  BY <1>1 DEF ActiveSanctions, Active
<1>5. \A u \in Users : (IsMember(u)' => IsMember(u)) /\ (IsMember(u)' /\ u \in excused => u \in excused')
  BY DEF Remove, Abandon, RemoveServerMember, IsMember, Inv, TablesOK, tables
<1>6. \A u \in Users : Removing(s, u) /\ IsMember(u)' => u \in excused'
  BY DEF Remove, Abandon, RemoveServerMember, IsMember, Inv, TablesOK, tables, Removing, At
<1>7. \A u \in Users, t \in Workers : Removing(t, u) /\ IsMember(u)' => Removing(t, u)' \/ u \in excused'
  BY <1>2, <1>6 DEF Others, Removing, At
<1>8. BannedIsOut'
  BY <1>4, <1>5, <1>7, BannedStays DEF SanctionsInv
<1> QED BY <1>1, <1>3, <1>8 DEF SanctionsInv, NoneYet

\* A sanction that is lifted is not in force.
LEMMA LiftSanctions ==
  ASSUME NEW s \in Workers, Inv, Inv', SanctionsInv, LiftSanction(s)
  PROVE  SanctionsInv'
<1>1. /\ job[s].pc = "lift" /\ founded /\ UNCHANGED <<now, guild, level, founded, excused>> /\ Done(s)
  BY DEF LiftSanction, At, Inv, JobsInv, JobInv, EarlyPcs, history
<1>2. Others(s) /\ job'[s].pc \notin WatchedPcs
  BY <1>1, Finishes
<1>3. /\ DOMAIN sanction' = DOMAIN sanction
      /\ \A i \in DOMAIN sanction : sanction'[i] = sanction[i] \/ sanction'[i].lifted
  <2>1. CASE UNCHANGED sanction
    BY <2>1
  <2>2. CASE /\ job[s].seen \in DOMAIN sanction
             /\ sanction' = [sanction EXCEPT ![job[s].seen].lifted = TRUE]
    <3>1. sanction[job[s].seen] \in SanctionRow
      BY <2>2, Numbered
    <3>2. [sanction[job[s].seen] EXCEPT !.lifted = TRUE].lifted
      BY <3>1 DEF SanctionRow
    <3>3. DOMAIN sanction' = DOMAIN sanction
      BY <2>2
    <3>4. \A i \in DOMAIN sanction :
            sanction'[i] = IF i = job[s].seen THEN [sanction[i] EXCEPT !.lifted = TRUE] ELSE sanction[i]
      BY <2>2
    <3> QED BY <3>2, <3>3, <3>4
  <2> QED BY <2>1, <2>2 DEF LiftSanction
<1>4. \A k \in {"ban", "mute"}, u \in Users : ActiveSanctions(k, u)' \subseteq ActiveSanctions(k, u)
  BY <1>1, <1>3 DEF ActiveSanctions, Active
<1>5. Ages
  <2>1. Len(sanction') = Len(sanction) /\ Len(sanction) \in Nat
    <3>1. sanction' \in Seq(SanctionRow)
      BY DEF Inv, TablesOK
    <3>2. Len(sanction') \in Nat /\ DOMAIN sanction' = 1 .. Len(sanction')
      BY <3>1
    <3> QED BY <1>3, <3>2, Numbered
  <2>2. Len(sanction) <= Len(sanction')
    BY <2>1
  <2>3. \A k \in {"ban", "mute"}, u \in Users, i \in Nat :
          i \in ActiveSanctions(k, u)' =>
            i \in ActiveSanctions(k, u) \/ (guild = "live" /\ i = Len(sanction) + 1)
    BY <1>4
  <2> QED BY <1>1, <2>2, <2>3 DEF Ages
<1>6. Looked'
  <2>1. \A t \in Workers, k \in {"ban", "mute"}, u \in Users, n \in Nat :
          Looks(job'[t], k, u, n) => Looks(job[t], k, u, n) \/ Clear(k, u, n)
    BY <1>2, LooksNot DEF Others
  <2> QED BY <1>5, <2>1, LookedStays DEF SanctionsInv
<1>7. BannedIsOut'
  <2>1. \A u \in Users : (IsMember(u)' => IsMember(u)) /\ excused' = excused
    BY <1>1 DEF IsMember
  <2>2. \A u \in Users, t \in Workers : Removing(t, u) => Removing(t, u)'
    BY <1>1, <1>2, RemovalsStay
  <2> QED BY <1>4, <2>1, <2>2, BannedStays DEF SanctionsInv
<1> QED BY <1>1, <1>6, <1>7 DEF SanctionsInv, NoneYet

\* A deleted guild has no sanctions and no members.
LEMMA DeleteSanctions ==
  ASSUME NEW s \in Workers, Inv, Inv', SanctionsInv, DeleteServerRow(s)
  PROVE  SanctionsInv'
<1>1. sanction' = <<>> /\ guild' = "deleted" /\ \A k, u : ActiveSanctions(k, u)' = {}
  BY DEF DeleteServerRow, ActiveSanctions
<1>2. Looked'
  BY <1>1 DEF Looked, Clear
<1> QED BY <1>1, <1>2 DEF SanctionsInv, NoneYet, BannedIsOut

\* The clock and an instance ban only end what is in force.
LEMMA EndingSanctions ==
  ASSUME Inv, Inv', SanctionsInv, Tick \/ \E u \in Users : InstanceBan(u)
  PROVE  SanctionsInv'
<1>1. /\ UNCHANGED <<guild, sanction, founded, job>> /\ now' >= now /\ now \in Nat /\ now' \in Nat
  BY DEF Tick, InstanceBan, Inv, TablesOK, history
<1>2. \A k \in {"ban", "mute"}, u \in Users : ActiveSanctions(k, u)' \subseteq ActiveSanctions(k, u)
  <2>1. ASSUME NEW i \in DOMAIN sanction, sanction[i].until > now' PROVE sanction[i].until > now
    <3>1. sanction[i].until \in Nat
      BY Numbered DEF SanctionRow
    <3> QED BY <1>1, <2>1, <3>1
  <2> QED BY <1>1, <2>1 DEF ActiveSanctions, Active
<1>3. Ages
  <2>1. Len(sanction) <= Len(sanction')
    BY <1>1, Numbered
  <2>2. \A k \in {"ban", "mute"}, u \in Users, i \in Nat :
          i \in ActiveSanctions(k, u)' =>
            i \in ActiveSanctions(k, u) \/ (guild = "live" /\ i = Len(sanction) + 1)
    BY <1>2
  <2> QED BY <1>1, <2>1, <2>2 DEF Ages
<1>4. Looked'
  BY <1>1, <1>3, LookedStays DEF SanctionsInv
<1>5. \A u \in Users : (IsMember(u)' => IsMember(u)) /\ (IsMember(u)' /\ u \in excused => u \in excused')
  BY DEF Tick, InstanceBan, RemoveServerMember, IsMember, Inv, TablesOK, history
<1>6. \A u \in Users, t \in Workers : Removing(t, u) => Removing(t, u)'
  BY <1>1 DEF Removing, At
<1>7. BannedIsOut'
  BY <1>2, <1>5, <1>6, BannedStays DEF SanctionsInv
<1> QED BY <1>1, <1>4, <1>7 DEF SanctionsInv, NoneYet

\* Every step keeps what is said of sanctions.
LEMMA NextSanctions == ASSUME Inv, Inv', SanctionsInv, [Next]_vars PROVE SanctionsInv'
<1>1. CASE UNCHANGED vars
  BY <1>1 DEF vars, SanctionsInv, Looked, Clear, NoneYet, BannedIsOut, ActiveSanctions, Active,
       IsMember, At
<1>2. ASSUME NEW s \in Workers, NEW u \in Users,
             \/ LeaveServer(s, u) \/ DeleteServer(s, u)
             \/ \E c \in Codes : ClaimInvite(s, u, c) \/ \E d \in Lifetimes : CreateInvite(s, u, c, d)
             \/ \E t \in Users :
                  \/ KickMember(s, u, t) \/ UnbanMember(s, u, t) \/ UnmuteMember(s, u, t)
                  \/ \E d \in Lifetimes : BanMember(s, u, t, d) \/ MuteMember(s, u, t, d)
                  \/ \E n \in Levels : ChangeRole(s, u, t, n)
      PROVE  SanctionsInv'
  <2>1. Aside(s) /\ UNCHANGED <<now, guild, sanction, founded, excused, level>>
    BY <1>2, AsideStarts DEF tables, history
  <2> QED BY <2>1, AsideSanctions DEF IsMember
<1>3. ASSUME NEW s \in Workers, CheckTarget(s) \/ LiftActive(s) \/ InsertMessage(s)
      PROVE  SanctionsInv'
  <2>1. Aside(s) /\ UNCHANGED <<now, guild, sanction, founded, excused, level>>
    BY <1>3, AsideSteps DEF tables, history
  <2> QED BY <2>1, AsideSanctions DEF IsMember
<1>4. ASSUME NEW s \in Workers,
             \/ \E u \in Users : CreateServer(s, u) \/ JoinServer(s, u) \/ SendMessage(s, u)
             \/ JoinLevel(s) \/ JoinBan(s) \/ ClaimBan(s) \/ ClaimCap(s) \/ SendMember(s)
             \/ CreateServerOwner(s) \/ AddServerMember(s) \/ IncrementGuildMemberCount(s)
             \/ CreateInviteInsert(s) \/ ClaimInviteUse(s) \/ UpdateServerMemberLevel(s)
             \/ InsertSanction(s) \/ Remove(s) \/ Abandon(s) \/ LiftSanction(s) \/ DeleteServerRow(s)
      PROVE  SanctionsInv'
  BY <1>4, CreateServerSanctions, WalkSanctions, OwnerSanctions, AddSanctions, OtherSanctions,
     InsertSanctions, RemoveSanctions, LiftSanctions, DeleteSanctions
<1>5. CASE Tick \/ \E u \in Users : InstanceBan(u)
  BY <1>5, EndingSanctions
<1> QED BY <1>1, <1>2, <1>3, <1>4, <1>5 DEF Next

\* A guild that is not there sanctions nobody.
LEMMA InitSanctions == Init => SanctionsInv
BY IdleInv DEF Init, SanctionsInv, Looked, Looks, BanPcs, SendPcs, NoneYet, BannedIsOut, IsMember

\* Both invariants hold throughout.
LEMMA SanctionsKept == Spec => [](Inv /\ SanctionsInv)
<1>1. Init => Inv /\ SanctionsInv
  BY InitInv, InitSanctions
<1>2. Inv /\ SanctionsInv /\ [Next]_vars => (Inv /\ SanctionsInv)'
  BY NextInv, NextSanctions
<1> QED BY <1>1, <1>2, PTL DEF Spec

\* However joins, bans, unbans and removals interleave, a member under an
\* active ban either joined on a check older than that ban, or survived a
\* removal that failed, or has a handler about to remove it.
THEOREM BannedAreOut == Spec => []BannedIsOut
<1>1. Inv /\ SanctionsInv => BannedIsOut
  BY DEF SanctionsInv
<1> QED BY <1>1, SanctionsKept, PTL

\* No step stores a message for a user under a mute that was there when
\* isMuted looked, for any number of messages, mutes and unmutes in flight.
THEOREM MutesHold == Spec => MuteHolds
<1> DEFINE Held == \A s \in Workers : At(s, "sendInsert") /\ job'[s].pc = "idle"
                     => \A i \in ActiveSanctions("mute", job[s].actor) : i > job[s].seen
<1>1. Inv /\ SanctionsInv => Held
  <2> SUFFICES ASSUME Inv, SanctionsInv, NEW s \in Workers, At(s, "sendInsert")
               PROVE  \A i \in ActiveSanctions("mute", job[s].actor) : i > job[s].seen
    OBVIOUS
  <2> DEFINE u == job[s].actor
             n == job[s].seen
  <2>1. u \in Users /\ n \in Nat /\ Looks(job[s], "mute", u, n)
    BY DEF Inv, JobsInv, JobInv, Job, ActorPcs, At, Looks, SendPcs
  <2> HIDE DEF u, n
  <2>2. Clear("mute", u, n)
    BY <2>1 DEF SanctionsInv, Looked
  <2> QED BY <2>2 DEF Clear, u, n
<1>2. [](Inv /\ SanctionsInv) => [][Held]_vars
  BY <1>1, PTL
<1> QED BY <1>2, SanctionsKept, PTL DEF MuteHolds


(***************************************************************************)
(* Limits.                                                                 *)
(***************************************************************************)
\* Requests in flight are finitely many.
LEMMA Counted ==
  /\ IsFiniteSet(Workers) /\ Cardinality(Workers) \in Nat /\ Cardinality(Workers) >= 1
  /\ \A T \in SUBSET Workers : /\ IsFiniteSet(T) /\ Cardinality(T) \in Nat
                               /\ Cardinality(T) <= Cardinality(Workers)
<1>1. IsFiniteSet(Workers) /\ Workers # {}
  BY GuildAssumption
<1>2. Cardinality(Workers) \in Nat /\ Cardinality(Workers) # 0
  BY <1>1, FS_CardinalityType, FS_EmptySet
<1>3. ASSUME NEW T \in SUBSET Workers
      PROVE  /\ IsFiniteSet(T) /\ Cardinality(T) \in Nat /\ Cardinality(T) <= Cardinality(Workers)
  BY <1>1, FS_Subset, FS_CardinalityType
<1> QED BY <1>1, <1>2, <1>3

\* A smaller set of requests; one request more; one request less.
LEMMA Fewer ==
  ASSUME NEW S \in SUBSET Workers, NEW T \in SUBSET S
  PROVE  Cardinality(T) <= Cardinality(S) /\ Cardinality(T) \in Nat /\ Cardinality(S) \in Nat
BY Counted, FS_Subset, FS_CardinalityType

\* A request that joins a set of requests adds at most one.
LEMMA OneMore ==
  ASSUME NEW S \in SUBSET Workers, NEW s \in Workers
  PROVE  Cardinality(S \cup {s}) <= Cardinality(S) + 1
<1>1. IsFiniteSet(S) /\ Cardinality(S) \in Nat /\ Cardinality(S \cup {s}) \in Nat
  BY Counted
<1> DEFINE a == Cardinality(S)
           b == Cardinality(S \cup {s})
<1>2. a \in Nat /\ b \in Nat /\ (b = a \/ b = a + 1)
  BY <1>1, FS_AddElement
<1> HIDE DEF a, b
<1>3. b <= a + 1
  BY <1>2
<1> QED BY <1>3 DEF a, b

\* A request that leaves a set of requests it is in takes one away.
LEMMA OneLess ==
  ASSUME NEW S \in SUBSET Workers, NEW s \in S
  PROVE  Cardinality(S \ {s}) = Cardinality(S) - 1 /\ Cardinality(S) \in Nat
         /\ Cardinality(S \ {s}) \in Nat
BY Counted, FS_RemoveElement

\* The numbers that the limits compare.
LEMMA LimitTypes ==
  ASSUME Inv
  PROVE  /\ count \in Nat /\ Cap \in Nat /\ Cardinality(Counting) \in Nat
         /\ Counting \in SUBSET Workers
         /\ \A c \in Codes : /\ joined[c] \in Nat /\ Claims(c) \in SUBSET Workers
                             /\ Cardinality(Claims(c)) \in Nat
                             /\ invite[c] # None => invite[c] \in InviteRow
                             /\ invite[c] # None => invite[c].uses \in Nat /\ invite[c].max \in Nat
<1>1. count \in Nat /\ Cap \in Nat /\ Counting \in SUBSET Workers
  BY GuildAssumption DEF Inv, TablesOK, Counting
<1>2. \A c \in Codes : joined[c] \in Nat /\ Claims(c) \in SUBSET Workers
                       /\ (invite[c] # None => invite[c] \in InviteRow)
  BY DEF Inv, TablesOK, Claims
<1>3. \A c \in Codes : invite[c] # None => invite[c].uses \in Nat /\ invite[c].max \in Nat
  BY <1>2 DEF InviteRow
<1> QED BY <1>1, <1>2, <1>3, Counted

\* Invites keep their bounds when no claim is added and no use is given back.
LEMMA InvitesStay ==
  ASSUME Inv, Inv', InvitesHeld, UNCHANGED <<invite, joined>>,
         guild = "deleted" <=> guild' = "deleted",
         \A c \in Codes : Claims(c)' \subseteq Claims(c)
  PROVE  InvitesHeld'
<1>1. ASSUME NEW c \in Codes
      PROVE  /\ Cardinality(Claims(c)') <= Cardinality(Claims(c))
             /\ Cardinality(Claims(c)') \in Nat /\ Cardinality(Claims(c)) \in Nat
             /\ joined[c] \in Nat /\ (invite[c] # None => invite[c].uses \in Nat)
  BY Fewer, LimitTypes
<1>2. ASSUME NEW c \in Codes
      PROVE  IF invite'[c] = None THEN guild' # "deleted" => joined'[c] = 0 /\ Claims(c)' = {}
             ELSE /\ joined'[c] + Cardinality(Claims(c)') <= invite'[c].uses
                  /\ invite'[c].uses <= invite'[c].max
  <2>1. CASE invite[c] = None
    BY <2>1 DEF InvitesHeld
  <2>2. CASE invite[c] # None
    BY <1>1, <2>2 DEF InvitesHeld
  <2> QED BY <2>1, <2>2
<1> QED BY <1>2 DEF InvitesHeld

\* The cap keeps when nothing more is counted.
LEMMA CapStays ==
  ASSUME Inv, CapHeld, UNCHANGED count, Counting' \subseteq Counting
  PROVE  CapHeld'
<1>1. Cardinality(Counting') <= Cardinality(Counting) /\ Cardinality(Counting') \in Nat
      /\ Cardinality(Counting) \in Nat /\ count \in Nat /\ Cap \in Nat /\ Cardinality(Workers) \in Nat
  BY Fewer, LimitTypes, Counted
<1> QED BY <1>1 DEF CapHeld

\* A request that comes in under the cap: all requests together are as many
\* as there can be.
LEMMA CapEntered ==
  ASSUME Inv, UnderCap, UNCHANGED count PROVE CapHeld'
<1>1. Counting' \in SUBSET Workers
  BY DEF Counting
<1>2. Cardinality(Counting') <= Cardinality(Workers) /\ Cardinality(Counting') \in Nat
      /\ Cardinality(Workers) \in Nat /\ count \in Nat /\ Cap \in Nat
  BY <1>1, Counted, LimitTypes
<1> QED BY <1>2 DEF UnderCap, CapHeld

\* A request that goes where nothing is counted.
LEMMA AsideLimits ==
  ASSUME NEW s \in Workers, Inv, Inv', LimitsInv, Others(s), job'[s].pc \notin WatchedPcs,
         UNCHANGED <<count, invite, joined>>, guild = "deleted" <=> guild' = "deleted"
  PROVE  LimitsInv'
<1>1. Counting' \subseteq Counting /\ \A c \in Codes : Claims(c)' \subseteq Claims(c)
  BY DEF Others, Counting, Claims, At, WatchedPcs, BanPcs, CountPcs
<1>2. NoCode'
  BY DEF Others, LimitsInv, NoCode, WatchedPcs, CountPcs
<1> QED BY <1>1, <1>2, InvitesStay, CapStays DEF LimitsInv

\* The steps of Walks: who comes in came in under the cap, and only a join
\* without a code gets to its insert from here.
LEMMA WalkLimits ==
  ASSUME NEW s \in Workers, Inv, Inv', LimitsInv,
         \/ \E u \in Users : JoinServer(s, u) \/ SendMessage(s, u)
         \/ JoinLevel(s) \/ JoinBan(s) \/ ClaimBan(s) \/ ClaimCap(s) \/ SendMember(s)
  PROVE  LimitsInv'
<1>1. UNCHANGED <<guild, count, invite, joined>>
  BY Walks DEF tables, history
<1>2. CASE Aside(s)
  BY <1>1, <1>2, AsideLimits DEF Aside
<1>3. CASE \/ Hop(s, "idle", "joinLevel") /\ job'[s].code = None /\ UnderCap
           \/ Hop(s, "claimCap", "claimUse") /\ UnderCap
  <2>1. NoCode' /\ \A c \in Codes : Claims(c)' \subseteq Claims(c)
    BY <1>3 DEF Hop, Others, LimitsInv, NoCode, Claims, At
  <2> QED BY <1>1, <1>3, <2>1, InvitesStay, CapEntered DEF LimitsInv
<1>4. CASE \/ Hop(s, "joinLevel", "joinBan") /\ Same(s)
           \/ Hop(s, "joinBan", "add") /\ job'[s].code = job[s].code
           \/ Hop(s, "claimBan", "claimCap")
           \/ Hop(s, "idle", "sendMember") \/ Hop(s, "sendMember", "sendInsert")
  <2>1. NoCode'
    BY <1>4 DEF Hop, Same, Others, LimitsInv, NoCode
  <2>2. Hop(s, "joinBan", "add") => job'[s].code = None
    BY <1>4 DEF Hop, LimitsInv, NoCode
  <2>3. \A c \in Codes : Claims(c)' \subseteq Claims(c)
    BY <1>4, <2>2, GuildAssumption DEF Hop, Others, Claims, At
  <2>4. Counting' \subseteq Counting
    BY <1>4 DEF Hop, Others, Counting, CountPcs
  <2> QED BY <1>1, <2>1, <2>3, <2>4, InvitesStay, CapStays DEF LimitsInv
<1> QED BY <1>2, <1>3, <1>4, Walks


\* A claim that inserts its member turns a use it holds into one who joined.
LEMMA AddLimits ==
  ASSUME NEW s \in Workers, Inv, Inv', LimitsInv, AddServerMember(s)
  PROVE  LimitsInv'
<1>1. job[s].pc = "add" /\ job[s] \in Job /\ UNCHANGED <<guild, count, invite>>
  BY DEF AddServerMember, At, Inv, JobsInv
<1>2. CASE Done(s) /\ UNCHANGED <<level, joined, excused>>
  BY <1>1, <1>2, Finishes, AsideLimits
<1>d. PICK d : d = job[s].code
  OBVIOUS
<1>3. CASE /\ guild = "live" /\ Goto(s, "count")
           /\ joined' = IF d = None THEN joined ELSE [joined EXCEPT ![d] = @ + 1]
  <2>1. Hop(s, "add", "count") /\ Same(s) /\ d \in Codes \cup {None}
    BY <1>1, <1>3, <1>d, Goes DEF Job
  <2>2. NoCode' /\ Counting' \subseteq Counting
    BY <2>1 DEF Hop, Others, LimitsInv, NoCode, Counting, CountPcs
  <2>3. \A c \in Codes : Claims(c)' = Claims(c) \ {s}
    BY <2>1 DEF Hop, Others, Claims, At
  <2>4. CASE d = None
    <3>1. joined' = joined /\ \A c \in Codes : Claims(c)' \subseteq Claims(c)
      BY <1>3, <2>3, <2>4
    <3> QED BY <1>1, <2>2, <3>1, InvitesStay, CapStays DEF LimitsInv
  <2>5. CASE d \in Codes
    <3>1. s \in Claims(d) /\ d # None
      BY <1>1, <1>d, <2>5, GuildAssumption DEF Claims, At
    <3>2. joined'[d] = joined[d] + 1 /\ \A c \in Codes \ {d} : joined'[c] = joined[c]
      BY <1>3, <2>5, <3>1 DEF Inv, TablesOK
    <3>3. invite[d] # None
      BY <1>3, <2>5, <3>1 DEF LimitsInv, InvitesHeld
    <3>4. Cardinality(Claims(d)') = Cardinality(Claims(d)) - 1 /\ Cardinality(Claims(d)) \in Nat
          /\ joined[d] \in Nat /\ invite[d].uses \in Nat
      BY <2>3, <2>5, <3>1, <3>3, OneLess, LimitTypes
    <3>5. joined'[d] + Cardinality(Claims(d)') <= invite'[d].uses /\ invite'[d].uses <= invite'[d].max
      BY <1>1, <2>5, <3>2, <3>3, <3>4 DEF LimitsInv, InvitesHeld
    <3>6. ASSUME NEW c \in Codes \ {d} PROVE Claims(c)' = Claims(c)
      BY <1>d, <2>3, <2>5, <3>1 DEF Claims
    <3>7. InvitesHeld'
      <4>1. ASSUME NEW c \in Codes
            PROVE  IF invite'[c] = None THEN guild' # "deleted" => joined'[c] = 0 /\ Claims(c)' = {}
                   ELSE /\ joined'[c] + Cardinality(Claims(c)') <= invite'[c].uses
                        /\ invite'[c].uses <= invite'[c].max
        <5>1. CASE c = d
          BY <1>1, <3>3, <3>5, <5>1
        <5>2. CASE c # d
          BY <1>1, <3>2, <3>6, <5>2 DEF LimitsInv, InvitesHeld
        <5> QED BY <5>1, <5>2
      <4> QED BY <1>1, <1>3, <4>1 DEF InvitesHeld
    <3> QED BY <1>1, <2>2, <3>7, CapStays DEF LimitsInv
  <2> QED BY <2>1, <2>4, <2>5
<1> QED BY <1>2, <1>3, <1>d DEF AddServerMember

\* A use is claimed below max_uses, by the one request that then holds it.
LEMMA ClaimLimits ==
  ASSUME NEW s \in Workers, Inv, Inv', LimitsInv, ClaimInviteUse(s)
  PROVE  LimitsInv'
<1>1. job[s].pc = "claimUse" /\ job[s].code \in Codes /\ UNCHANGED <<guild, count, joined>>
  BY DEF ClaimInviteUse, At, Inv, JobsInv, JobInv, CodePcs, history
<1>2. CASE Done(s) /\ UNCHANGED invite
  BY <1>1, <1>2, Finishes, AsideLimits
<1>d. PICK d : d = job[s].code
  OBVIOUS
<1>3. CASE Usable(d) /\ invite' = [invite EXCEPT ![d].uses = @ + 1] /\ Goto(s, "add")
  <2>1. Hop(s, "claimUse", "add") /\ Same(s) /\ d \in Codes
    BY <1>1, <1>3, <1>d, Goes
  <2>2. NoCode' /\ Counting' \subseteq Counting
    BY <2>1 DEF Hop, Others, LimitsInv, NoCode, Counting, CountPcs
  <2>3. Claims(d)' \subseteq Claims(d) \cup {s} /\ \A c \in Codes \ {d} : Claims(c)' = Claims(c)
    BY <1>d, <2>1 DEF Hop, Same, Others, Claims, At
  <2>4. invite[d] # None /\ invite[d] \in InviteRow /\ invite[d].uses < invite[d].max
        /\ invite[d].uses \in Nat /\ invite[d].max \in Nat
    BY <1>3, <2>1, LimitTypes DEF Usable
  <2>5. /\ invite'[d].uses = invite[d].uses + 1 /\ invite'[d].max = invite[d].max
        /\ invite'[d] # None /\ \A c \in Codes \ {d} : invite'[c] = invite[c]
    <3> DEFINE k == invite[d].uses + 1
               r == [invite[d] EXCEPT !.uses = k]
    <3>1. k \in Nat /\ invite' = [invite EXCEPT ![d] = r] /\ invite \in [Codes -> InviteRow \cup {None}]
      BY <1>3, <2>4 DEF Inv, TablesOK
    <3>2. k = invite[d].uses + 1
      OBVIOUS
    <3> HIDE DEF k
    <3>3. r \in InviteRow /\ r.uses = k /\ r.max = invite[d].max
      BY <2>4, <3>1 DEF InviteRow
    <3>4. r # None
      BY <3>3, GuildAssumption DEF InviteRow
    <3> HIDE DEF r
    <3>5. invite'[d] = r /\ \A c \in Codes \ {d} : invite'[c] = invite[c]
      BY <2>1, <3>1
    <3> QED BY <3>2, <3>3, <3>4, <3>5
  <2>6. Cardinality(Claims(d)') <= Cardinality(Claims(d)) + 1
        /\ Cardinality(Claims(d)) \in Nat /\ Cardinality(Claims(d)') \in Nat /\ joined[d] \in Nat
    <3>1. Claims(d) \in SUBSET Workers /\ Claims(d)' \in SUBSET Workers
          /\ Claims(d) \cup {s} \in SUBSET Workers
      BY DEF Claims
    <3>2. Cardinality(Claims(d)') <= Cardinality(Claims(d) \cup {s})
          /\ Cardinality(Claims(d)') \in Nat /\ Cardinality(Claims(d) \cup {s}) \in Nat
      BY <2>3, <3>1, Fewer
    <3>3. Cardinality(Claims(d) \cup {s}) <= Cardinality(Claims(d)) + 1 /\ Cardinality(Claims(d)) \in Nat
      BY <3>1, OneMore, Counted
    <3>4. joined[d] \in Nat
      BY <2>1, LimitTypes
    <3> QED BY <3>2, <3>3, <3>4
  <2>7. joined'[d] + Cardinality(Claims(d)') <= invite'[d].uses /\ invite'[d].uses <= invite'[d].max
    <3>1. joined[d] + Cardinality(Claims(d)) <= invite[d].uses
      BY <2>1, <2>4 DEF LimitsInv, InvitesHeld
    <3> QED BY <1>1, <2>4, <2>5, <2>6, <3>1
  <2>8. guild # "deleted"
    BY <2>1, <2>4 DEF LimitsInv, InvitesHeld
  <2>9. InvitesHeld'
    <3>1. ASSUME NEW c \in Codes
          PROVE  IF invite'[c] = None THEN guild' # "deleted" => joined'[c] = 0 /\ Claims(c)' = {}
                 ELSE /\ joined'[c] + Cardinality(Claims(c)') <= invite'[c].uses
                      /\ invite'[c].uses <= invite'[c].max
      <4>1. CASE c = d
        BY <2>5, <2>7, <4>1
      <4>2. CASE c # d
        <5>1. invite'[c] = invite[c] /\ Claims(c)' = Claims(c) /\ joined'[c] = joined[c]
          BY <1>1, <2>3, <2>5, <4>2
        <5> QED BY <1>1, <5>1 DEF LimitsInv, InvitesHeld
      <4> QED BY <4>1, <4>2
    <3> QED BY <1>1, <2>8, <3>1 DEF InvitesHeld
  <2> QED BY <1>1, <2>2, <2>9, CapStays DEF LimitsInv
<1> QED BY <1>2, <1>3, <1>d DEF ClaimInviteUse

\* A new invite is unused, and nobody came in on its code.
LEMMA InviteLimits ==
  ASSUME NEW s \in Workers, Inv, Inv', LimitsInv, CreateInviteInsert(s)
  PROVE  LimitsInv'
<1>1. job[s].pc = "invite" /\ job[s].code \in Codes /\ UNCHANGED <<guild, count, joined>> /\ Done(s)
  BY DEF CreateInviteInsert, At, Inv, JobsInv, JobInv, CodePcs, history
<1>2. Others(s) /\ job'[s].pc \notin WatchedPcs
  BY <1>1, Finishes
<1>3. CASE UNCHANGED invite
  BY <1>1, <1>2, <1>3, AsideLimits
<1> DEFINE d == job[s].code
           r == [max |-> MaxUses, uses |-> 0, until |-> job[s].until]
<1>4. CASE guild = "live" /\ invite[d] = None /\ invite' = [invite EXCEPT ![d] = r]
  <2>1. /\ Counting' \subseteq Counting /\ NoCode'
        /\ \A c \in Codes : Claims(c)' = Claims(c) \ {s}
    BY <1>2 DEF Others, Counting, Claims, At, LimitsInv, NoCode, WatchedPcs, BanPcs, CountPcs
  <2>2. \A c \in Codes : Claims(c)' = Claims(c)
    BY <1>1, <2>1 DEF Claims, At
  <2>3. joined[d] = 0 /\ Claims(d) = {}
    BY <1>1, <1>4 DEF LimitsInv, InvitesHeld
  <2>4. r.uses = 0 /\ r.max = MaxUses /\ MaxUses \in Nat /\ Cardinality({}) = 0
    BY GuildAssumption, FS_EmptySet
  <2>5. invite'[d] = r /\ \A c \in Codes \ {d} : invite'[c] = invite[c]
    BY <1>1, <1>4 DEF Inv, TablesOK
  <2> HIDE DEF r
  <2>6. InvitesHeld'
    <3>1. ASSUME NEW c \in Codes
          PROVE  IF invite'[c] = None THEN guild' # "deleted" => joined'[c] = 0 /\ Claims(c)' = {}
                 ELSE /\ joined'[c] + Cardinality(Claims(c)') <= invite'[c].uses
                      /\ invite'[c].uses <= invite'[c].max
      <4>1. CASE c = d
        <5>1. joined'[c] = 0 /\ Claims(c)' = {} /\ invite'[c] = r
          BY <1>1, <2>2, <2>3, <2>5, <4>1
        <5>2. joined'[c] + Cardinality(Claims(c)') <= r.uses /\ r.uses <= r.max
          BY <2>4, <5>1
        <5> QED BY <5>1, <5>2
      <4>2. CASE c # d
        BY <1>1, <2>2, <2>5, <4>2 DEF LimitsInv, InvitesHeld
      <4> QED BY <4>1, <4>2
    <3> QED BY <1>1, <1>4, <3>1 DEF InvitesHeld
  <2> QED BY <1>1, <2>1, <2>6, CapStays DEF LimitsInv
<1> QED BY <1>3, <1>4 DEF CreateInviteInsert

\* The counter takes over what a request in flight stood for.
LEMMA CountLimits ==
  ASSUME NEW s \in Workers, Inv, Inv', LimitsInv, IncrementGuildMemberCount(s)
  PROVE  LimitsInv'
<1>1. job[s].pc = "count" /\ UNCHANGED <<guild, invite, joined>> /\ Done(s)
      /\ (count' = count \/ count' = count + 1)
  BY DEF IncrementGuildMemberCount, At, history
<1>2. Others(s) /\ job'[s].pc \notin WatchedPcs
  BY <1>1, Finishes
<1>3. NoCode' /\ \A c \in Codes : Claims(c)' \subseteq Claims(c)
  BY <1>2 DEF Others, Claims, At, LimitsInv, NoCode, WatchedPcs, BanPcs, CountPcs
<1>4. s \in Counting /\ Counting' = Counting \ {s} /\ Counting \in SUBSET Workers
  BY <1>1, <1>2 DEF Others, Counting, WatchedPcs, CountPcs
<1>5. Cardinality(Counting') = Cardinality(Counting) - 1 /\ Cardinality(Counting) \in Nat
  BY <1>4, OneLess
<1>6. CapHeld'
  BY <1>1, <1>5, LimitTypes, Counted DEF LimitsInv, CapHeld
<1> QED BY <1>1, <1>3, <1>6, InvitesStay DEF LimitsInv

\* A deleted guild has no invites, and makes none.
LEMMA DeleteLimits ==
  ASSUME NEW s \in Workers, Inv, Inv', LimitsInv, DeleteServerRow(s)
  PROVE  LimitsInv'
<1>1. guild' = "deleted" /\ invite' = [c \in Codes |-> None] /\ UNCHANGED count /\ Done(s)
  BY DEF DeleteServerRow
<1>2. Others(s) /\ job'[s].pc \notin WatchedPcs
  BY <1>1, Finishes
<1>3. Counting' \subseteq Counting /\ NoCode'
  BY <1>2 DEF Others, Counting, LimitsInv, NoCode, WatchedPcs, CountPcs
<1> QED BY <1>1, <1>3, CapStays DEF LimitsInv, InvitesHeld

\* The other steps of a request: they end, or go on to remove a member.
LEMMA OtherLimits ==
  ASSUME NEW s \in Workers, Inv, Inv', LimitsInv,
         \/ CreateServerOwner(s) \/ UpdateServerMemberLevel(s) \/ InsertSanction(s) \/ Remove(s)
         \/ Abandon(s) \/ LiftSanction(s) \/ \E u \in Users : CreateServer(s, u)
  PROVE  LimitsInv'
<1>1. UNCHANGED <<count, invite, joined>> /\ (guild = "deleted" <=> guild' = "deleted")
  BY DEF CreateServerOwner, UpdateServerMemberLevel, InsertSanction, Remove, Abandon, LiftSanction,
       CreateServer, tables, history
<1>2. Others(s) /\ job'[s].pc \notin WatchedPcs
  <2>1. CASE Done(s)
    BY <2>1, Finishes
  <2>2. CASE Goto(s, "remove")
    BY <2>2, Goes DEF Hop, WatchedPcs, BanPcs, SendPcs, CountPcs
  <2>3. ASSUME NEW u \in Users, CreateServer(s, u) PROVE Others(s) /\ job'[s].pc \notin WatchedPcs
    <3> DEFINE j == [Idle EXCEPT !.pc = "owner", !.actor = u]
    <3>1. Start(s, j) /\ j.pc = "owner"
      BY <2>3 DEF CreateServer, Idle
    <3> HIDE DEF j
    <3> QED BY <3>1, Begins DEF WatchedPcs, BanPcs, SendPcs, CountPcs
  <2> QED BY <2>1, <2>2, <2>3 DEF CreateServerOwner, UpdateServerMemberLevel, InsertSanction,
        Remove, Abandon, LiftSanction
<1> QED BY <1>1, <1>2, AsideLimits

\* Every step keeps the limits.
LEMMA NextLimits == ASSUME Inv, Inv', LimitsInv, [Next]_vars PROVE LimitsInv'
<1>1. CASE UNCHANGED <<guild, count, invite, joined, job>>
  <2>1. NoCode' /\ Counting' \subseteq Counting /\ \A c \in Codes : Claims(c)' \subseteq Claims(c)
    BY <1>1 DEF LimitsInv, NoCode, Counting, Claims, At
  <2> QED BY <1>1, <2>1, InvitesStay, CapStays DEF LimitsInv
<1>2. ASSUME NEW s \in Workers, NEW u \in Users,
             \/ LeaveServer(s, u) \/ DeleteServer(s, u)
             \/ \E c \in Codes : ClaimInvite(s, u, c) \/ \E d \in Lifetimes : CreateInvite(s, u, c, d)
             \/ \E t \in Users :
                  \/ KickMember(s, u, t) \/ UnbanMember(s, u, t) \/ UnmuteMember(s, u, t)
                  \/ \E d \in Lifetimes : BanMember(s, u, t, d) \/ MuteMember(s, u, t, d)
                  \/ \E n \in Levels : ChangeRole(s, u, t, n)
      PROVE  LimitsInv'
  <2>1. Aside(s) /\ UNCHANGED <<guild, count, invite, joined>>
    BY <1>2, AsideStarts DEF tables, history
  <2> QED BY <2>1, AsideLimits DEF Aside
<1>3. ASSUME NEW s \in Workers, CheckTarget(s) \/ LiftActive(s) \/ InsertMessage(s)
      PROVE  LimitsInv'
  <2>1. Aside(s) /\ UNCHANGED <<guild, count, invite, joined>>
    BY <1>3, AsideSteps DEF tables, history
  <2> QED BY <2>1, AsideLimits DEF Aside
<1>4. ASSUME NEW s \in Workers,
             \/ \E u \in Users : CreateServer(s, u) \/ JoinServer(s, u) \/ SendMessage(s, u)
             \/ JoinLevel(s) \/ JoinBan(s) \/ ClaimBan(s) \/ ClaimCap(s) \/ SendMember(s)
             \/ CreateServerOwner(s) \/ AddServerMember(s) \/ IncrementGuildMemberCount(s)
             \/ CreateInviteInsert(s) \/ ClaimInviteUse(s) \/ UpdateServerMemberLevel(s)
             \/ InsertSanction(s) \/ Remove(s) \/ Abandon(s) \/ LiftSanction(s) \/ DeleteServerRow(s)
      PROVE  LimitsInv'
  BY <1>4, WalkLimits, AddLimits, CountLimits, InviteLimits, ClaimLimits, DeleteLimits, OtherLimits
<1>5. UNCHANGED vars \/ Tick \/ (\E u \in Users : InstanceBan(u))
        => UNCHANGED <<guild, count, invite, joined, job>>
  BY DEF vars, Tick, InstanceBan, history
<1> QED BY <1>1, <1>2, <1>3, <1>4, <1>5 DEF Next

\* Nothing is counted at the start.
LEMMA InitLimits == Init => LimitsInv
<1> SUFFICES ASSUME Init PROVE LimitsInv
  OBVIOUS
<1>1. Counting = {} /\ NoCode /\ \A c \in Codes : Claims(c) = {}
  BY IdleInv DEF Init, Counting, NoCode, Claims, At, CountPcs
<1>2. InvitesHeld
  BY <1>1 DEF Init, InvitesHeld
<1>3. CapHeld
  <2>1. Cardinality(Counting) = 0 /\ count = 0 /\ Cap \in Nat
    BY <1>1, FS_EmptySet, GuildAssumption DEF Init
  <2> QED BY <2>1, Counted DEF CapHeld
<1> QED BY <1>1, <1>2, <1>3 DEF LimitsInv

\* For every number of requests in flight: an invite never brings in more
\* members than its uses, nor has more uses than max_uses; and member_count
\* exceeds the cap by at most the requests that compared it in time.
THEOREM LimitsKept == Spec => []LimitsHeld
<1>1. Init => Inv /\ LimitsInv
  BY InitInv, InitLimits
<1>2. Inv /\ LimitsInv /\ [Next]_vars => (Inv /\ LimitsInv)'
  BY NextInv, NextLimits
<1>3. Inv /\ LimitsInv => LimitsHeld
  <2> SUFFICES ASSUME Inv, LimitsInv PROVE LimitsHeld
    OBVIOUS
  <2>1. count <= Cap + Cardinality(Workers) - 1
    BY LimitTypes, Counted DEF LimitsInv, CapHeld
  <2> QED BY <2>1 DEF LimitsHeld, LimitsInv, InvitesHeld, Claims
<1> QED BY <1>1, <1>2, <1>3, PTL DEF Spec
=============================================================================
