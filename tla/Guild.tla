-------------------------------- MODULE Guild --------------------------------
(***************************************************************************)
(* Membership and moderation of one guild: creation, joining, invites,     *)
(* roles, kicks, bans, mutes and deletion (internal/api/servers.go,        *)
(* moderation.go, invites.go and middleware.go on the tables of            *)
(* internal/db/server_members.go, moderation.go, invites.go, servers.go),  *)
(* and the mute check of a message that is sent (internal/ws/handlers.go). *)
(*                                                                         *)
(* A handler is a job of several SQL statements, jobs interleave between   *)
(* statements, and the level that RequireGuildMember read at the start is  *)
(* what the handler decides on until its end.  A request its first         *)
(* statement refuses changes nothing and is not a step.                    *)
(*                                                                         *)
(* Left out: the audit log, system messages and broadcasts, which no       *)
(* handler reads back; channels; voice eviction; federated members, whose  *)
(* sessions RequireAuth refuses.  The guild's access policy is open.       *)
(***************************************************************************)
EXTENDS Integers, Sequences, FiniteSets

CONSTANTS
  Users,
  Codes,         \* invite codes
  Workers,       \* requests that can be in flight at once
  Kinds,         \* the requests that each of them may be
  Cap,           \* effectiveMemberCap
  MaxUses,       \* max_uses an invite is created with
  Lifetimes,     \* lifetimes of sanctions and invites
  Faults,        \* whether statements may fail and handlers may stop
  MaxSanctions,  \* bound of the bans and mutes that are ever made
  MaxNow,        \* bound of the clock
  None

VARIABLES
  now,
  guild,      \* the row of servers: "none", "live" or "deleted"
  count,      \* servers.member_count
  level,      \* server_members: permission_level, or None
  sanction,   \* bans and mutes in the order of created_at
  invite,     \* invite_codes
  job,
  creator,    \* history: who created the guild
  founded,    \* history: whether the creator was made its owner
  giver,      \* history: who made an admin an admin
  ousted,     \* history: whether an instance ban took the creator out
  joined,     \* history: how many members came in through an invite
  excused     \* history: banned members whose ban check was older than the
              \* ban, or whose removal failed

vars == <<now, guild, count, level, sanction, invite, job, creator, founded, giver,
          ousted, joined, excused>>
history == <<creator, founded, giver, ousted, joined, excused>>

\* models.PermissionLevel*.
Member == 0
Mod == 1
Admin == 2
Owner == 3
Levels == Member .. Owner

AllKinds == {"join", "claim", "invite", "leave", "kick", "ban", "mute", "unban",
             "unmute", "role", "send", "delete"}

ASSUME GuildAssumption ==
  /\ Kinds \in [Workers -> SUBSET AllKinds]
  /\ Cap \in Nat /\ MaxUses \in Nat /\ Lifetimes \subseteq Nat
  /\ MaxSanctions \in Nat /\ MaxNow \in Nat /\ Faults \in BOOLEAN
  /\ IsFiniteSet(Workers) /\ Workers # {}
  /\ None \notin Users /\ None \notin Codes /\ None \notin Levels
  /\ None \notin [max : Nat, uses : Nat, until : Nat]

Idle == [pc |-> "idle", kind |-> None, actor |-> None, target |-> None, rank |-> Member,
         new |-> Member, until |-> 0, seen |-> 0, code |-> None]

Init ==
  /\ now = 0
  /\ guild = "none"
  /\ count = 0
  /\ level = [u \in Users |-> None]
  /\ sanction = <<>>
  /\ invite = [c \in Codes |-> None]
  /\ job = [s \in Workers |-> Idle]
  /\ creator = None
  /\ founded = FALSE
  /\ giver = [u \in Users |-> None]
  /\ ousted = FALSE
  /\ joined = [c \in Codes |-> 0]
  /\ excused = {}

At(s, pc) == job[s].pc = pc
Goto(s, pc) == job' = [job EXCEPT ![s].pc = pc]
Done(s) == job' = [job EXCEPT ![s] = Idle]
Start(s, j) == job[s] = Idle /\ job' = [job EXCEPT ![s] = j]

(***************************************************************************)
(* The tables.                                                             *)
(***************************************************************************)
IsMember(u) == level[u] # None

\* GetActiveBan and GetActiveMute: neither lifted nor expired, newest first.
Active(i, kind, u) ==
  /\ sanction[i].kind = kind /\ sanction[i].user = u
  /\ ~sanction[i].lifted /\ sanction[i].until > now
ActiveSanctions(kind, u) == {i \in DOMAIN sanction : Active(i, kind, u)}
IsNewest(i, ids) == i \in ids /\ \A k \in ids : k <= i

RemoveServerMember(u) ==
  /\ level' = [level EXCEPT ![u] = None]
  /\ giver' = [giver EXCEPT ![u] = None]
  /\ excused' = excused \ {u}

tables == <<now, guild, count, level, sanction, invite>>

(***************************************************************************)
(* createServer: the server row, then the owner's membership, which does   *)
(* not count in member_count.                                              *)
(***************************************************************************)
CreateServer(s, u) ==
  /\ guild = "none"
  /\ guild' = "live" /\ creator' = u
  /\ Start(s, [Idle EXCEPT !.pc = "owner", !.actor = u])
  /\ UNCHANGED <<now, count, level, sanction, invite, founded, giver, ousted, joined, excused>>

CreateServerOwner(s) ==
  /\ At(s, "owner")
  /\ LET u == job[s].actor IN
       IF guild = "live" /\ ~IsMember(u)
       THEN /\ level' = [level EXCEPT ![u] = Owner]
            /\ founded' = TRUE
       ELSE UNCHANGED <<level, founded>>
  /\ Done(s)
  /\ UNCHANGED <<now, guild, count, sanction, invite, creator, giver, ousted, joined, excused>>

(***************************************************************************)
(* joinServer: the server row with its cap, own membership, active ban,    *)
(* the insert, the counter.                                                *)
(***************************************************************************)
UnderCapOffByOne == count <= Cap    \* mutant: > instead of >=
UnderCap == count < Cap

JoinServer(s, u) ==
  /\ "join" \in Kinds[s]
  /\ guild = "live" /\ founded /\ UnderCap    \* the operator opens it once it is made
  /\ Start(s, [Idle EXCEPT !.pc = "joinLevel", !.actor = u])
  /\ UNCHANGED <<tables, history>>

JoinLevel(s) ==
  /\ At(s, "joinLevel")
  /\ IF IsMember(job[s].actor) THEN Done(s) ELSE Goto(s, "joinBan")
  /\ UNCHANGED <<tables, history>>

\* The ban check of a join and of a claim; job.seen dates it.
Unchecked(s, next) ==    \* mutant: the ban is looked up and not looked at
  job' = [job EXCEPT ![s].pc = next, ![s].seen = Len(sanction)]
CheckBan(s, next) ==
  IF ActiveSanctions("ban", job[s].actor) # {} THEN Done(s)
  ELSE job' = [job EXCEPT ![s].pc = next, ![s].seen = Len(sanction)]

JoinBan(s) ==
  /\ At(s, "joinBan")
  /\ CheckBan(s, "add")
  /\ UNCHANGED <<tables, history>>

\* AddServerMember fails on a membership that exists and on a deleted guild.
AddServerMember(s) ==
  /\ At(s, "add")
  /\ LET u == job[s].actor
         c == job[s].code IN
       IF guild = "live" /\ ~IsMember(u)
       THEN /\ level' = [level EXCEPT ![u] = Member]
            /\ joined' = IF c = None THEN joined ELSE [joined EXCEPT ![c] = @ + 1]
            /\ excused' = IF \E i \in ActiveSanctions("ban", u) : i > job[s].seen
                          THEN excused \cup {u} ELSE excused
            /\ Goto(s, "count")
       ELSE Done(s) /\ UNCHANGED <<level, joined, excused>>
  /\ UNCHANGED <<now, guild, count, sanction, invite, creator, founded, giver, ousted>>

\* IncrementGuildMemberCount; its failure is only logged.
IncrementGuildMemberCount(s) ==
  /\ At(s, "count")
  /\ \/ count' = IF guild = "live" THEN count + 1 ELSE count
     \/ Faults /\ UNCHANGED count
  /\ Done(s)
  /\ UNCHANGED <<now, guild, level, sanction, invite, history>>

(***************************************************************************)
(* Invites.                                                                *)
(***************************************************************************)
CreateInvite(s, u, c, d) ==
  /\ "invite" \in Kinds[s]
  /\ IsMember(u) /\ level[u] >= Mod /\ invite[c] = None
  /\ Start(s, [Idle EXCEPT !.pc = "invite", !.actor = u, !.code = c, !.until = now + d])
  /\ UNCHANGED <<tables, history>>

CreateInviteInsert(s) ==
  /\ At(s, "invite")
  /\ invite' = IF guild = "live" /\ invite[job[s].code] = None
               THEN [invite EXCEPT ![job[s].code] =
                       [max |-> MaxUses, uses |-> 0, until |-> job[s].until]]
               ELSE invite
  /\ Done(s)
  /\ UNCHANGED <<now, guild, count, level, sanction, history>>

\* claimInvite: the invite, the ban, the cap, the use, then as joinServer.
ClaimInvite(s, u, c) ==
  /\ "claim" \in Kinds[s]
  /\ invite[c] # None /\ now <= invite[c].until
  /\ Start(s, [Idle EXCEPT !.pc = "claimBan", !.actor = u, !.code = c])
  /\ UNCHANGED <<tables, history>>

ClaimBan(s) ==
  /\ At(s, "claimBan")
  /\ CheckBan(s, "claimCap")
  /\ UNCHANGED <<tables, history>>

ClaimCap(s) ==
  /\ At(s, "claimCap")
  /\ IF guild = "live" /\ UnderCap THEN Goto(s, "claimUse") ELSE Done(s)
  /\ UNCHANGED <<tables, history>>

\* ClaimInviteUse: one UPDATE that checks uses and expiry.
Usable(c) == invite[c] # None /\ invite[c].uses < invite[c].max /\ invite[c].until > now

ClaimInviteUse(s) ==
  /\ At(s, "claimUse")
  /\ LET c == job[s].code IN
       IF Usable(c) THEN /\ invite' = [invite EXCEPT ![c].uses = @ + 1]
                         /\ Goto(s, "add")
       ELSE Done(s) /\ UNCHANGED invite
  /\ UNCHANGED <<now, guild, count, level, sanction, history>>

(***************************************************************************)
(* Leaving, and the handlers that act on another member: each starts with  *)
(* the actor's level and reads the target's level once.                    *)
(***************************************************************************)
LeaveServer(s, u) ==
  /\ "leave" \in Kinds[s]
  /\ IsMember(u) /\ level[u] # Owner
  /\ Start(s, [Idle EXCEPT !.pc = "remove", !.kind = "leave", !.actor = u, !.target = u])
  /\ UNCHANGED <<tables, history>>

Moderate(s, kind, u, t, least) ==
  /\ kind \in Kinds[s]
  /\ IsMember(u) /\ level[u] >= least /\ u # t
  /\ UNCHANGED <<tables, history>>

KickMember(s, u, t) ==
  /\ Moderate(s, "kick", u, t, Mod)
  /\ Start(s, [Idle EXCEPT !.pc = "target", !.kind = "kick", !.actor = u, !.target = t,
                 !.rank = level[u]])

BanMember(s, u, t, d) ==
  /\ Moderate(s, "ban", u, t, Admin)
  /\ Start(s, [Idle EXCEPT !.pc = "target", !.kind = "ban", !.actor = u, !.target = t,
                 !.rank = level[u], !.until = d])

MuteMember(s, u, t, d) ==
  /\ Moderate(s, "mute", u, t, Mod)
  /\ Start(s, [Idle EXCEPT !.pc = "target", !.kind = "mute", !.actor = u, !.target = t,
                 !.rank = level[u], !.until = d])

ChangeRole(s, u, t, n) ==
  /\ Moderate(s, "role", u, t, Admin)
  /\ Start(s, [Idle EXCEPT !.pc = "target", !.kind = "role", !.actor = u, !.target = t,
                 !.rank = level[u], !.new = n])

OutranksAnyone(j) == IsMember(j.target) /\ j.rank > j.new    \* mutant: target's level unread
OutranksOrAppoints(j) ==    \* mutant: < for <=, with the owner's level ruled out
  IsMember(j.target) /\ j.rank > level[j.target] /\ j.rank >= j.new /\ j.new # Owner
Outranks(j) == IsMember(j.target) /\ j.rank > level[j.target] /\ j.rank > j.new

\* The lifetime that a request asked for becomes an expiry only here.
AfterTarget(j) ==
  CASE j.kind = "kick" -> [j EXCEPT !.pc = "remove", !.rank = Member]
    [] j.kind = "role" -> [j EXCEPT !.pc = "write", !.rank = Member]
    [] OTHER -> [j EXCEPT !.pc = "insert", !.rank = Member, !.until = now + j.until]

CheckTarget(s) ==
  /\ At(s, "target")
  /\ IF Outranks(job[s]) THEN job' = [job EXCEPT ![s] = AfterTarget(job[s])] ELSE Done(s)
  /\ UNCHANGED <<tables, history>>

\* UpdateServerMemberLevel: no row, no change.
UpdateServerMemberLevel(s) ==
  /\ At(s, "write")
  /\ LET j == job[s] IN
       IF IsMember(j.target)
       THEN /\ level' = [level EXCEPT ![j.target] = j.new]
            /\ giver' = [giver EXCEPT ![j.target] = IF j.new = Admin THEN j.actor ELSE None]
       ELSE UNCHANGED <<level, giver>>
  /\ Done(s)
  /\ UNCHANGED <<now, guild, count, sanction, invite, creator, founded, ousted, joined, excused>>

\* InsertBan and InsertMute; a ban goes on to remove the member.
InsertSanction(s) ==
  /\ At(s, "insert")
  /\ Len(sanction) < MaxSanctions
  /\ LET j == job[s] IN
       IF guild = "live"
       THEN /\ sanction' = Append(sanction, [kind |-> j.kind, user |-> j.target,
                                             until |-> j.until, lifted |-> FALSE])
            /\ IF j.kind = "ban" THEN Goto(s, "remove") ELSE Done(s)
       ELSE Done(s) /\ UNCHANGED sanction
  /\ UNCHANGED <<now, guild, count, level, invite, history>>

\* RemoveServerMember of kick, ban and leave.  A failure ends kick and leave;
\* a ban only logs it.
Remove(s) ==
  /\ At(s, "remove")
  /\ \/ RemoveServerMember(job[s].target)
     \/ /\ Faults
        /\ excused' = IF job[s].kind = "ban" /\ IsMember(job[s].target)
                      THEN excused \cup {job[s].target} ELSE excused
        /\ UNCHANGED <<level, giver>>
  /\ Done(s)
  /\ UNCHANGED <<now, guild, count, sanction, invite, creator, founded, ousted, joined>>

(***************************************************************************)
(* unbanMember and unmuteMember: the newest active row, lifted by its id.  *)
(***************************************************************************)
Lift(s, kind, u, t, least) ==
  /\ IsMember(u) /\ level[u] >= least
  /\ Start(s, [Idle EXCEPT !.pc = "active", !.kind = kind, !.actor = u, !.target = t])
  /\ UNCHANGED <<tables, history>>

UnbanMember(s, u, t) == "unban" \in Kinds[s] /\ Lift(s, "ban", u, t, Admin)
UnmuteMember(s, u, t) == "unmute" \in Kinds[s] /\ Lift(s, "mute", u, t, Mod)

LiftActive(s) ==
  /\ At(s, "active")
  /\ LET ids == ActiveSanctions(job[s].kind, job[s].target) IN
       \/ ids = {} /\ Done(s)
       \/ \E i \in ids : /\ IsNewest(i, ids)
                         /\ job' = [job EXCEPT ![s].pc = "lift", ![s].seen = i]
  /\ UNCHANGED <<tables, history>>

\* The row is gone when the guild was deleted meanwhile.
LiftSanction(s) ==
  /\ At(s, "lift")
  /\ sanction' = IF job[s].seen \in DOMAIN sanction
                 THEN [sanction EXCEPT ![job[s].seen].lifted = TRUE] ELSE sanction
  /\ Done(s)
  /\ UNCHANGED <<now, guild, count, level, invite, history>>

(***************************************************************************)
(* message.send: isMuted, which lets the message pass when its lookups     *)
(* fail, then IsChannelMember, then the insert.                            *)
(***************************************************************************)
SendUnmuted(s, u) ==    \* mutant: the mute check is gone
  /\ "send" \in Kinds[s]
  /\ guild = "live"
  /\ Start(s, [Idle EXCEPT !.pc = "sendMember", !.actor = u, !.seen = Len(sanction)])
  /\ UNCHANGED <<tables, history>>

SendMessage(s, u) ==
  /\ "send" \in Kinds[s]
  /\ guild = "live"
  /\ \/ /\ ActiveSanctions("mute", u) = {}
        /\ Start(s, [Idle EXCEPT !.pc = "sendMember", !.actor = u, !.seen = Len(sanction)])
     \/ Faults /\ Start(s, [Idle EXCEPT !.pc = "sendMember", !.actor = u])
  /\ UNCHANGED <<tables, history>>

SendMember(s) ==
  /\ At(s, "sendMember")
  /\ IF IsMember(job[s].actor) THEN Goto(s, "sendInsert") ELSE Done(s)
  /\ UNCHANGED <<tables, history>>

InsertMessage(s) ==
  /\ At(s, "sendInsert")
  /\ Done(s)
  /\ UNCHANGED <<tables, history>>

(***************************************************************************)
(* deleteServer; the foreign keys cascade.                                 *)
(***************************************************************************)
DeleteServer(s, u) ==
  /\ "delete" \in Kinds[s]
  /\ level[u] = Owner
  /\ Start(s, [Idle EXCEPT !.pc = "delete", !.actor = u])
  /\ UNCHANGED <<tables, history>>

DeleteServerRow(s) ==
  /\ At(s, "delete")
  /\ guild' = "deleted"
  /\ level' = [u \in Users |-> None]
  /\ giver' = [u \in Users |-> None]
  /\ sanction' = <<>>
  /\ invite' = [c \in Codes |-> None]
  /\ excused' = {}
  /\ Done(s)
  /\ UNCHANGED <<now, count, creator, founded, ousted, joined>>

\* instanceBan takes its target, an owner too, out of every guild.
InstanceBan(u) ==
  /\ IsMember(u)
  /\ RemoveServerMember(u)
  /\ ousted' = (ousted \/ u = creator)
  /\ UNCHANGED <<now, guild, count, sanction, invite, job, creator, founded, joined>>

\* An error, a cancelled request or a crash ends the handler where it is.
Abandon(s) ==
  /\ Faults
  /\ job[s] # Idle
  /\ excused' = IF At(s, "remove") /\ job[s].kind = "ban" /\ IsMember(job[s].target)
                THEN excused \cup {job[s].target} ELSE excused
  /\ Done(s)
  /\ UNCHANGED <<tables, creator, founded, giver, ousted, joined>>

Tick ==
  /\ now < MaxNow
  /\ now' = now + 1
  /\ UNCHANGED <<guild, count, level, sanction, invite, job, history>>

Next ==
  \/ \E s \in Workers :
       \/ \E u \in Users :
            \/ CreateServer(s, u) \/ JoinServer(s, u) \/ LeaveServer(s, u)
            \/ SendMessage(s, u) \/ DeleteServer(s, u)
            \/ \E c \in Codes : ClaimInvite(s, u, c) \/ \E d \in Lifetimes : CreateInvite(s, u, c, d)
            \/ \E t \in Users :
                 \/ KickMember(s, u, t) \/ UnbanMember(s, u, t) \/ UnmuteMember(s, u, t)
                 \/ \E d \in Lifetimes : BanMember(s, u, t, d) \/ MuteMember(s, u, t, d)
                 \/ \E n \in Levels : ChangeRole(s, u, t, n)
       \/ CreateServerOwner(s) \/ JoinLevel(s) \/ JoinBan(s) \/ AddServerMember(s)
       \/ IncrementGuildMemberCount(s) \/ CreateInviteInsert(s) \/ ClaimBan(s)
       \/ ClaimCap(s) \/ ClaimInviteUse(s) \/ CheckTarget(s) \/ UpdateServerMemberLevel(s)
       \/ InsertSanction(s) \/ Remove(s) \/ LiftActive(s) \/ LiftSanction(s)
       \/ SendMember(s) \/ InsertMessage(s) \/ DeleteServerRow(s) \/ Abandon(s)
  \/ \E u \in Users : InstanceBan(u)
  \/ Tick

Spec == Init /\ [][Next]_vars

(***************************************************************************)
(* Properties.                                                             *)
(***************************************************************************)
Pcs == {"idle", "owner", "joinLevel", "joinBan", "add", "count", "invite", "claimBan",
        "claimCap", "claimUse", "target", "remove", "insert", "write", "active", "lift",
        "sendMember", "sendInsert", "delete"}

Job == [pc : Pcs, kind : AllKinds \cup {None}, actor : Users \cup {None},
        target : Users \cup {None}, rank : Levels, new : Levels, until : Nat, seen : Nat,
        code : Codes \cup {None}]
SanctionRow == [kind : {"ban", "mute"}, user : Users, until : Nat, lifted : BOOLEAN]
InviteRow == [max : Nat, uses : Nat, until : Nat]

TypeOK ==
  /\ now \in Nat /\ count \in Nat
  /\ guild \in {"none", "live", "deleted"}
  /\ level \in [Users -> Levels \cup {None}]
  /\ sanction \in Seq(SanctionRow)
  /\ invite \in [Codes -> InviteRow \cup {None}]
  /\ job \in [Workers -> Job]
  /\ creator \in Users \cup {None} /\ founded \in BOOLEAN
  /\ giver \in [Users -> Users \cup {None}]
  /\ ousted \in BOOLEAN /\ excused \subseteq Users
  /\ joined \in [Codes -> Nat]

\* A guild has one owner, its creator, from createServer to deleteServer: no
\* race of role changes, kicks, bans, leaves and joins makes another owner or
\* takes the owner out.  Only an instance ban does, and leaves none.
SoleOwner ==
  /\ \A u \in Users : level[u] = Owner => u = creator
  /\ guild = "live" /\ founded /\ ~ousted => level[creator] = Owner

\* Every admin has the level from the creator: changeRole's comparison with
\* levels read earlier never lets another admin hand it on.
AdminsByOwner == \A u \in Users : level[u] = Admin => giver[u] = creator

\* The members that an invite brought in, and the claims that are about to
\* insert one, have each used it up once, and never more than max_uses; and
\* requests in flight overrun the member cap by no more than their number,
\* since each compares the cached member_count before it increments it.
LimitsHeld ==
  /\ \A c \in Codes : invite[c] # None =>
       /\ joined[c] + Cardinality({s \in Workers : At(s, "add") /\ job[s].code = c})
            <= invite[c].uses
       /\ invite[c].uses <= invite[c].max
  /\ count <= Cap + Cardinality(Workers) - 1

\* A member with an active ban joined on a ban check older than the ban, or
\* its removal failed, or the handler is about to remove it.
BannedIsOut ==
  \A u \in Users :
    IsMember(u) /\ ActiveSanctions("ban", u) # {}
      => \/ u \in excused
         \/ \E s \in Workers : At(s, "remove") /\ job[s].kind = "ban" /\ job[s].target = u

\* No message is stored for a user under a mute that was there when isMuted
\* looked: a mute holds for every message whose check comes after it.
MuteHolds ==
  [][\A s \in Workers :
       At(s, "sendInsert") /\ job'[s].pc = "idle"
         => \A i \in ActiveSanctions("mute", job[s].actor) : i > job[s].seen]_vars
=============================================================================
