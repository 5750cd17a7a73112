------------------------------- MODULE Session -------------------------------
(***************************************************************************)
(* Accounts, sign-in and sessions (internal/api/auth.go, middleware.go,    *)
(* internal/auth/*.go on the tables of internal/db/users.go, sessions.go,  *)
(* auth_nonces.go and device_keys.go), the two ways to cut a client off:   *)
(* revoking its device (devices.go) and banning the account from the       *)
(* instance (instance.go, admin.go), and the WebSocket connections that    *)
(* were opened with a session (internal/ws/handler.go).                    *)
(*                                                                         *)
(* A handler is a job of several SQL statements, jobs interleave between   *)
(* statements.  A request its first statement refuses changes nothing and  *)
(* is not a step.  An account is named by its root key, which never        *)
(* changes; bearer tokens bind user, session and device and are left out,  *)
(* as are guest tokens, which no table records.  Guild removal and voice   *)
(* eviction of a ban are in Guild.tla and VoiceRoom.tla, the transparency  *)
(* entries in TransparencyLog.tla.                                         *)
(***************************************************************************)
EXTENDS Integers, Sequences, FiniteSets

CONSTANTS
  Users,        \* root public keys, each of which may register an account
  Names,        \* usernames
  Devices,
  Nonces,
  Workers,      \* requests that can be in flight at once
  Kinds,        \* the requests that each of them may be
  Modes,        \* registration modes an operator may set
  UserLimit,    \* max_registered_users
  InviteUses,   \* max_uses of the invite that registration asks for
  NonceTtl, SessionTtl, BanTtl,
  Faults,       \* whether statements may fail and the process may restart
  MaxSessions,  \* bound of the sessions that are ever made
  MaxBans,      \* bound of the bans that are ever made, and of pending timers
  MaxNow,       \* bound of the clock
  None

VARIABLES
  now,
  name,      \* users: the username of a root key, or None
  uses,      \* invite_codes.uses
  nonce,     \* auth_nonces: [key, expires] or None
  device,    \* device_keys: the devices of every user
  session,   \* sessions in the order they were made; live until deleted
  ban,       \* instance_bans in the order of created_at
  conn,      \* the hub's clients; closers are the requests that are closing one
  timer,     \* pending DisconnectUser calls of every user
  job,
  asked,     \* history: the key a nonce was issued for
  admitted   \* history: accounts that were made on an invite

vars == <<now, name, uses, nonce, device, session, ban, conn, timer, job, asked, admitted>>
accounts == <<name, uses, asked, admitted>>

AuthedKinds == {"logout", "revoke", "revokeAll", "connect"}
AllKinds == AuthedKinds \cup {"register", "verify", "ban", "unban"}

ASSUME SessionAssumption ==
  /\ Kinds \in [Workers -> SUBSET AllKinds]
  /\ Modes \subseteq {"open", "invite_only", "closed"}
  /\ UserLimit \in Nat /\ InviteUses \in Nat
  /\ NonceTtl \in Nat /\ SessionTtl \in Nat /\ BanTtl \in Nat
  /\ MaxSessions \in Nat /\ MaxBans \in Nat /\ MaxNow \in Nat /\ Faults \in BOOLEAN
  /\ None \notin Users \cup Names \cup Devices \cup Nonces
  /\ None \notin [key : Users, expires : Nat]

Idle == [pc |-> "idle", user |-> None, name |-> None, dev |-> None, nonce |-> None,
         foreign |-> FALSE, kind |-> None, invited |-> FALSE, seen |-> 0, sess |-> 0,
         unswept |-> FALSE]

Init ==
  /\ now = 0
  /\ name = [u \in Users |-> None]
  /\ uses = 0
  /\ nonce = [n \in Nonces |-> None]
  /\ device = [u \in Users |-> {}]
  /\ session = <<>>
  /\ ban = <<>>
  /\ conn = {}
  /\ timer = [u \in Users |-> 0]
  /\ job = [s \in Workers |-> Idle]
  /\ asked = [n \in Nonces |-> None]
  /\ admitted = 0

At(s, pc) == job[s].pc = pc
Goto(s, pc) == job' = [job EXCEPT ![s].pc = pc]
Done(s) == job' = [job EXCEPT ![s] = Idle]
Start(s, j) == job[s] = Idle /\ job' = [job EXCEPT ![s] = j]

(***************************************************************************)
(* The tables.                                                             *)
(***************************************************************************)
\* GetActiveInstanceBan: neither lifted nor expired; the newest is returned.
ActiveBans(u) == {i \in DOMAIN ban : ban[i].user = u /\ ~ban[i].lifted /\ ban[i].until > now}
IsNewest(i, ids) == i \in ids /\ \A k \in ids : k <= i

\* GetSessionByTokenHash.
ValidSession(i) == session[i].live /\ session[i].expires > now

\* DeleteSessionsByUserID, DeleteSessionByID, PurgeExpiredSessions.
DeleteSessions(S) ==
  session' = [i \in DOMAIN session |->
                IF i \in S THEN [session[i] EXCEPT !.live = FALSE] ELSE session[i]]

IsDeviceActive(u, d) == d \in device[u]

(***************************************************************************)
(* POST /register.  The mode is whatever the operator has set when it is   *)
(* read.  The use of an invite is claimed before anything else and never   *)
(* given back.                                                             *)
(***************************************************************************)
Register(s, u, n, d, mode) ==
  /\ "register" \in Kinds[s] /\ mode \in Modes \ {"closed"}
  /\ Start(s, [Idle EXCEPT !.pc = IF mode = "open" THEN "lookup" ELSE "invite",
                 !.user = u, !.name = n, !.dev = d, !.invited = mode = "invite_only"])
  /\ UNCHANGED <<now, accounts, nonce, device, session, ban, conn, timer>>

ClaimUnbounded(s) ==    \* mutant: the limit of the uses is not looked at
  /\ At(s, "invite")
  /\ uses' = uses + 1 /\ Goto(s, "lookup")
  /\ UNCHANGED <<now, name, asked, admitted, nonce, device, session, ban, conn, timer>>

ClaimInviteUse(s) ==
  /\ At(s, "invite")
  /\ IF uses < InviteUses THEN uses' = uses + 1 /\ Goto(s, "lookup")
     ELSE Done(s) /\ UNCHANGED uses
  /\ UNCHANGED <<now, name, asked, admitted, nonce, device, session, ban, conn, timer>>

\* The account is settled.
GotoDevice(s) == job' = [job EXCEPT ![s].pc = "device", ![s].name = None, ![s].invited = FALSE]

\* A known root key is an account recovery.  A failed lookup counts as none.
LookupRootKey(s) ==
  /\ At(s, "lookup")
  /\ \/ name[job[s].user] # None /\ GotoDevice(s)
     \/ (name[job[s].user] = None \/ Faults) /\ Goto(s, "create")
  /\ UNCHANGED <<now, accounts, nonce, device, session, ban, conn, timer>>

\* CreateUserWithPublicKey: one transaction, with the row of instance_config
\* locked while the users are counted; username and root key are unique.  A
\* taken name is refused here, after its owner's ban was looked up in vain.
Registered == {u \in Users : name[u] # None}
Admissible(j) ==
  /\ Cardinality(Registered) < UserLimit
  /\ name[j.user] = None /\ \A u \in Users : name[u] # j.name

CreateUserWithPublicKey(s) ==
  /\ At(s, "create")
  /\ LET j == job[s] IN
       IF Admissible(j)
       THEN /\ name' = [name EXCEPT ![j.user] = j.name]
            /\ admitted' = IF j.invited THEN admitted + 1 ELSE admitted
            /\ GotoDevice(s)
       ELSE Done(s) /\ UNCHANGED <<name, admitted>>
  /\ UNCHANGED <<now, uses, asked, nonce, device, session, ban, conn, timer>>

(***************************************************************************)
(* POST /challenge and POST /verify.                                       *)
(***************************************************************************)
Challenge(n, u) ==
  /\ asked[n] = None                                      \* fresh random bytes
  /\ nonce' = [nonce EXCEPT ![n] = [key |-> u, expires |-> now + NonceTtl]]
  /\ asked' = [asked EXCEPT ![n] = u]
  /\ UNCHANGED <<now, name, uses, admitted, device, session, ban, conn, timer, job>>

\* A request names a version and an audience; its signature covers the nonce
\* alone ("raw") or the nonce and an audience.
Audiences == {"here", "elsewhere"}
Versions == {0, 1, 2}

SignatureHolds(version, audience, sig) ==
  IF version = 2 \/ audience # None THEN audience = "here" /\ sig = "here"
  ELSE version = 0 /\ sig = "raw"

ConsumeWithoutDelete(n) ==    \* mutant: a SELECT
  nonce[n] # None /\ nonce[n].expires > now /\ UNCHANGED nonce
ConsumeAuthNonce(n) ==
  /\ nonce[n] # None /\ nonce[n].expires > now
  /\ nonce' = [nonce EXCEPT ![n] = None]

Signatures == {v \in [version : Versions, audience : Audiences \cup {None},
                       sig : Audiences \cup {"raw"}] :
                 SignatureHolds(v.version, v.audience, v.sig)}

\* The nonce is gone before key, audience and signature are compared.
Verify(s, n, d, v) ==
  /\ "verify" \in Kinds[s]
  /\ ConsumeAuthNonce(n)
  /\ Start(s, [Idle EXCEPT !.pc = "account", !.user = nonce[n].key, !.dev = d, !.nonce = n,
                 !.foreign = v.sig = "elsewhere"])
  /\ UNCHANGED <<now, accounts, device, session, ban, conn, timer>>

\* Another key than the one asked for, another signer or a signature that
\* does not hold.
VerifyRefused(n) ==
  /\ ConsumeAuthNonce(n)
  /\ UNCHANGED <<now, accounts, device, session, ban, conn, timer, job>>

VerifyAccount(s) ==
  /\ At(s, "account")
  /\ IF name[job[s].user] # None THEN Goto(s, "ban") ELSE Done(s)
  /\ UNCHANGED <<now, accounts, nonce, device, session, ban, conn, timer>>

VerifyBan(s) ==
  /\ At(s, "ban")
  /\ \/ /\ ActiveBans(job[s].user) = {}
        /\ job' = [job EXCEPT ![s].pc = "backfill", ![s].seen = Len(ban)]
     \/ ActiveBans(job[s].user) # {} /\ Done(s)
     \/ Faults /\ Goto(s, "backfill")
  /\ UNCHANGED <<now, accounts, nonce, device, session, ban, conn, timer>>

\* BackfillRootDeviceKey inserts a missing row only; InsertDeviceKey of a
\* registration or a recovery replaces it.  Neither failure is fatal.
AddDevice(s) ==
  /\ At(s, "backfill") \/ At(s, "device")
  /\ LET j == job[s] IN
       \/ device' = [device EXCEPT ![j.user] = @ \cup ({j.dev} \ {None})]
       \/ Faults /\ UNCHANGED device
  /\ Goto(s, "session")
  /\ UNCHANGED <<now, accounts, nonce, session, ban, conn, timer>>

\* sendAuthResponse.
CreateSession(s) ==
  /\ At(s, "session")
  /\ Len(session) < MaxSessions
  /\ LET j == job[s] IN
       session' = Append(session, [user |-> j.user, dev |-> j.dev, live |-> TRUE,
                                   expires |-> now + SessionTtl, nonce |-> j.nonce,
                                   foreign |-> j.foreign, seen |-> j.seen])
  /\ Done(s)
  /\ UNCHANGED <<now, accounts, nonce, device, ban, conn, timer>>

(***************************************************************************)
(* RequireAuth and the handshake of /ws: the session, then the device.     *)
(***************************************************************************)
RequireSession(s, i, kind, d) ==
  /\ kind \in AuthedKinds \cap Kinds[s]
  /\ ValidSession(i)
  /\ Start(s, [Idle EXCEPT !.pc = "authDevice", !.sess = i, !.user = session[i].user,
                 !.kind = kind, !.dev = IF kind = "revoke" THEN d ELSE None])
  /\ UNCHANGED <<now, accounts, nonce, device, session, ban, conn, timer>>

\* A token without a device is not checked.
RequireDevice(s) ==
  /\ At(s, "authDevice")
  /\ LET d == session[job[s].sess].dev IN
       IF d = None \/ IsDeviceActive(job[s].user, d) THEN Goto(s, job[s].kind)
       ELSE Done(s)
  /\ UNCHANGED <<now, accounts, nonce, device, session, ban, conn, timer>>

Logout(s) ==
  /\ At(s, "logout")
  /\ DeleteSessions({job[s].sess})
  /\ Done(s)
  /\ UNCHANGED <<now, accounts, nonce, device, ban, conn, timer>>

\* hub.Register.  Connections with the same history are one record.  late: the
\* session was deleted, spared: the device was revoked, while the handshake was
\* under way; stranded: a disconnect that was to close it panicked.
RegisterClient(s) ==
  /\ At(s, "connect")
  /\ LET i == job[s].sess
         d == session[i].dev IN
       conn' = conn \cup {[user |-> job[s].user, dev |-> d, sess |-> i,
                           late |-> ~session[i].live,
                           spared |-> d # None /\ ~IsDeviceActive(job[s].user, d),
                           stranded |-> FALSE, closers |-> {}]}
  /\ Done(s)
  /\ UNCHANGED <<now, accounts, nonce, device, session, ban, timer>>

\* revokeDevice: the row, then the connections of the device.
RevokeAndForget(s) ==    \* mutant: the hub is not told
  /\ At(s, "revoke")
  /\ device' = [device EXCEPT ![job[s].user] = @ \ {job[s].dev}]
  /\ Done(s)
  /\ UNCHANGED <<now, accounts, nonce, session, ban, conn, timer>>

RevokeDeviceKey(s) ==
  /\ At(s, "revoke")
  /\ device' = [device EXCEPT ![job[s].user] = @ \ {job[s].dev}]
  /\ Goto(s, "cut")
  /\ UNCHANGED <<now, accounts, nonce, session, ban, conn, timer>>

\* DisconnectDevice collects the clients of the device, then writes a close
\* frame to each and closes it.
DisconnectDevice(s) ==
  /\ At(s, "cut")
  /\ conn' = {IF c.user = job[s].user /\ c.dev = job[s].dev
              THEN [c EXCEPT !.closers = @ \cup {s}] ELSE c : c \in conn}
  /\ Goto(s, "closing")
  /\ UNCHANGED <<now, accounts, nonce, device, session, ban, timer>>

Targets(s) == {c \in conn : s \in c.closers}

CloseTarget(s, c) ==
  /\ At(s, "closing") /\ c \in Targets(s)
  /\ conn' = conn \ {c}
  /\ UNCHANGED <<now, accounts, nonce, device, session, ban, timer, job>>

Disconnected(s) ==
  /\ At(s, "closing") /\ Targets(s) = {}
  /\ Done(s)
  /\ UNCHANGED <<now, accounts, nonce, device, session, ban, conn, timer>>

\* Another goroutine is writing to the client: the frame panics, chi's recoverer
\* ends the request, and this client and those not reached stay open.  (Or the
\* other goroutine panics, see Restart.)
ClosePanics(s) ==
  /\ At(s, "closing") /\ Targets(s) # {}
  /\ conn' = {[c EXCEPT !.stranded = @ \/ s \in c.closers, !.closers = @ \ {s}] : c \in conn}
  /\ Done(s)
  /\ UNCHANGED <<now, accounts, nonce, device, session, ban, timer>>

\* revokeAllDevices deletes the rows and leaves the connections to run on.
RevokeAllDeviceKeys(s) ==
  /\ At(s, "revokeAll")
  /\ device' = [device EXCEPT ![job[s].user] = {}]
  /\ conn' = {[c EXCEPT !.spared = @ \/ c.user = job[s].user] : c \in conn}
  /\ Done(s)
  /\ UNCHANGED <<now, accounts, nonce, session, ban, timer>>

(***************************************************************************)
(* instanceBan and instanceUnban of both routes.  The sessions go first,   *)
(* their deletion's failure is ignored; the connections go when the timer  *)
(* fires; the ban is stored in between.                                    *)
(***************************************************************************)
BanWithoutTimer(s, u) ==    \* mutant: nobody is disconnected
  /\ "ban" \in Kinds[s] /\ name[u] # None /\ timer[u] < MaxBans
  /\ DeleteSessions({i \in DOMAIN session : session[i].user = u})
  /\ Start(s, [Idle EXCEPT !.pc = "banInsert", !.user = u, !.seen = Len(session)])
  /\ UNCHANGED <<now, accounts, nonce, device, ban, conn, timer>>

InstanceBan(s, u) ==
  /\ "ban" \in Kinds[s] /\ name[u] # None /\ timer[u] < MaxBans
  /\ \/ /\ DeleteSessions({i \in DOMAIN session : session[i].user = u})
        /\ Start(s, [Idle EXCEPT !.pc = "banInsert", !.user = u, !.seen = Len(session)])
     \/ /\ Faults /\ UNCHANGED session
        /\ Start(s, [Idle EXCEPT !.pc = "banInsert", !.user = u, !.seen = Len(session),
                       !.unswept = TRUE])
  /\ timer' = [timer EXCEPT ![u] = @ + 1]
  /\ UNCHANGED <<now, accounts, nonce, device, ban, conn>>

InsertInstanceBan(s) ==
  /\ At(s, "banInsert")
  /\ Len(ban) < MaxBans
  /\ ban' = Append(ban, [user |-> job[s].user, until |-> now + BanTtl, lifted |-> FALSE,
                         swept |-> job[s].seen, unswept |-> job[s].unswept])
  /\ Done(s)
  /\ UNCHANGED <<now, accounts, nonce, device, session, conn, timer>>

\* It closes one client after the other as DisconnectDevice does, but on the
\* timer's goroutine, whose panic ends the process (Restart); a client that
\* registers meanwhile is as one that registers before it or after it.
DisconnectUser(u) ==
  /\ timer[u] > 0
  /\ timer' = [timer EXCEPT ![u] = @ - 1]
  /\ conn' = {c \in conn : c.user # u}
  /\ UNCHANGED <<now, accounts, nonce, device, session, ban, job>>

InstanceUnban(s, u) ==
  /\ "unban" \in Kinds[s]
  /\ \E i \in ActiveBans(u) :
       /\ IsNewest(i, ActiveBans(u))
       /\ Start(s, [Idle EXCEPT !.pc = "lift", !.user = u, !.seen = i])
  /\ UNCHANGED <<now, accounts, nonce, device, session, ban, conn, timer>>

LiftInstanceBan(s) ==
  /\ At(s, "lift")
  /\ ban' = [ban EXCEPT ![job[s].seen].lifted = TRUE]
  /\ Done(s)
  /\ UNCHANGED <<now, accounts, nonce, device, session, conn, timer>>

(***************************************************************************)
(* Purges, failures, time.                                                 *)
(***************************************************************************)
PurgeExpiredNonces ==
  /\ \E n \in Nonces : nonce[n] # None /\ nonce[n].expires < now
  /\ nonce' = [n \in Nonces |-> IF nonce[n] # None /\ nonce[n].expires < now
                                THEN None ELSE nonce[n]]
  /\ UNCHANGED <<now, accounts, device, session, ban, conn, timer, job>>

PurgeExpiredSessions ==
  /\ \E i \in DOMAIN session : session[i].live /\ session[i].expires < now
  /\ DeleteSessions({i \in DOMAIN session : session[i].expires < now})
  /\ UNCHANGED <<now, accounts, nonce, device, ban, conn, timer, job>>

\* A client hangs up.
Close(c) ==
  /\ conn' = conn \ {c}
  /\ UNCHANGED <<now, accounts, nonce, device, session, ban, timer, job>>

\* A statement fails, or the request is cancelled: the handler ends.  Only the
\* disconnection of a device takes no statement and no context.
Disconnecting(s) == At(s, "cut") \/ At(s, "closing")
Abandon(s) ==
  /\ Faults
  /\ job[s] # Idle /\ ~Disconnecting(s)
  /\ Done(s)
  /\ UNCHANGED <<now, accounts, nonce, device, session, ban, conn, timer>>

\* The process restarts, or a goroutine of its own (a write pump, the timer of a
\* ban) panics: handlers, connections and timers are gone.
Restart ==
  /\ Faults \/ (\E s \in Workers : Targets(s) # {}) \/ \E u \in Users : timer[u] > 0
  /\ conn # {} \/ \E s \in Workers : Disconnecting(s)
  /\ job' = [s \in Workers |-> Idle]
  /\ conn' = {}
  /\ timer' = [u \in Users |-> 0]
  /\ UNCHANGED <<now, accounts, nonce, device, session, ban>>

Tick ==
  /\ now < MaxNow
  /\ now' = now + 1
  /\ UNCHANGED <<accounts, nonce, device, session, ban, conn, timer, job>>

Next ==
  \/ \E s \in Workers :
       \/ \E u \in Users, n \in Names, d \in Devices, m \in Modes : Register(s, u, n, d, m)
       \/ ClaimInviteUse(s) \/ LookupRootKey(s) \/ CreateUserWithPublicKey(s)
       \/ \E n \in Nonces, d \in Devices \cup {None}, v \in Signatures : Verify(s, n, d, v)
       \/ VerifyAccount(s) \/ VerifyBan(s) \/ AddDevice(s) \/ CreateSession(s)
       \/ \E i \in DOMAIN session, k \in AuthedKinds, d \in Devices : RequireSession(s, i, k, d)
       \/ RequireDevice(s) \/ Logout(s) \/ RegisterClient(s)
       \/ RevokeDeviceKey(s) \/ DisconnectDevice(s) \/ Disconnected(s) \/ ClosePanics(s)
       \/ (\E c \in conn : CloseTarget(s, c)) \/ RevokeAllDeviceKeys(s)
       \/ \E u \in Users : InstanceBan(s, u) \/ InstanceUnban(s, u)
       \/ InsertInstanceBan(s) \/ LiftInstanceBan(s) \/ Abandon(s)
  \/ \E n \in Nonces : VerifyRefused(n) \/ \E u \in Users : Challenge(n, u)
  \/ \E u \in Users : DisconnectUser(u)
  \/ \E c \in conn : Close(c)
  \/ PurgeExpiredNonces \/ PurgeExpiredSessions \/ Restart \/ Tick

Spec == Init /\ [][Next]_vars

(***************************************************************************)
(* Properties.                                                             *)
(***************************************************************************)
\* A session that verify issued belongs to the account whose key was asked
\* for in the challenge it answered; the signature was made for the challenge
\* alone or for this instance, never for another one; and no challenge, retried
\* or raced, is answered twice.
ChallengeOnce ==
  \A i \in DOMAIN session : session[i].nonce # None =>
    /\ asked[session[i].nonce] = session[i].user
    /\ ~session[i].foreign
    /\ \A k \in DOMAIN session : session[k].nonce = session[i].nonce => k = i
    /\ \A s \in Workers : job[s].nonce # session[i].nonce

\* Session i was made after the handler of ban b deleted the sessions, by a
\* request that did not see b.
Slipped(i, b) == i > ban[b].swept /\ session[i].seen < b

\* Session i is one that the handler of ban b was to delete, and failed to.
Unswept(i, b) == ban[b].unswept /\ i <= ban[b].swept

\* A banned account has no session but those that slipped through between the
\* two statements of instanceBan (or through an account recovery or a failed
\* lookup, which see no ban), and, when the statement that deletes the sessions
\* fails, which instanceBan ignores, those that are older than the ban: once the
\* deletion succeeded none of these survives, and no verify that finds the ban
\* makes a new one.  A connection of the account is about to be closed, or was
\* opened with one of those sessions, or its handshake read the session before
\* instanceBan deleted it and registered with the hub after the timer fired.
BannedIsCut ==
  /\ \A i \in DOMAIN session : \A b \in ActiveBans(session[i].user) :
       session[i].live => Slipped(i, b) \/ Unswept(i, b)
  /\ \A c \in conn : \A b \in ActiveBans(c.user) :
       timer[c.user] > 0 \/ c.late \/ Slipped(c.sess, b) \/ Unswept(c.sess, b)

\* Request s is about to collect connection c, or to close it.
Cutting(s, c) ==
  \/ At(s, "cut") /\ job[s].user = c.user /\ job[s].dev = c.dev
  \/ At(s, "closing") /\ s \in c.closers

\* A connection of a device that revokeDevice removed is among those that the
\* request is about to collect or is closing, one after the other.  Three kinds
\* stay open: those whose handshake checked the device before the row was
\* deleted and registered with the hub afterwards, those of a device that
\* revokeAllDevices removed, which closes nothing (both spared), and those the
\* request had not closed when a write to one of them panicked (stranded).
RevokedIsCut ==
  \A c \in conn : c.dev # None /\ ~IsDeviceActive(c.user, c.dev) =>
    c.spared \/ c.stranded \/ \E s \in Workers : Cutting(s, c)

\* The accounts made on an invite, and the registrations under way that may
\* still make one, have each claimed a use of their own and never more than
\* the invite has; the accounts never exceed the instance's limit.
AdmissionsBounded ==
  /\ admitted + Cardinality({s \in Workers : job[s].invited /\ ~At(s, "invite")})
       <= uses
  /\ uses <= InviteUses
  /\ Cardinality(Registered) <= UserLimit
=============================================================================
