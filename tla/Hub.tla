--------------------------------- MODULE Hub ---------------------------------
(***************************************************************************)
(* The WebSocket hub and its connections (internal/ws/hub.go, client.go,   *)
(* handler.go), with the handlers that broadcast through it and close      *)
(* connections (kick and leave of internal/api, revokeDevice).             *)
(*                                                                         *)
(* Every connection has a read pump and a write pump that share a buffered *)
(* channel, send; every operation of the hub is one critical section of    *)
(* its mutex; a broadcast takes a snapshot under the mutex and sends to    *)
(* one client after the other outside it.  A send on a channel that the    *)
(* read pump has closed panics, and so does a second writer of a           *)
(* connection: in a handler or a read pump the panic ends the request, in  *)
(* a write pump and the goroutine of a kick it ends the process.           *)
(*                                                                         *)
(* Messages are counted, not told apart.  One guild is modelled: guilds    *)
(* and channels are independent rooms of the same kind.  Left out: guests  *)
(* and federated users, origin checks, history and typing.                 *)
(***************************************************************************)
EXTENDS Integers, FiniteSets

CONSTANTS
  Conns,      \* WebSocket connections
  Users,
  Devices,
  UserOf,     \* the user and the device in the token of a connection
  DeviceOf,
  Workers,    \* HTTP requests that can be in flight at once
  Kinds,      \* what they may be
  Buf,        \* capacity of the channel send
  None

VARIABLES
  clients,     \* h.clients
  subs,        \* h.servers of the guild
  presence,    \* h.presence
  conn,        \* the connections, see Connection
  todo,        \* clients a broadcast or a disconnect still has to reach
  job,         \* HTTP requests
  member,      \* server_members of the guild
  device,      \* device_keys
  excused      \* history: users who left by themselves, or whose kick was cut
               \* short by a panic

vars == <<clients, subs, presence, conn, todo, job, member, device, excused>>

AllKinds == {"kick", "leave", "revoke", "revokeAll"}

ASSUME HubAssumption ==
  /\ UserOf \in [Conns -> Users] /\ DeviceOf \in [Conns -> Devices]
  /\ Kinds \subseteq AllKinds /\ Buf \in Nat \ {0}
  /\ None \notin Users /\ None \notin Devices /\ None \notin AllKinds
  /\ Conns \cap Workers = {}

Actors == Conns \cup Workers

\* up: the TCP connection; open: the channel send; queued: its length.
Closed == [up |-> FALSE, open |-> FALSE, queued |-> 0, read |-> "off", write |-> "off"]
Free == [pc |-> "idle", kind |-> None, user |-> None, device |-> None, left |-> 0]

Init ==
  /\ clients = {} /\ subs = {} /\ presence = {}
  /\ conn = [c \in Conns |-> Closed]
  /\ todo = [a \in Actors |-> {}]
  /\ job = [w \in Workers |-> Free]
  /\ member = Users /\ device = Devices
  /\ excused = {}

Reading(c) == conn[c].read = "reading" /\ conn[c].up
Min2(a, b) == IF a <= b THEN a ELSE b

\* The non-blocking send: a message is dropped when the buffer is full.
Send(k, S) == [c \in Conns |-> IF c \in S THEN [k[c] EXCEPT !.queued = Min2(Buf, k[c].queued + 1)]
                                         ELSE k[c]]

(***************************************************************************)
(* Register and Unregister.  broadcastPresenceLocked goes through the      *)
(* clients in any order and stops with a panic at one that is closing.     *)
(***************************************************************************)
Open(c) ==    \* the session and IsDeviceActive are checked before Register
  /\ conn[c].read = "off"
  /\ DeviceOf[c] \in device
  /\ conn' = [conn EXCEPT ![c] = [conn[c] EXCEPT !.up = TRUE, !.open = TRUE, !.read = "auth"]]
  /\ UNCHANGED <<clients, subs, presence, todo, job, member, device, excused>>

\* k with the presence update sent to S: Ok when all of S is open, or a panic
\* after some of them.
PresenceSent(k, S) == (\A d \in S : k[d].open) /\ conn' = Send(k, S)
PresencePanics(k, S) ==
  /\ \E d \in S : ~k[d].open
  /\ \E R \in SUBSET {d \in S : k[d].open} : conn' = Send(k, R)

Register(c) ==
  /\ conn[c].read = "auth"
  /\ clients' = clients \cup {c}
  /\ presence' = presence \cup {UserOf[c]}
  /\ \/ PresenceSent([conn EXCEPT ![c] = [conn[c] EXCEPT !.read = "reading", !.write = "running"]],
                     clients')
     \/ PresencePanics([conn EXCEPT ![c] = [conn[c] EXCEPT !.read = "ghost"]], clients')
  /\ UNCHANGED <<subs, todo, job, member, device, excused>>

UnregisterAlways(c) ==    \* mutant: the user's other connections are not looked at
  presence' = presence \ {UserOf[c]}
HasOtherClientForUser(c) ==
  presence' = IF \E d \in clients \ {c} : UserOf[d] = UserOf[c] THEN presence
              ELSE presence \ {UserOf[c]}

\* Nothing sees the write pump any more once the client is out of the hub.
Ended(up) == [up |-> up, open |-> FALSE, queued |-> 0, read |-> "ended", write |-> "ended"]

Unregister(c) ==
  /\ conn[c].read = "closing"
  /\ clients' = clients \ {c} /\ subs' = subs \ {c}
  /\ HasOtherClientForUser(c)
  /\ \/ PresenceSent([conn EXCEPT ![c] = Ended(FALSE)], clients')
     \/ PresencePanics([conn EXCEPT ![c] = Ended(conn[c].up)], clients')
  /\ UNCHANGED <<todo, job, member, device, excused>>

(***************************************************************************)
(* The read pump.                                                          *)
(***************************************************************************)
hub == <<clients, subs, presence, todo, job, member, device, excused>>

\* readPump's deferred close(c.send).
FinishLeaking(k, c) ==    \* mutant: Unregister is not deferred
  [k EXCEPT ![c] = [k[c] EXCEPT !.read = "ended", !.open = FALSE]]
Finish(k, c) == [k EXCEPT ![c] = [k[c] EXCEPT !.read = "closing", !.open = FALSE]]

\* The peer or the network closes the connection.
HangUp(c) ==
  /\ conn[c].up
  /\ conn' = [conn EXCEPT ![c].up = FALSE]
  /\ UNCHANGED hub

\* ReadMessage fails on a closed connection, and at the read deadline once the
\* write pump sends no more pings.
ReadError(c) ==
  /\ conn[c].read = "reading"
  /\ ~conn[c].up \/ conn[c].write = "ended"
  /\ conn' = Finish(conn, c)
  /\ UNCHANGED hub

\* subscribe.server: canAccessServer, then SubscribeToServer.
CanAccessServer(c) ==
  /\ Reading(c)
  /\ conn' = IF UserOf[c] \in member THEN [conn EXCEPT ![c].read = "subscribe"]
             ELSE Send(conn, {c})
  /\ UNCHANGED hub

SubscribeToServer(c) ==
  /\ conn[c].read = "subscribe"
  /\ subs' = subs \cup {c}
  /\ conn' = [conn EXCEPT ![c].read = "reading"]
  /\ UNCHANGED <<clients, presence, todo, job, member, device, excused>>

UnsubscribeFromServer(c) ==
  /\ Reading(c)
  /\ subs' = subs \ {c}
  /\ UNCHANGED <<clients, presence, conn, todo, job, member, device, excused>>

\* message.send over the limit: a blocking send, and after too many the end.
RateLimited(c) ==
  /\ Reading(c)
  /\ conn' = [conn EXCEPT ![c].read = "limited"]
  /\ UNCHANGED hub

RateLimitedSend(c) ==
  /\ conn[c].read = "limited" /\ conn[c].queued < Buf
  /\ \E k \in {[Send(conn, {c}) EXCEPT ![c].read = "reading"]} : conn' = k \/ conn' = Finish(k, c)
  /\ UNCHANGED hub

\* message.send and voice.mute_state: the membership, then the ack of a message
\* with a local id and the snapshot of the subscribers.
MessageCheck(c) ==
  /\ Reading(c)
  /\ conn' = IF UserOf[c] \in member THEN [conn EXCEPT ![c].read = "message"] ELSE Send(conn, {c})
  /\ UNCHANGED hub

MessageSend(c) ==
  /\ conn[c].read = "message"
  /\ todo' = [todo EXCEPT ![c] = subs]
  /\ \E acked \in {{}, {c}} : conn' = [Send(conn, acked) EXCEPT ![c].read = "sending"]
  /\ UNCHANGED <<clients, subs, presence, job, member, device, excused>>

\* One send of a read pump's broadcast; a panic ends the read pump.
MessageSendTo(c, d) ==
  /\ conn[c].read = "sending" /\ d \in todo[c]
  /\ IF conn[d].open
     THEN todo' = [todo EXCEPT ![c] = @ \ {d}] /\ conn' = Send(conn, {d})
     ELSE todo' = [todo EXCEPT ![c] = {}] /\ conn' = Finish(conn, c)
  /\ UNCHANGED <<clients, subs, presence, job, member, device, excused>>

MessageSent(c) ==
  /\ conn[c].read = "sending" /\ todo[c] = {}
  /\ conn' = [conn EXCEPT ![c].read = "reading"]
  /\ UNCHANGED hub

(***************************************************************************)
(* The write pump.                                                         *)
(***************************************************************************)
\* WriteMessage fails on a closed connection and at the write deadline.
WritePump(c) ==
  /\ conn[c].write = "running" /\ conn[c].queued > 0
  /\ \E next \in IF conn[c].up THEN {"running", "ended"} ELSE {"ended"} :
       conn' = [conn EXCEPT ![c] = [conn[c] EXCEPT !.queued = conn[c].queued - 1, !.write = next]]
  /\ UNCHANGED hub

\* The ping fails, or the channel is closed and drained.
WritePumpEnd(c) ==
  /\ conn[c].write = "running"
  /\ ~conn[c].up \/ (~conn[c].open /\ conn[c].queued = 0)
  /\ conn' = [conn EXCEPT ![c].write = "ended"]
  /\ UNCHANGED hub

(***************************************************************************)
(* HTTP handlers.  A kick and a leave change the membership and broadcast  *)
(* the event and, if it could be stored, its system message; a kick then   *)
(* disconnects the user from a goroutine of its own.                       *)
(***************************************************************************)
Request(w, kind, u, d, pc, n) ==
  /\ job[w] = Free /\ kind \in Kinds
  /\ job' = [job EXCEPT ![w] = [pc |-> pc, kind |-> kind, user |-> u, device |-> d, left |-> n]]
  /\ UNCHANGED <<clients, subs, presence, conn>>

KickMember(w, u) ==
  /\ u \in member /\ member' = member \ {u}
  /\ \E n \in 1 .. 2 : Request(w, "kick", u, None, "snapshot", n)
  /\ UNCHANGED <<todo, device, excused>>

LeaveServer(w, u) ==
  /\ u \in member /\ member' = member \ {u}
  /\ excused' = excused \cup {u}
  /\ \E n \in 1 .. 2 : Request(w, "leave", u, None, "snapshot", n)
  /\ UNCHANGED <<todo, device>>

\* BroadcastToServer: the snapshot, then one send after the other.
BroadcastToServer(w) ==
  /\ job[w].pc = "snapshot"
  /\ todo' = [todo EXCEPT ![w] = subs]
  /\ job' = [job EXCEPT ![w] = [job[w] EXCEPT !.pc = "broadcast", !.left = job[w].left - 1]]
  /\ UNCHANGED <<clients, subs, presence, conn, member, device, excused>>

BroadcastTo(w, d) ==
  /\ job[w].pc = "broadcast" /\ d \in todo[w]
  /\ IF conn[d].open
     THEN /\ todo' = [todo EXCEPT ![w] = @ \ {d}] /\ conn' = Send(conn, {d})
          /\ UNCHANGED <<job, excused>>
     ELSE /\ todo' = [todo EXCEPT ![w] = {}]
          /\ job' = [job EXCEPT ![w] = Free]
          /\ excused' = excused \cup {job[w].user}
          /\ UNCHANGED conn
  /\ UNCHANGED <<clients, subs, presence, member, device>>

BroadcastDone(w) ==
  /\ job[w].pc = "broadcast" /\ todo[w] = {}
  /\ job' = [job EXCEPT ![w] = CASE job[w].left > 0 -> [job[w] EXCEPT !.pc = "snapshot"]
                                [] job[w].left = 0 /\ job[w].kind = "kick" ->
                                     [job[w] EXCEPT !.pc = "disconnect"]
                                [] OTHER -> Free]
  /\ UNCHANGED <<clients, subs, presence, conn, todo, member, device, excused>>

\* RevokeDeviceKey, then DisconnectDevice; RevokeAllDeviceKeys disconnects none.
RevokeDevice(w, u, d) ==
  /\ d \in device /\ device' = device \ {d}
  /\ \E c \in Conns : DeviceOf[c] = d /\ UserOf[c] = u
  /\ Request(w, "revoke", u, d, "disconnect", 0)
  /\ UNCHANGED <<todo, member, excused>>

RevokeAllDevices(w, u) ==
  /\ "revokeAll" \in Kinds /\ job[w] = Free
  /\ device' = device \ {DeviceOf[c] : c \in {c \in Conns : UserOf[c] = u}}
  /\ UNCHANGED <<clients, subs, presence, conn, todo, job, member, excused>>

\* DisconnectUser and DisconnectDevice: the snapshot of the targets, then a
\* close frame and Close for each.
SubscribedTargets(j) ==    \* mutant: h.servers instead of h.clients
  {c \in subs : UserOf[c] = j.user /\ (j.kind = "revoke" => DeviceOf[c] = j.device)}
Targets(j) == {c \in clients : UserOf[c] = j.user /\ (j.kind = "revoke" => DeviceOf[c] = j.device)}

Disconnect(w) ==
  /\ job[w].pc = "disconnect"
  /\ todo' = [todo EXCEPT ![w] = Targets(job[w])]
  /\ job' = [job EXCEPT ![w].pc = "cut"]
  /\ UNCHANGED <<clients, subs, presence, conn, member, device, excused>>

Cut(w, c) ==
  /\ job[w].pc = "cut" /\ c \in todo[w]
  /\ conn' = [conn EXCEPT ![c].up = FALSE]
  /\ todo' = [todo EXCEPT ![w] = @ \ {c}]
  /\ UNCHANGED <<clients, subs, presence, job, member, device, excused>>

CutDone(w) ==
  /\ job[w].pc = "cut" /\ todo[w] = {}
  /\ job' = [job EXCEPT ![w] = Free]
  /\ UNCHANGED <<clients, subs, presence, conn, todo, member, device, excused>>

\* The close frame meets a write of the write pump, which may be writing at
\* any time, and one of the two panics: the handler of a revocation ends, the
\* goroutine of a kick and the write pump take the process with them.
CutHandlerPanic(w, c) ==
  /\ job[w].pc = "cut" /\ job[w].kind = "revoke" /\ c \in todo[w] /\ conn[c].write = "running"
  /\ todo' = [todo EXCEPT ![w] = {}]
  /\ job' = [job EXCEPT ![w] = Free]
  /\ UNCHANGED <<clients, subs, presence, conn, member, device, excused>>

CutProcessPanic(w, c) ==
  /\ job[w].pc = "cut" /\ c \in todo[w] /\ conn[c].write = "running"
  /\ clients' = {} /\ subs' = {} /\ presence' = {}
  /\ conn' = [d \in Conns |-> Closed]
  /\ todo' = [a \in Actors |-> {}]
  /\ job' = [v \in Workers |-> Free]
  /\ excused' = {}
  /\ UNCHANGED <<member, device>>

\* A user joins again.
Join(u) ==
  /\ u \notin member
  /\ member' = member \cup {u} /\ excused' = excused \ {u}
  /\ UNCHANGED <<clients, subs, presence, conn, todo, job, device>>

ReadPump(c) ==
  \/ Register(c) \/ Unregister(c) \/ ReadError(c) \/ SubscribeToServer(c) \/ RateLimitedSend(c)
  \/ MessageSend(c) \/ MessageSent(c) \/ \E d \in Conns : MessageSendTo(c, d)
WritePumpStep(c) == WritePump(c) \/ WritePumpEnd(c)

Next ==
  \/ \E c \in Conns :
       \/ Open(c) \/ HangUp(c) \/ CanAccessServer(c) \/ UnsubscribeFromServer(c)
       \/ RateLimited(c) \/ MessageCheck(c) \/ ReadPump(c) \/ WritePumpStep(c)
  \/ \E w \in Workers :
       \/ \E u \in Users : KickMember(w, u) \/ LeaveServer(w, u) \/ RevokeAllDevices(w, u)
                           \/ \E d \in Devices : RevokeDevice(w, u, d)
       \/ BroadcastToServer(w) \/ BroadcastDone(w) \/ Disconnect(w) \/ CutDone(w)
       \/ \E c \in Conns : BroadcastTo(w, c) \/ Cut(w, c) \/ CutHandlerPanic(w, c)
                           \/ CutProcessPanic(w, c)
  \/ \E u \in Users : Join(u)

Spec == Init /\ [][Next]_vars

\* The scheduler runs every goroutine that can move.
Fairness == \A c \in Conns : WF_vars(ReadPump(c)) /\ WF_vars(WritePumpStep(c))

FairSpec == Spec /\ Fairness

(***************************************************************************)
(* Properties.                                                             *)
(***************************************************************************)
ReadPcs == {"off", "auth", "ghost", "reading", "subscribe", "limited", "message", "sending",
            "closing", "ended"}
WritePcs == {"off", "running", "ended"}
Connection == [up : BOOLEAN, open : BOOLEAN, queued : 0 .. Buf, read : ReadPcs, write : WritePcs]
JobRow == [pc : {"idle", "snapshot", "broadcast", "disconnect", "cut"}, kind : AllKinds \cup {None},
           user : Users \cup {None}, device : Devices \cup {None}, left : 0 .. 2]

TypeOK ==
  /\ clients \subseteq Conns /\ subs \subseteq Conns /\ presence \subseteq Users
  /\ conn \in [Conns -> Connection]
  /\ todo \in [Actors -> SUBSET Conns]
  /\ job \in [Workers -> JobRow]
  /\ member \subseteq Users /\ device \subseteq Devices /\ excused \subseteq Users

\* Presence is the set of users with a registered connection, and only
\* registered connections are subscribed, through every order of concurrent
\* registrations, removals and panics inside them.
HubConsistent ==
  /\ presence = {UserOf[c] : c \in clients}
  /\ subs \subseteq clients

\* A subscriber of the guild is a member, or its connection is closed, or the
\* kick that removed it is still on its way to the connection; a subscription
\* whose access check was older than the kick is no exception.  A user who
\* left by leaveServer stays subscribed, and so does one whose kick ended in a
\* panic before DisconnectUser.
OutsidersCut ==
  \A c \in subs :
    \/ UserOf[c] \in member \cup excused
    \/ ~conn[c].up
    \/ \E w \in Workers :
         /\ job[w].kind = "kick" /\ job[w].user = UserOf[c]
         /\ job[w].pc = "cut" => c \in todo[w]

\* A registered connection that is closed is unregistered in the end, unless
\* Register panicked and its pumps never ran, or its read pump waits on a
\* buffer that no write pump drains any more.
Ghost(c) == conn[c].read = "ghost"
Stuck(c) == conn[c].read = "limited" /\ conn[c].queued = Buf /\ conn[c].write = "ended"
EventuallyUnregistered ==
  \A c \in Conns : (c \in clients /\ ~conn[c].up) ~> (c \notin clients \/ Ghost(c) \/ Stuck(c))

(***************************************************************************)
(* A statement of the code's comments that the code does not meet.         *)
(***************************************************************************)

\* devices.go: revokeDevice closes every connection in flight of the device,
\* so it cannot keep streaming.  A connection that passed IsDeviceActive
\* before the revocation and registers after the snapshot is missed.
RevokedIsCut ==
  \A c \in clients :
    \/ DeviceOf[c] \in device
    \/ ~conn[c].up
    \/ \E w \in Workers :
         /\ job[w].kind = "revoke" /\ job[w].device = DeviceOf[c]
         /\ job[w].pc = "cut" => c \in todo[w]
=============================================================================
