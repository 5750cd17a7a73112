------------------------------ MODULE HubProofs ------------------------------
(***************************************************************************)
(* Proofs about Hub: presence and subscriptions agree with the registered  *)
(* clients, and a kicked user keeps no live subscription, for any number   *)
(* of connections, users and requests in flight.                           *)
(*                                                                         *)
(* A connection is registered exactly while its read pump is at one of     *)
(* RegisteredPcs.  So a kick, which takes its targets from the registered  *)
(* clients, finds every connection that passed its access check, whether   *)
(* its subscription is already in the room or still to come.               *)
(***************************************************************************)
EXTENDS Hub, TLAPS

RegisteredPcs == {"ghost", "reading", "subscribe", "limited", "message", "sending", "closing"}

Registered == \A c \in Conns : c \in clients <=> conn[c].read \in RegisteredPcs

\* A request that runs has its user; one about to broadcast has a broadcast left.
RowOK(j) ==
  /\ j.pc # "idle" => j.user \in Users
  /\ j.pc = "snapshot" => j.left > 0
JobsOK == \A w \in Workers : RowOK(job[w])

Kicking(w, c) ==
  /\ job[w].kind = "kick" /\ job[w].user = UserOf[c]
  /\ job[w].pc = "cut" => c \in todo[w]

\* Connections that are subscribed or have passed the check to subscribe.
Exposed(c) == c \in subs \/ conn[c].read = "subscribe"
Covered(c) ==
  \/ UserOf[c] \in member \cup excused
  \/ ~conn[c].up
  \/ \E w \in Workers : Kicking(w, c)
ExposedCovered == \A c \in Conns : Exposed(c) => Covered(c)

Inv == TypeOK /\ JobsOK /\ Registered /\ HubConsistent /\ ExposedCovered

USE HubAssumption

(***************************************************************************)
(* A send changes nothing of a connection but the length of its queue.     *)
(***************************************************************************)
LEMMA SendKeeps ==
  ASSUME NEW k \in [Conns -> Connection], NEW S
  PROVE  /\ Send(k, S) \in [Conns -> Connection]
         /\ \A c \in Conns : /\ Send(k, S)[c].up = k[c].up
                             /\ Send(k, S)[c].read = k[c].read
                             /\ Send(k, S)[c].write = k[c].write
                             /\ Send(k, S)[c].open = k[c].open
<1>1. ASSUME NEW c \in Conns
      PROVE  /\ Send(k, S)[c] \in Connection
             /\ Send(k, S)[c].up = k[c].up /\ Send(k, S)[c].read = k[c].read
             /\ Send(k, S)[c].write = k[c].write /\ Send(k, S)[c].open = k[c].open
  <2>1. k[c] \in Connection
    OBVIOUS
  <2>2. Min2(Buf, k[c].queued + 1) \in 0 .. Buf
    BY <2>1 DEF Connection, Min2
  <2>3. Send(k, S)[c] = IF c \in S THEN [k[c] EXCEPT !.queued = Min2(Buf, k[c].queued + 1)]
                        ELSE k[c]
    BY DEF Send
  <2> QED BY <2>1, <2>2, <2>3 DEF Connection
<1>2. DOMAIN Send(k, S) = Conns /\ Send(k, S) = [c \in Conns |-> Send(k, S)[c]]
  BY DEF Send
<1> QED BY <1>1, <1>2

(***************************************************************************)
(* Steps in which no connection changes its registration or comes up, and  *)
(* only members pass the access check.                                     *)
(***************************************************************************)
Kept(v, c) ==
  /\ v.read \in RegisteredPcs <=> conn[c].read \in RegisteredPcs
  /\ v.read = "subscribe" => conn[c].read = "subscribe" \/ UserOf[c] \in member
  /\ v.up = conn[c].up \/ v.up = FALSE

ConnsKept == conn' \in [Conns -> Connection] /\ \A c \in Conns : Kept(conn'[c], c)

\* A send to any set of clients.
LEMMA SentIsKept ==
  ASSUME conn \in [Conns -> Connection], NEW S, conn' = Send(conn, S)
  PROVE  ConnsKept
  BY SendKeeps DEF ConnsKept, Kept

\* A send, and a new state of the pumps of one connection.
LEMMA ReplacedIsKept ==
  ASSUME conn \in [Conns -> Connection], NEW S, NEW c \in Conns, NEW v \in Connection,
         Kept(v, c), conn' = [Send(conn, S) EXCEPT ![c] = v]
  PROVE  ConnsKept
<1> DEFINE k == Send(conn, S)
<1>1. k \in [Conns -> Connection] /\ \A d \in Conns : k[d].up = conn[d].up /\ k[d].read = conn[d].read
  BY SendKeeps
<1>2. conn' = [k EXCEPT ![c] = v]
  OBVIOUS
<1> HIDE DEF k
<1>3. conn' \in [Conns -> Connection] /\ conn'[c] = v /\ \A d \in Conns \ {c} : conn'[d] = k[d]
  BY <1>1, <1>2
<1>4. ASSUME NEW d \in Conns \ {c} PROVE Kept(conn'[d], d)
  BY <1>1, <1>3, <1>4 DEF Kept
<1> QED BY <1>3, <1>4 DEF ConnsKept

\* A new state of the pumps of one connection.
LEMMA ChangedIsKept ==
  ASSUME conn \in [Conns -> Connection], NEW c \in Conns, NEW v \in Connection,
         Kept(v, c), conn' = [conn EXCEPT ![c] = v]
  PROVE  ConnsKept
<1>1. conn' \in [Conns -> Connection] /\ conn'[c] = v /\ \A d \in Conns \ {c} : conn'[d] = conn[d]
  OBVIOUS
<1>2. ASSUME NEW d \in Conns \ {c} PROVE Kept(conn'[d], d)
  BY <1>1, <1>2 DEF Kept
<1> QED BY <1>1, <1>2 DEF ConnsKept

\* Such steps of the pumps, which leave clients, requests and members alone.
LEMMA PumpStep ==
  ASSUME Inv, ConnsKept,
         UNCHANGED <<clients, presence, job, member, device, excused>>,
         subs' \subseteq subs,
         todo' \in [Actors -> SUBSET Conns], \A w \in Workers : todo'[w] = todo[w]
  PROVE  Inv'
<1>a. conn' \in [Conns -> Connection] /\ \A c \in Conns : Kept(conn'[c], c)
  BY DEF ConnsKept
<1>1. TypeOK'
  BY <1>a DEF Inv, TypeOK
<1>2. JobsOK'
  BY DEF Inv, JobsOK
<1>3. Registered'
  BY <1>a DEF Inv, Registered, Kept
<1>4. HubConsistent'
  BY DEF Inv, HubConsistent
<1>5. ExposedCovered'
  <2> SUFFICES ASSUME NEW c \in Conns, Exposed(c)'
               PROVE  Covered(c)'
    BY DEF ExposedCovered
  <2>1. CASE Exposed(c)
    <3>1. Covered(c)
      BY <2>1 DEF Inv, ExposedCovered
    <3>2. ASSUME NEW w \in Workers, Kicking(w, c) PROVE Kicking(w, c)'
      BY <3>2 DEF Kicking
    <3>3. conn'[c].up = conn[c].up \/ conn'[c].up = FALSE
      BY <1>a DEF Kept
    <3> QED BY <3>1, <3>2, <3>3 DEF Covered
  <2>2. CASE ~Exposed(c)
    BY <1>a, <2>2 DEF Exposed, Covered, Kept
  <2> QED BY <2>1, <2>2
<1> QED BY <1>1, <1>2, <1>3, <1>4, <1>5 DEF Inv

\* The steps of the read and write pumps between Register and Unregister.
LEMMA PumpsKeep ==
  ASSUME Inv, NEW c \in Conns,
         \/ HangUp(c) \/ ReadError(c) \/ CanAccessServer(c) \/ UnsubscribeFromServer(c)
         \/ RateLimited(c) \/ RateLimitedSend(c) \/ MessageCheck(c) \/ MessageSend(c)
         \/ MessageSent(c) \/ WritePump(c) \/ WritePumpEnd(c)
         \/ \E d \in Conns : MessageSendTo(c, d)
  PROVE  Inv'
<1>a. conn \in [Conns -> Connection] /\ conn[c] \in Connection
  BY DEF Inv, TypeOK
<1>b. todo \in [Actors -> SUBSET Conns] /\ subs \subseteq Conns /\ c \in Actors
  BY DEF Inv, TypeOK, Actors
<1>c. ASSUME NEW r \in ReadPcs,
             r \in RegisteredPcs <=> conn[c].read \in RegisteredPcs,
             r = "subscribe" => UserOf[c] \in member,
             conn' = [conn EXCEPT ![c].read = r]
      PROVE  ConnsKept
  <2> DEFINE v == [conn[c] EXCEPT !.read = r]
  <2>1. v \in Connection /\ v.read = r /\ v.up = conn[c].up
    BY <1>a DEF Connection
  <2>2. conn' = [conn EXCEPT ![c] = v]
    BY <1>c
  <2> HIDE DEF v
  <2>3. Kept(v, c)
    BY <1>c, <2>1 DEF Kept
  <2> QED BY <1>a, <2>1, <2>2, <2>3, ChangedIsKept
<1>d. ASSUME NEW S, NEW r \in ReadPcs \ {"subscribe"},
             r \in RegisteredPcs <=> conn[c].read \in RegisteredPcs,
             conn' = [Send(conn, S) EXCEPT ![c].read = r]
      PROVE  ConnsKept
  <2> DEFINE s == Send(conn, S)
             v == [s[c] EXCEPT !.read = r]
  <2>1. s \in [Conns -> Connection] /\ s[c] \in Connection /\ s[c].up = conn[c].up
    BY <1>a, SendKeeps
  <2>2. conn' = [s EXCEPT ![c] = v]
    BY <1>d
  <2> HIDE DEF s
  <2>3. v \in Connection /\ v.read = r /\ v.up = conn[c].up
    BY <2>1 DEF Connection
  <2> HIDE DEF v
  <2>4. Kept(v, c)
    BY <1>d, <2>3 DEF Kept
  <2> QED BY <1>a, <2>2, <2>3, <2>4, ReplacedIsKept DEF s
<1>e. ASSUME conn[c].read \in RegisteredPcs, conn' = Finish(conn, c)
      PROVE  ConnsKept
  <2> DEFINE v == [conn[c] EXCEPT !.read = "closing", !.open = FALSE]
  <2>1. v \in Connection /\ v.read = "closing" /\ v.up = conn[c].up
    BY <1>a DEF Connection, ReadPcs
  <2>2. conn' = [conn EXCEPT ![c] = v]
    BY <1>e DEF Finish
  <2> HIDE DEF v
  <2>3. Kept(v, c)
    BY <1>e, <2>1 DEF Kept, RegisteredPcs
  <2> QED BY <1>a, <2>1, <2>2, <2>3, ChangedIsKept
<1>1. CASE HangUp(c)
  <2> DEFINE v == [conn[c] EXCEPT !.up = FALSE]
  <2>1. v \in Connection /\ v.read = conn[c].read /\ v.up = FALSE
    BY <1>a DEF Connection
  <2>2. conn' = [conn EXCEPT ![c] = v]
    BY <1>1 DEF HangUp
  <2> HIDE DEF v
  <2>3. Kept(v, c)
    BY <2>1 DEF Kept
  <2>4. ConnsKept
    BY <1>a, <2>1, <2>2, <2>3, ChangedIsKept
  <2> QED BY <1>1, <1>b, <2>4, PumpStep DEF HangUp, hub
<1>2. CASE ReadError(c)
  <2>1. ConnsKept
    BY <1>2, <1>e DEF ReadError, RegisteredPcs
  <2> QED BY <1>2, <1>b, <2>1, PumpStep DEF ReadError, hub
<1>3. CASE CanAccessServer(c) \/ MessageCheck(c)
  <2>1. conn[c].read = "reading"
    BY <1>3 DEF CanAccessServer, MessageCheck, Reading
  <2>2. CASE UserOf[c] \in member
    <3>1. PICK r \in {"subscribe", "message"} : conn' = [conn EXCEPT ![c].read = r]
      BY <1>3, <2>2 DEF CanAccessServer, MessageCheck
    <3>2. ConnsKept
      BY <1>c, <2>1, <2>2, <3>1 DEF RegisteredPcs, ReadPcs
    <3> QED BY <1>3, <1>b, <3>2, PumpStep DEF CanAccessServer, MessageCheck, hub
  <2>3. CASE UserOf[c] \notin member
    <3>1. conn' = Send(conn, {c})
      BY <1>3, <2>3 DEF CanAccessServer, MessageCheck
    <3>2. ConnsKept
      BY <1>a, <3>1, SentIsKept
    <3> QED BY <1>3, <1>b, <3>2, PumpStep DEF CanAccessServer, MessageCheck, hub
  <2> QED BY <2>2, <2>3
<1>4. CASE UnsubscribeFromServer(c)
  <2>1. ConnsKept
    BY <1>4, <1>a DEF UnsubscribeFromServer, ConnsKept, Kept
  <2> QED BY <1>4, <1>b, <2>1, PumpStep DEF UnsubscribeFromServer
<1>5. CASE RateLimited(c)
  <2>a. conn[c].read = "reading" /\ conn' = [conn EXCEPT ![c].read = "limited"]
    BY <1>5 DEF RateLimited, Reading
  <2>b. "limited" \in ReadPcs /\ ("limited" \in RegisteredPcs <=> conn[c].read \in RegisteredPcs)
    BY <2>a DEF RegisteredPcs, ReadPcs
  <2>1. ConnsKept
    BY <2>a, <2>b, <1>c
  <2> QED BY <1>5, <1>b, <2>1, PumpStep DEF RateLimited, hub
<1>6. CASE RateLimitedSend(c)
  <2> DEFINE s == Send(conn, {c})
             k == [s EXCEPT ![c].read = "reading"]
             v == [s[c] EXCEPT !.read = "closing", !.open = FALSE]
  <2>1. conn[c].read = "limited" /\ (conn' = k \/ conn' = Finish(k, c))
    BY <1>6 DEF RateLimitedSend
  <2>2. ConnsKept
    <3>1. CASE conn' = k
      <4>1. /\ "reading" \in ReadPcs \ {"subscribe"}
            /\ "reading" \in RegisteredPcs <=> conn[c].read \in RegisteredPcs
        BY <2>1 DEF RegisteredPcs, ReadPcs
      <4>2. conn' = [Send(conn, {c}) EXCEPT ![c].read = "reading"]
        BY <3>1
      <4> QED BY <4>1, <4>2, <1>d
    <3>2. CASE conn' = Finish(k, c)
      <4>1. s \in [Conns -> Connection] /\ s[c] \in Connection /\ s[c].up = conn[c].up
        BY <1>a, SendKeeps
      <4> HIDE DEF s
      <4>2. k \in [Conns -> Connection] /\ k[c] = [s[c] EXCEPT !.read = "reading"]
        BY <4>1 DEF Connection, ReadPcs
      <4>3. [k[c] EXCEPT !.read = "closing", !.open = FALSE] = v
        BY <4>1, <4>2 DEF Connection
      <4>4. conn' = [s EXCEPT ![c] = v]
        BY <3>2, <4>1, <4>3 DEF Finish
      <4>5. v \in Connection /\ v.read = "closing" /\ v.up = conn[c].up
        BY <4>1 DEF Connection, ReadPcs
      <4> HIDE DEF v
      <4>6. Kept(v, c)
        BY <2>1, <4>5 DEF Kept, RegisteredPcs
      <4> QED BY <1>a, <4>4, <4>5, <4>6, ReplacedIsKept DEF s
    <3> QED BY <2>1, <3>1, <3>2
  <2> QED BY <1>6, <1>b, <2>2, PumpStep DEF RateLimitedSend, hub
<1>7. CASE MessageSend(c)
  <2>a. PICK acked \in {{}, {c}} : conn' = [Send(conn, acked) EXCEPT ![c].read = "sending"]
    BY <1>7 DEF MessageSend
  <2>b. /\ "sending" \in ReadPcs \ {"subscribe"}
        /\ "sending" \in RegisteredPcs <=> conn[c].read \in RegisteredPcs
    BY <1>7 DEF MessageSend, RegisteredPcs, ReadPcs
  <2>1. ConnsKept
    BY <2>a, <2>b, <1>d
  <2>2. todo' \in [Actors -> SUBSET Conns] /\ \A w \in Workers : todo'[w] = todo[w]
    BY <1>7, <1>b DEF MessageSend, Actors
  <2> QED BY <1>7, <2>1, <2>2, PumpStep DEF MessageSend
<1>8. CASE MessageSent(c)
  <2>1. ConnsKept
    BY <1>8, <1>c DEF MessageSent, RegisteredPcs, ReadPcs
  <2> QED BY <1>8, <1>b, <2>1, PumpStep DEF MessageSent, hub
<1>9. CASE WritePump(c) \/ WritePumpEnd(c)
  <2>1. PICK q \in 0 .. Buf, next \in WritePcs :
          conn' = [conn EXCEPT ![c] = [conn[c] EXCEPT !.queued = q, !.write = next]]
    <3>1. CASE WritePump(c)
      <4>1. PICK next \in {"running", "ended"} :
              conn' = [conn EXCEPT ![c] = [conn[c] EXCEPT !.queued = conn[c].queued - 1,
                                                          !.write = next]]
        BY <3>1 DEF WritePump
      <4>a. conn[c].queued > 0 /\ conn[c].queued \in 0 .. Buf
        BY <3>1, <1>a DEF WritePump, Connection
      <4>2. conn[c].queued - 1 \in 0 .. Buf
        BY <4>a
      <4> QED BY <4>1, <4>2 DEF WritePcs
    <3>2. CASE WritePumpEnd(c)
      <4>1. [conn[c] EXCEPT !.write = "ended"]
              = [conn[c] EXCEPT !.queued = conn[c].queued, !.write = "ended"]
        BY <1>a DEF Connection
      <4>2. conn[c].queued \in 0 .. Buf
        BY <1>a DEF Connection
      <4>3. conn' = [conn EXCEPT ![c] = [conn[c] EXCEPT !.write = "ended"]]
        BY <3>2 DEF WritePumpEnd
      <4> QED BY <4>1, <4>2, <4>3 DEF WritePcs
    <3> QED BY <1>9, <3>1, <3>2
  <2> DEFINE v == [conn[c] EXCEPT !.queued = q, !.write = next]
  <2>2. v \in Connection /\ v.read = conn[c].read /\ v.up = conn[c].up
    BY <1>a DEF Connection
  <2>3. conn' = [conn EXCEPT ![c] = v]
    BY <2>1
  <2> HIDE DEF v
  <2>4. Kept(v, c)
    BY <2>2 DEF Kept
  <2>5. ConnsKept
    BY <1>a, <2>2, <2>3, <2>4, ChangedIsKept
  <2> QED BY <1>9, <1>b, <2>5, PumpStep DEF WritePump, WritePumpEnd, hub
<1>10. ASSUME NEW d \in Conns, MessageSendTo(c, d) PROVE Inv'
  <2>1. ConnsKept
    <3>1. CASE conn' = Send(conn, {d})
      BY <1>a, <3>1, SentIsKept
    <3>2. CASE conn' = Finish(conn, c)
      BY <1>10, <1>e, <3>2 DEF MessageSendTo, RegisteredPcs
    <3> QED BY <1>10, <3>1, <3>2 DEF MessageSendTo
  <2>2. todo' \in [Actors -> SUBSET Conns] /\ \A w \in Workers : todo'[w] = todo[w]
    BY <1>10, <1>b DEF MessageSendTo, Actors
  <2> QED BY <1>10, <2>1, <2>2, PumpStep DEF MessageSendTo
<1> QED BY <1>1, <1>2, <1>3, <1>4, <1>5, <1>6, <1>7, <1>8, <1>9, <1>10

(***************************************************************************)
(* Steps that change the registration or the subscription of one           *)
(* connection.                                                             *)
(***************************************************************************)
LEMMA ReplacedAndSent ==
  ASSUME conn \in [Conns -> Connection], NEW c \in Conns, NEW v \in Connection, NEW S,
         conn' = Send([conn EXCEPT ![c] = v], S)
  PROVE  /\ conn' \in [Conns -> Connection]
         /\ conn'[c].read = v.read
         /\ \A d \in Conns \ {c} : conn'[d].read = conn[d].read /\ conn'[d].up = conn[d].up
<1> DEFINE k == [conn EXCEPT ![c] = v]
<1>1. k \in [Conns -> Connection] /\ k[c] = v /\ \A d \in Conns \ {c} : k[d] = conn[d]
  OBVIOUS
<1>2. conn' = Send(k, S)
  OBVIOUS
<1> HIDE DEF k
<1>3. /\ Send(k, S) \in [Conns -> Connection]
      /\ \A d \in Conns : Send(k, S)[d].up = k[d].up /\ Send(k, S)[d].read = k[d].read
  BY <1>1, SendKeeps
<1> QED BY <1>1, <1>2, <1>3

\* The steps of one connection c: it is exposed afterwards only if it was.
OthersKept(c) ==
  /\ conn' \in [Conns -> Connection]
  /\ \A d \in Conns \ {c} :
       /\ conn'[d].read = conn[d].read /\ conn'[d].up = conn[d].up
       /\ d \in clients' <=> d \in clients
       /\ d \in subs' => d \in subs

\* A step that registers, removes or subscribes connection c.
LEMMA HubStep ==
  ASSUME Inv, NEW c \in Conns, OthersKept(c),
         clients' \subseteq Conns, subs' \subseteq Conns, presence' \subseteq Users,
         c \in clients' <=> conn'[c].read \in RegisteredPcs,
         HubConsistent',
         Exposed(c)' => Exposed(c) /\ conn'[c].up = conn[c].up,
         UNCHANGED <<todo, job, member, device, excused>>
  PROVE  Inv'
<1>1. TypeOK'
  BY DEF Inv, TypeOK, OthersKept
<1>2. JobsOK'
  BY DEF Inv, JobsOK
<1>3. Registered'
  <2> SUFFICES ASSUME NEW d \in Conns PROVE d \in clients' <=> conn'[d].read \in RegisteredPcs
    BY DEF Registered
  <2>1. CASE d = c
    BY <2>1
  <2>2. CASE d # c
    BY <2>2 DEF Inv, Registered, OthersKept
  <2> QED BY <2>1, <2>2
<1>4. ExposedCovered'
  <2> SUFFICES ASSUME NEW d \in Conns, Exposed(d)'
               PROVE  Covered(d)'
    BY DEF ExposedCovered
  <2>1. Exposed(d) /\ conn'[d].up = conn[d].up
    BY DEF Exposed, OthersKept
  <2>2. Covered(d)
    BY <2>1 DEF Inv, ExposedCovered
  <2>3. \A w \in Workers : Kicking(w, d) => Kicking(w, d)'
    BY DEF Kicking
  <2> QED BY <2>1, <2>2, <2>3 DEF Covered
<1> QED BY <1>1, <1>2, <1>3, <1>4 DEF Inv

\* ServeHTTP, Register, Unregister and SubscribeToServer.
LEMMA RegistrationKeeps ==
  ASSUME Inv, NEW c \in Conns,
         Open(c) \/ Register(c) \/ Unregister(c) \/ SubscribeToServer(c)
  PROVE  Inv'
<1>a. /\ conn \in [Conns -> Connection] /\ conn[c] \in Connection
      /\ clients \subseteq Conns /\ subs \subseteq clients /\ presence \subseteq Users
      /\ presence = {UserOf[d] : d \in clients} /\ UserOf[c] \in Users
  BY DEF Inv, TypeOK, HubConsistent
<1>b. c \in clients <=> conn[c].read \in RegisteredPcs
  BY DEF Inv, Registered
<1>1. CASE Open(c)
  <2> DEFINE v == [conn[c] EXCEPT !.up = TRUE, !.open = TRUE, !.read = "auth"]
  <2>1. v \in Connection /\ v.read = "auth"
    BY <1>a DEF Connection, ReadPcs
  <2>2. conn[c].read = "off" /\ conn' = [conn EXCEPT ![c] = v]
    BY <1>1 DEF Open
  <2> HIDE DEF v
  <2>3. UNCHANGED <<clients, subs, presence, todo, job, member, device, excused>>
    BY <1>1 DEF Open
  <2>4. OthersKept(c) /\ conn'[c].read = "auth"
    BY <1>a, <2>1, <2>2, <2>3 DEF OthersKept
  <2>5. c \notin clients
    BY <1>b, <2>2 DEF RegisteredPcs
  <2>6. ~Exposed(c)'
    BY <1>a, <2>3, <2>4, <2>5 DEF Exposed
  <2>7. c \in clients' <=> conn'[c].read \in RegisteredPcs
    BY <2>3, <2>4, <2>5 DEF RegisteredPcs
  <2>8. HubConsistent'
    BY <1>a, <2>3 DEF HubConsistent
  <2> QED BY <1>a, <2>3, <2>4, <2>6, <2>7, <2>8, HubStep
<1>2. CASE Register(c)
  <2>1. PICK v \in Connection, S \in SUBSET Conns :
          conn' = Send([conn EXCEPT ![c] = v], S) /\ v.read \in {"reading", "ghost"}
    <3> DEFINE v1 == [conn[c] EXCEPT !.read = "reading", !.write = "running"]
               v2 == [conn[c] EXCEPT !.read = "ghost"]
    <3>1. v1 \in Connection /\ v2 \in Connection /\ v1.read = "reading" /\ v2.read = "ghost"
      BY <1>a DEF Connection, ReadPcs, WritePcs
    <3>2. \E S \in SUBSET Conns : \/ conn' = Send([conn EXCEPT ![c] = v1], S)
                                 \/ conn' = Send([conn EXCEPT ![c] = v2], S)
      BY <1>2, <1>a DEF Register, PresenceSent, PresencePanics
    <3> HIDE DEF v1, v2
    <3> QED BY <3>1, <3>2
  <2>2. /\ conn' \in [Conns -> Connection] /\ conn'[c].read \in {"reading", "ghost"}
        /\ \A d \in Conns \ {c} : conn'[d].read = conn[d].read /\ conn'[d].up = conn[d].up
    BY <1>a, <2>1, ReplacedAndSent
  <2>3. /\ clients' = clients \cup {c} /\ presence' = presence \cup {UserOf[c]}
        /\ UNCHANGED <<subs, todo, job, member, device, excused>>
        /\ conn[c].read = "auth"
    BY <1>2 DEF Register
  <2>4. OthersKept(c)
    BY <2>2, <2>3 DEF OthersKept
  <2>5. ~Exposed(c)'
    BY <1>a, <1>b, <2>2, <2>3 DEF Exposed, RegisteredPcs
  <2>6. c \in clients' <=> conn'[c].read \in RegisteredPcs
    BY <2>2, <2>3 DEF RegisteredPcs
  <2>7. HubConsistent'
    BY <1>a, <2>3 DEF HubConsistent
  <2>8. clients' \subseteq Conns /\ subs' \subseteq Conns /\ presence' \subseteq Users
    BY <1>a, <2>3
  <2> QED BY <2>3, <2>4, <2>5, <2>6, <2>7, <2>8, HubStep
<1>3. CASE Unregister(c)
  <2>1. PICK v \in Connection, S \in SUBSET Conns :
          conn' = Send([conn EXCEPT ![c] = v], S) /\ v.read = "ended"
    <3>1. \A up \in BOOLEAN : Ended(up) \in Connection /\ Ended(up).read = "ended"
      BY DEF Ended, Connection, ReadPcs, WritePcs
    <3>2. \E up \in BOOLEAN, S \in SUBSET Conns : conn' = Send([conn EXCEPT ![c] = Ended(up)], S)
      <4>1. conn[c].up \in BOOLEAN
        BY <1>a DEF Connection
      <4> QED BY <4>1, <1>3, <1>a DEF Unregister, PresenceSent, PresencePanics
    <3> QED BY <3>1, <3>2
  <2>2. /\ conn' \in [Conns -> Connection] /\ conn'[c].read = "ended"
        /\ \A d \in Conns \ {c} : conn'[d].read = conn[d].read /\ conn'[d].up = conn[d].up
    BY <1>a, <2>1, ReplacedAndSent
  <2>3. /\ clients' = clients \ {c} /\ subs' = subs \ {c}
        /\ UNCHANGED <<todo, job, member, device, excused>>
    BY <1>3 DEF Unregister
  <2>4. presence' = IF \E d \in clients \ {c} : UserOf[d] = UserOf[c] THEN presence
                    ELSE presence \ {UserOf[c]}
    BY <1>3 DEF Unregister, HasOtherClientForUser
  <2>5. OthersKept(c)
    BY <2>2, <2>3 DEF OthersKept
  <2>6. ~Exposed(c)'
    BY <2>2, <2>3 DEF Exposed
  <2>7. c \in clients' <=> conn'[c].read \in RegisteredPcs
    BY <2>2, <2>3 DEF RegisteredPcs
  <2>8. HubConsistent'
    <3>1. presence' = {UserOf[d] : d \in clients \ {c}}
      BY <1>a, <2>4
    <3> QED BY <1>a, <2>3, <3>1 DEF HubConsistent
  <2>9. clients' \subseteq Conns /\ subs' \subseteq Conns /\ presence' \subseteq Users
    BY <1>a, <2>3, <2>4
  <2> QED BY <2>3, <2>5, <2>6, <2>7, <2>8, <2>9, HubStep
<1>4. CASE SubscribeToServer(c)
  <2> DEFINE v == [conn[c] EXCEPT !.read = "reading"]
  <2>1. v \in Connection /\ v.read = "reading" /\ v.up = conn[c].up
    BY <1>a DEF Connection, ReadPcs
  <2>2. /\ conn[c].read = "subscribe" /\ subs' = subs \cup {c}
        /\ conn' = [conn EXCEPT ![c] = v]
        /\ UNCHANGED <<clients, presence, todo, job, member, device, excused>>
    BY <1>4 DEF SubscribeToServer
  <2> HIDE DEF v
  <2>3. OthersKept(c) /\ conn'[c].read = "reading" /\ conn'[c].up = conn[c].up
    BY <1>a, <2>1, <2>2 DEF OthersKept
  <2>4. c \in clients
    BY <1>b, <2>2 DEF RegisteredPcs
  <2>5. c \in clients' <=> conn'[c].read \in RegisteredPcs
    BY <2>2, <2>3, <2>4 DEF RegisteredPcs
  <2>6. HubConsistent'
    BY <1>a, <2>2, <2>4 DEF HubConsistent
  <2>7. Exposed(c)
    BY <2>2 DEF Exposed
  <2>8. clients' \subseteq Conns /\ subs' \subseteq Conns /\ presence' \subseteq Users
    BY <1>a, <2>2
  <2> QED BY <2>2, <2>3, <2>5, <2>6, <2>7, <2>8, HubStep
<1> QED BY <1>1, <1>2, <1>3, <1>4

(***************************************************************************)
(* Steps of requests: a user who is no longer excused is being kicked, and *)
(* a kick ends only when it has reached its connections.                   *)
(***************************************************************************)
\* A request that takes a step has the new row r.
LEMMA RowStep ==
  ASSUME Inv, NEW w \in Workers, NEW r \in JobRow, RowOK(r), job' = [job EXCEPT ![w] = r]
  PROVE  /\ job' \in [Workers -> JobRow] /\ JobsOK'
         /\ job'[w] = r /\ \A v \in Workers \ {w} : job'[v] = job[v]
<1>1. /\ job' \in [Workers -> JobRow]
      /\ job'[w] = r /\ \A v \in Workers \ {w} : job'[v] = job[v]
  BY DEF Inv, TypeOK
<1>2. ASSUME NEW v \in Workers PROVE RowOK(job'[v])
  BY <1>1 DEF Inv, JobsOK
<1> QED BY <1>1, <1>2 DEF JobsOK

ConnsCut ==
  /\ conn' \in [Conns -> Connection]
  /\ \A c \in Conns : conn'[c].read = conn[c].read /\ (conn'[c].up = conn[c].up \/ conn'[c].up = FALSE)

\* A step of a request, of the membership, or none at all.
LEMMA RequestStep ==
  ASSUME Inv, ConnsCut, UNCHANGED <<clients, subs, presence>>,
         todo' \in [Actors -> SUBSET Conns],
         job' \in [Workers -> JobRow], JobsOK',
         member' \subseteq Users, device' \subseteq Devices, excused' \subseteq Users,
         \A c \in Conns : UserOf[c] \in member \cup excused => Covered(c)',
         \A c \in Conns, w \in Workers : c \in clients /\ Kicking(w, c) => Covered(c)'
  PROVE  Inv'
<1>1. TypeOK'
  BY DEF Inv, TypeOK, ConnsCut
<1>2. Registered'
  BY DEF Inv, Registered, ConnsCut
<1>3. HubConsistent'
  BY DEF Inv, HubConsistent
<1>4. ExposedCovered'
  <2> SUFFICES ASSUME NEW c \in Conns, Exposed(c)'
               PROVE  Covered(c)'
    BY DEF ExposedCovered
  <2>1. Exposed(c)
    BY DEF Exposed, ConnsCut
  <2>2. c \in clients
    BY <2>1 DEF Inv, Exposed, Registered, RegisteredPcs, HubConsistent
  <2>3. Covered(c)
    BY <2>1 DEF Inv, ExposedCovered
  <2>4. CASE ~conn[c].up
    BY <2>4 DEF ConnsCut, Covered
  <2> QED BY <2>2, <2>3, <2>4 DEF Covered
<1> QED BY <1>1, <1>2, <1>3, <1>4 DEF Inv

\* A kick that is not about to end keeps its connections covered.
LEMMA KickGoesOn ==
  ASSUME NEW c \in Conns, NEW w \in Workers, Kicking(w, c),
         job'[w].kind = job[w].kind, job'[w].user = job[w].user,
         job'[w].pc = "cut" => c \in todo'[w] \/ conn'[c].up = FALSE
  PROVE  Covered(c)'
  BY DEF Covered, Kicking

\* A request that has ended.
LEMMA FreeRow == Free \in JobRow /\ RowOK(Free)
  BY DEF Free, JobRow, RowOK

\* The handlers' first steps: the change of the stored rows.
LEMMA NewRequestKeeps ==
  ASSUME Inv, NEW w \in Workers, NEW u \in Users,
         \/ KickMember(w, u) \/ LeaveServer(w, u) \/ RevokeAllDevices(w, u)
         \/ \E d \in Devices : RevokeDevice(w, u, d)
  PROVE  Inv'
<1>a. /\ conn \in [Conns -> Connection] /\ todo \in [Actors -> SUBSET Conns]
      /\ member \subseteq Users /\ device \subseteq Devices /\ excused \subseteq Users
      /\ job \in [Workers -> JobRow]
  BY DEF Inv, TypeOK
<1>b. ASSUME NEW kind \in AllKinds, NEW d \in Devices \cup {None}, NEW n \in 0 .. 2,
             NEW pc \in {"snapshot", "disconnect"}, pc = "snapshot" => n > 0,
             Request(w, kind, u, d, pc, n), UNCHANGED todo
      PROVE  /\ ConnsCut /\ UNCHANGED <<clients, subs, presence>>
             /\ job' \in [Workers -> JobRow] /\ JobsOK'
             /\ job'[w].kind = kind /\ job'[w].user = u /\ job'[w].pc # "cut"
             /\ \A c \in Conns, v \in Workers : Kicking(v, c) => Kicking(v, c)'
  <2> DEFINE r == [pc |-> pc, kind |-> kind, user |-> u, device |-> d, left |-> n]
  <2>1. r \in JobRow /\ RowOK(r) /\ r.kind = kind /\ r.user = u /\ r.pc # "cut"
    BY <1>b DEF JobRow, RowOK
  <2>2. /\ job[w] = Free /\ job' = [job EXCEPT ![w] = r]
        /\ UNCHANGED <<clients, subs, presence, conn>>
    BY <1>b DEF Request
  <2> HIDE DEF r
  <2>3. /\ job' \in [Workers -> JobRow] /\ JobsOK' /\ job'[w] = r
        /\ \A v \in Workers \ {w} : job'[v] = job[v]
    BY <2>1, <2>2, RowStep
  <2>4. \A c \in Conns : ~Kicking(w, c)
    BY <2>2 DEF Kicking, Free, AllKinds
  <2>5. \A c \in Conns, v \in Workers : Kicking(v, c) => Kicking(v, c)'
    BY <1>b, <2>3, <2>4 DEF Kicking
  <2> QED BY <1>a, <2>1, <2>2, <2>3, <2>5 DEF ConnsCut
<1>1. CASE KickMember(w, u)
  <2>1. PICK n \in 1 .. 2 : Request(w, "kick", u, None, "snapshot", n)
    BY <1>1 DEF KickMember
  <2>2. member' = member \ {u} /\ UNCHANGED <<todo, device, excused>>
    BY <1>1 DEF KickMember
  <2>3. /\ ConnsCut /\ UNCHANGED <<clients, subs, presence>>
        /\ job' \in [Workers -> JobRow] /\ JobsOK'
        /\ job'[w].kind = "kick" /\ job'[w].user = u /\ job'[w].pc # "cut"
        /\ \A c \in Conns, v \in Workers : Kicking(v, c) => Kicking(v, c)'
    BY <1>b, <2>1, <2>2 DEF AllKinds
  <2>4. ASSUME NEW c \in Conns, UserOf[c] \in member \cup excused PROVE Covered(c)'
    BY <2>2, <2>3, <2>4 DEF Covered, Kicking
  <2>5. ASSUME NEW c \in Conns, NEW v \in Workers, Kicking(v, c) PROVE Covered(c)'
    BY <2>3, <2>5 DEF Covered
  <2> QED BY <1>a, <2>2, <2>3, <2>4, <2>5, RequestStep
<1>2. CASE LeaveServer(w, u)
  <2>1. PICK n \in 1 .. 2 : Request(w, "leave", u, None, "snapshot", n)
    BY <1>2 DEF LeaveServer
  <2>2. member' = member \ {u} /\ excused' = excused \cup {u} /\ UNCHANGED <<todo, device>>
    BY <1>2 DEF LeaveServer
  <2>3. /\ ConnsCut /\ UNCHANGED <<clients, subs, presence>>
        /\ job' \in [Workers -> JobRow] /\ JobsOK'
        /\ \A c \in Conns, v \in Workers : Kicking(v, c) => Kicking(v, c)'
    BY <1>b, <2>1, <2>2 DEF AllKinds
  <2>4. ASSUME NEW c \in Conns, UserOf[c] \in member \cup excused PROVE Covered(c)'
    BY <2>2, <2>4 DEF Covered
  <2>5. ASSUME NEW c \in Conns, NEW v \in Workers, Kicking(v, c) PROVE Covered(c)'
    BY <2>3, <2>5 DEF Covered
  <2> QED BY <1>a, <2>2, <2>3, <2>4, <2>5, RequestStep
<1>3. CASE RevokeAllDevices(w, u)
  <2>1. /\ UNCHANGED <<clients, subs, presence, conn, todo, job, member, excused>>
        /\ device' \subseteq Devices
    BY <1>3, <1>a DEF RevokeAllDevices
  <2>2. ConnsCut /\ JobsOK'
    BY <1>a, <2>1 DEF ConnsCut, Inv, JobsOK
  <2>4. ASSUME NEW c \in Conns, UserOf[c] \in member \cup excused PROVE Covered(c)'
    BY <2>1, <2>4 DEF Covered
  <2>5. ASSUME NEW c \in Conns, NEW v \in Workers, Kicking(v, c) PROVE Covered(c)'
    BY <2>1, <2>5 DEF Covered, Kicking
  <2> QED BY <1>a, <2>1, <2>2, <2>4, <2>5, RequestStep
<1>4. ASSUME NEW d \in Devices, RevokeDevice(w, u, d) PROVE Inv'
  <2>1. Request(w, "revoke", u, d, "disconnect", 0) /\ UNCHANGED <<todo, member, excused>>
    BY <1>4 DEF RevokeDevice
  <2>2. device' \subseteq Devices
    BY <1>4, <1>a DEF RevokeDevice
  <2>3. /\ ConnsCut /\ UNCHANGED <<clients, subs, presence>>
        /\ job' \in [Workers -> JobRow] /\ JobsOK'
        /\ \A c \in Conns, v \in Workers : Kicking(v, c) => Kicking(v, c)'
    BY <1>b, <2>1 DEF AllKinds
  <2>4. ASSUME NEW c \in Conns, UserOf[c] \in member \cup excused PROVE Covered(c)'
    BY <2>1, <2>4 DEF Covered
  <2>5. ASSUME NEW c \in Conns, NEW v \in Workers, Kicking(v, c) PROVE Covered(c)'
    BY <2>3, <2>5 DEF Covered
  <2> QED BY <1>a, <2>1, <2>2, <2>3, <2>4, <2>5, RequestStep
<1> QED BY <1>1, <1>2, <1>3, <1>4

\* The broadcasts and the disconnection of a request under way.
LEMMA RequestsKeep ==
  ASSUME Inv, NEW w \in Workers,
         \/ BroadcastToServer(w) \/ BroadcastDone(w) \/ Disconnect(w) \/ CutDone(w)
         \/ \E c \in Conns : BroadcastTo(w, c) \/ Cut(w, c) \/ CutHandlerPanic(w, c)
  PROVE  Inv'
<1>a. /\ conn \in [Conns -> Connection] /\ todo \in [Actors -> SUBSET Conns]
      /\ member \subseteq Users /\ device \subseteq Devices /\ excused \subseteq Users
      /\ subs \subseteq Conns /\ clients \subseteq Conns
      /\ job \in [Workers -> JobRow] /\ job[w] \in JobRow /\ w \in Actors
  BY DEF Inv, TypeOK, Actors
<1>b. RowOK(job[w]) /\ JobsOK
  BY DEF Inv, JobsOK
<1>c. UNCHANGED conn => ConnsCut
  BY <1>a DEF ConnsCut
<1>d. ASSUME UNCHANGED <<member, excused>>, NEW c \in Conns, UserOf[c] \in member \cup excused
      PROVE  Covered(c)'
  BY <1>d DEF Covered
\* The kicks of other requests are not touched.
<1>e. ASSUME NEW r \in JobRow, job' = [job EXCEPT ![w] = r],
             NEW T \in SUBSET Conns, todo' = [todo EXCEPT ![w] = T],
             NEW c \in Conns, NEW v \in Workers \ {w}, Kicking(v, c)
      PROVE  Covered(c)'
  <2>1. job'[v] = job[v] /\ todo'[v] = todo[v]
    BY <1>a, <1>e DEF Actors
  <2> QED BY <1>e, <2>1 DEF Covered, Kicking
<1>f. todo = [todo EXCEPT ![w] = todo[w]] /\ job = [job EXCEPT ![w] = job[w]] /\ todo[w] \in SUBSET Conns
  BY <1>a
<1>g. ASSUME NEW T \in SUBSET Conns, todo' = [todo EXCEPT ![w] = T]
      PROVE  todo' \in [Actors -> SUBSET Conns] /\ todo'[w] = T
  BY <1>a, <1>g
<1>1. CASE BroadcastToServer(w)
  <2> DEFINE r == [job[w] EXCEPT !.pc = "broadcast", !.left = job[w].left - 1]
  <2>1. job[w].left - 1 \in 0 .. 2
    <3>1. job[w].pc = "snapshot"
      BY <1>1 DEF BroadcastToServer
    <3>2. job[w].left > 0 /\ job[w].left \in 0 .. 2
      BY <3>1, <1>a, <1>b DEF RowOK, JobRow
    <3> QED BY <3>2
  <2>2. r \in JobRow /\ r.pc = "broadcast" /\ r.user = job[w].user /\ r.kind = job[w].kind
    BY <1>a, <2>1 DEF JobRow
  <2>3. /\ job[w].pc = "snapshot" /\ job' = [job EXCEPT ![w] = r]
        /\ todo' = [todo EXCEPT ![w] = subs]
        /\ UNCHANGED <<clients, subs, presence, conn, member, device, excused>>
    BY <1>1 DEF BroadcastToServer
  <2> HIDE DEF r
  <2>4. RowOK(r)
    BY <1>b, <2>2, <2>3 DEF RowOK
  <2>5. job' \in [Workers -> JobRow] /\ JobsOK' /\ job'[w] = r
    BY <2>2, <2>3, <2>4, RowStep
  <2>6. ASSUME NEW c \in Conns, NEW v \in Workers, Kicking(v, c) PROVE Covered(c)'
    <3>1. CASE v = w
      BY <2>2, <2>5, <2>6, <3>1, KickGoesOn
    <3>2. CASE v # w
      BY <1>a, <1>e, <2>2, <2>3, <2>6, <3>2
    <3> QED BY <3>1, <3>2
  <2> QED BY <1>a, <1>c, <1>d, <1>g, <2>3, <2>5, <2>6, RequestStep
<1>2. CASE BroadcastDone(w)
  <2>1. /\ job[w].pc = "broadcast" /\ UNCHANGED <<clients, subs, presence, conn, todo, member,
                                                  device, excused>>
    BY <1>2 DEF BroadcastDone
  <2>2. PICK r \in JobRow :
          /\ RowOK(r) /\ job' = [job EXCEPT ![w] = r]
          /\ job[w].kind = "kick" => /\ r.kind = "kick" /\ r.user = job[w].user
                                     /\ r.pc # "cut"
    <3> DEFINE r1 == [job[w] EXCEPT !.pc = "snapshot"]
               r2 == [job[w] EXCEPT !.pc = "disconnect"]
    <3>1. /\ r1 \in JobRow /\ r2 \in JobRow
          /\ r1.user = job[w].user /\ r1.kind = job[w].kind /\ r1.pc = "snapshot"
          /\ r1.left = job[w].left
          /\ r2.user = job[w].user /\ r2.kind = job[w].kind /\ r2.pc = "disconnect"
          /\ job[w].left \in 0 .. 2 /\ job[w].user \in Users
      BY <1>a, <1>b, <2>1 DEF JobRow, RowOK
    <3>2. job' = [job EXCEPT ![w] = CASE job[w].left > 0 -> r1
                                      [] job[w].left = 0 /\ job[w].kind = "kick" -> r2
                                      [] OTHER -> Free]
      BY <1>2 DEF BroadcastDone
    <3> HIDE DEF r1, r2
    <3>3. CASE job[w].left > 0
      <4>1. RowOK(r1)
        BY <3>1, <3>3 DEF RowOK
      <4>2. job' = [job EXCEPT ![w] = r1]
        <5>1. ~(job[w].left = 0)
          BY <3>1, <3>3
        <5> QED BY <3>2, <3>3, <5>1, Zenon
      <4> QED BY <3>1, <4>1, <4>2
    <3>4. CASE job[w].left = 0 /\ job[w].kind = "kick"
      <4>1. RowOK(r2) /\ job' = [job EXCEPT ![w] = r2]
        BY <3>1, <3>2, <3>4 DEF RowOK
      <4> QED BY <3>1, <4>1
    <3>5. CASE job[w].left = 0 /\ job[w].kind # "kick"
      <4>1. job' = [job EXCEPT ![w] = Free]
        BY <3>2, <3>5
      <4> QED BY <3>5, <4>1, FreeRow
    <3> QED BY <3>1, <3>3, <3>4, <3>5
  <2>3. job' \in [Workers -> JobRow] /\ JobsOK' /\ job'[w] = r
    BY <2>2, RowStep
  <2>4. ASSUME NEW c \in Conns, NEW v \in Workers, Kicking(v, c) PROVE Covered(c)'
    <3>1. CASE v = w
      <4>1. job[w].kind = "kick"
        BY <2>4, <3>1 DEF Kicking
      <4> QED BY <2>2, <2>3, <2>4, <3>1, <4>1, KickGoesOn
    <3>2. CASE v # w
      BY <1>a, <1>e, <1>f, <2>1, <2>2, <2>4, <3>2
    <3> QED BY <3>1, <3>2
  <2> QED BY <1>a, <1>c, <1>d, <2>1, <2>3, <2>4, RequestStep
<1>3. CASE Disconnect(w)
  <2> DEFINE r == [job[w] EXCEPT !.pc = "cut"]
             T == Targets(job[w])
  <2>1. r \in JobRow /\ r.pc = "cut" /\ r.user = job[w].user /\ r.kind = job[w].kind
    BY <1>a DEF JobRow
  <2>2. T \in SUBSET Conns /\ \A c \in clients : job[w].kind = "kick" /\ job[w].user = UserOf[c] => c \in T
    BY <1>a DEF Targets
  <2>3. /\ job[w].pc = "disconnect" /\ job' = [job EXCEPT ![w] = r]
        /\ todo' = [todo EXCEPT ![w] = T]
        /\ UNCHANGED <<clients, subs, presence, conn, member, device, excused>>
    BY <1>3 DEF Disconnect
  <2> HIDE DEF r, T
  <2>4. RowOK(r)
    BY <1>b, <2>1, <2>3 DEF RowOK
  <2>5. job' \in [Workers -> JobRow] /\ JobsOK' /\ job'[w] = r
    BY <2>1, <2>3, <2>4, RowStep
  <2>6. ASSUME NEW c \in Conns, NEW v \in Workers, c \in clients, Kicking(v, c) PROVE Covered(c)'
    <3>1. CASE v = w
      <4>1. c \in T
        BY <2>2, <2>6, <3>1 DEF Kicking
      <4>2. c \in todo'[w]
        BY <1>g, <2>2, <2>3, <4>1
      <4> QED BY <2>1, <2>5, <2>6, <3>1, <4>2, KickGoesOn
    <3>2. CASE v # w
      BY <1>e, <2>1, <2>2, <2>3, <2>6, <3>2
    <3> QED BY <3>1, <3>2
  <2> QED BY <1>a, <1>c, <1>d, <1>g, <2>2, <2>3, <2>5, <2>6, RequestStep
\* A request that ends: its kick is done, or its user becomes excused.
<1>h. ASSUME job' = [job EXCEPT ![w] = Free], NEW T \in SUBSET Conns, todo' = [todo EXCEPT ![w] = T],
             UNCHANGED <<clients, subs, presence, conn, member, device>>,
             excused \subseteq excused', excused' \subseteq Users,
             \A c \in Conns : Kicking(w, c) => UserOf[c] \in excused'
      PROVE  Inv'
  <2>1. job' \in [Workers -> JobRow] /\ JobsOK' /\ job'[w] = Free
    BY <1>h, FreeRow, RowStep
  <2>2. ASSUME NEW c \in Conns, UserOf[c] \in member \cup excused PROVE Covered(c)'
    BY <1>h, <2>2 DEF Covered
  <2>3. ASSUME NEW c \in Conns, NEW v \in Workers, Kicking(v, c) PROVE Covered(c)'
    <3>1. CASE v = w
      BY <1>h, <2>3, <3>1 DEF Covered
    <3>2. CASE v # w
      BY <1>e, <1>h, <2>3, <3>2, FreeRow
    <3> QED BY <3>1, <3>2
  <2> QED BY <1>a, <1>c, <1>g, <1>h, <2>1, <2>2, <2>3, RequestStep
<1>4. CASE CutDone(w)
  <2>1. \A c \in Conns : ~Kicking(w, c)
    BY <1>4 DEF CutDone, Kicking
  <2> QED BY <1>4, <1>a, <1>f, <1>h, <2>1 DEF CutDone
<1>5. ASSUME NEW c \in Conns, CutHandlerPanic(w, c) PROVE Inv'
  <2>1. \A d \in Conns : ~Kicking(w, d)
    BY <1>5 DEF CutHandlerPanic, Kicking
  <2> QED BY <1>5, <1>a, <1>h, <2>1 DEF CutHandlerPanic
<1>6. ASSUME NEW c \in Conns, BroadcastTo(w, c) PROVE Inv'
  <2>1. CASE conn[c].open
    <3>1. /\ todo' = [todo EXCEPT ![w] = todo[w] \ {c}] /\ conn' = Send(conn, {c})
          /\ UNCHANGED <<clients, subs, presence, job, member, device, excused>>
          /\ job[w].pc = "broadcast"
      BY <1>6, <2>1 DEF BroadcastTo
    <3>2. ConnsCut
      BY <1>a, <3>1, SendKeeps DEF ConnsCut
    <3>3. JobsOK'
      BY <1>b, <3>1 DEF JobsOK
    <3>4. ASSUME NEW d \in Conns, NEW v \in Workers, Kicking(v, d) PROVE Covered(d)'
      <4>1. CASE v = w
        BY <3>1, <3>4, <4>1, KickGoesOn
      <4>2. CASE v # w
        <5>1. todo[w] \ {c} \in SUBSET Conns
          BY <1>f
        <5>2. job' = [job EXCEPT ![w] = job[w]]
          BY <1>f, <3>1
        <5> QED BY <1>a, <1>e, <3>1, <3>4, <4>2, <5>1, <5>2
      <4> QED BY <4>1, <4>2
    <3>5. todo' \in [Actors -> SUBSET Conns]
      BY <1>a, <3>1
    <3> QED BY <1>a, <1>d, <3>1, <3>2, <3>3, <3>4, <3>5, RequestStep
  <2>2. CASE ~conn[c].open
    <3>1. /\ todo' = [todo EXCEPT ![w] = {}] /\ job' = [job EXCEPT ![w] = Free]
          /\ excused' = excused \cup {job[w].user}
          /\ UNCHANGED <<clients, subs, presence, conn, member, device>>
          /\ job[w].pc = "broadcast"
      BY <1>6, <2>2 DEF BroadcastTo
    <3>2. job[w].user \in Users
      BY <1>b, <3>1 DEF RowOK
    <3>3. \A d \in Conns : Kicking(w, d) => UserOf[d] \in excused'
      BY <3>1 DEF Kicking
    <3> QED BY <1>a, <1>h, <3>1, <3>2, <3>3
  <2> QED BY <2>1, <2>2
<1>7. ASSUME NEW c \in Conns, Cut(w, c) PROVE Inv'
  <2> DEFINE v == [conn[c] EXCEPT !.up = FALSE]
  <2>1. v \in Connection /\ v.read = conn[c].read /\ v.up = FALSE
    BY <1>a DEF Connection
  <2>2. /\ conn' = [conn EXCEPT ![c] = v] /\ todo' = [todo EXCEPT ![w] = todo[w] \ {c}]
        /\ UNCHANGED <<clients, subs, presence, job, member, device, excused>>
    BY <1>7 DEF Cut
  <2> HIDE DEF v
  <2>3. ConnsCut /\ conn'[c].up = FALSE
    BY <1>a, <2>1, <2>2 DEF ConnsCut
  <2>4. JobsOK'
    BY <1>b, <2>2 DEF JobsOK
  <2>5. todo[w] \ {c} \in SUBSET Conns /\ todo' \in [Actors -> SUBSET Conns]
        /\ todo'[w] = todo[w] \ {c}
    BY <1>a, <2>2
  <2>6. ASSUME NEW d \in Conns, NEW x \in Workers, Kicking(x, d) PROVE Covered(d)'
    <3>1. CASE x = w
      <4>1. job'[w].pc = "cut" => d \in todo'[w] \/ conn'[d].up = FALSE
        BY <2>2, <2>3, <2>5, <2>6, <3>1 DEF Kicking
      <4> QED BY <2>2, <2>6, <3>1, <4>1, KickGoesOn
    <3>2. CASE x # w
      <4>1. job' = [job EXCEPT ![w] = job[w]]
        BY <1>f, <2>2
      <4> QED BY <1>a, <1>e, <2>2, <2>5, <2>6, <3>2, <4>1
    <3> QED BY <3>1, <3>2
  <2> QED BY <1>a, <1>d, <2>2, <2>3, <2>4, <2>5, <2>6, RequestStep
<1> QED BY <1>1, <1>2, <1>3, <1>4, <1>5, <1>6, <1>7

(***************************************************************************)
(* The invariant, and what follows from it.                                *)
(***************************************************************************)
\* A connection that is not in use.
LEMMA ClosedIsConnection == Closed \in Connection /\ Closed.read = "off"
  BY DEF Closed, Connection, ReadPcs, WritePcs

\* The state the process starts in, whatever is stored.
LEMMA StartedIsInv ==
  ASSUME clients' = {}, subs' = {}, presence' = {}, excused' = {},
         conn' = [c \in Conns |-> Closed], todo' = [a \in Actors |-> {}],
         job' = [w \in Workers |-> Free],
         member' \subseteq Users, device' \subseteq Devices
  PROVE  Inv'
<1>1. TypeOK'
  BY ClosedIsConnection, FreeRow DEF TypeOK
<1>2. JobsOK'
  BY FreeRow DEF JobsOK
<1>3. Registered'
  BY ClosedIsConnection DEF Registered, RegisteredPcs
<1>4. HubConsistent'
  BY DEF HubConsistent
<1>5. ExposedCovered'
  BY ClosedIsConnection DEF ExposedCovered, Exposed
<1> QED BY <1>1, <1>2, <1>3, <1>4, <1>5 DEF Inv

\* The process starts with an empty hub.
LEMMA InitInv == Init => Inv
<1> SUFFICES ASSUME Init PROVE Inv
  OBVIOUS
<1>1. TypeOK
  BY ClosedIsConnection, FreeRow DEF Init, TypeOK
<1>2. JobsOK
  BY FreeRow DEF Init, JobsOK
<1>3. Registered
  BY ClosedIsConnection DEF Init, Registered, RegisteredPcs
<1>4. HubConsistent
  BY DEF Init, HubConsistent
<1>5. ExposedCovered
  BY ClosedIsConnection DEF Init, ExposedCovered, Exposed
<1> QED BY <1>1, <1>2, <1>3, <1>4, <1>5 DEF Inv

\* Every step of every goroutine keeps the invariant.
LEMMA NextInv == Inv /\ [Next]_vars => Inv'
<1> SUFFICES ASSUME Inv, [Next]_vars PROVE Inv'
  OBVIOUS
<1>1. ASSUME NEW c \in Conns,
             \/ Open(c) \/ HangUp(c) \/ CanAccessServer(c) \/ UnsubscribeFromServer(c)
             \/ RateLimited(c) \/ MessageCheck(c) \/ ReadPump(c) \/ WritePumpStep(c)
      PROVE  Inv'
  BY <1>1, RegistrationKeeps, PumpsKeep DEF ReadPump, WritePumpStep
<1>2. ASSUME NEW w \in Workers, NEW u \in Users,
             \/ KickMember(w, u) \/ LeaveServer(w, u) \/ RevokeAllDevices(w, u)
             \/ \E d \in Devices : RevokeDevice(w, u, d)
      PROVE  Inv'
  BY <1>2, NewRequestKeeps
<1>3. ASSUME NEW w \in Workers,
             \/ BroadcastToServer(w) \/ BroadcastDone(w) \/ Disconnect(w) \/ CutDone(w)
             \/ \E c \in Conns : BroadcastTo(w, c) \/ Cut(w, c) \/ CutHandlerPanic(w, c)
      PROVE  Inv'
  BY <1>3, RequestsKeep
<1>4. ASSUME NEW w \in Workers, NEW c \in Conns, CutProcessPanic(w, c) PROVE Inv'
  <2>1. member' \subseteq Users /\ device' \subseteq Devices
    BY <1>4 DEF CutProcessPanic, Inv, TypeOK
  <2> QED BY <1>4, <2>1, StartedIsInv DEF CutProcessPanic
<1>5. ASSUME NEW u \in Users, Join(u) PROVE Inv'
  <2>1. /\ member' = member \cup {u} /\ excused' = excused \ {u}
        /\ UNCHANGED <<clients, subs, presence, conn, todo, job, device>>
    BY <1>5 DEF Join
  <2>2. /\ ConnsCut /\ JobsOK'
        /\ todo' \in [Actors -> SUBSET Conns] /\ job' \in [Workers -> JobRow]
        /\ member' \subseteq Users /\ device' \subseteq Devices /\ excused' \subseteq Users
    BY <2>1 DEF Inv, TypeOK, ConnsCut, JobsOK
  <2>3. ASSUME NEW c \in Conns, UserOf[c] \in member \cup excused PROVE Covered(c)'
    BY <2>1, <2>3 DEF Covered
  <2>4. ASSUME NEW c \in Conns, NEW w \in Workers, Kicking(w, c) PROVE Covered(c)'
    BY <2>1, <2>4 DEF Covered, Kicking
  <2> QED BY <2>1, <2>2, <2>3, <2>4, RequestStep
<1>6. CASE UNCHANGED vars
  <2>1. ConnsCut /\ JobsOK'
    BY <1>6 DEF vars, Inv, TypeOK, ConnsCut, JobsOK
  <2>2. /\ UNCHANGED <<clients, subs, presence, todo, job, member, device, excused>>
        /\ todo' \in [Actors -> SUBSET Conns] /\ job' \in [Workers -> JobRow]
        /\ member' \subseteq Users /\ device' \subseteq Devices /\ excused' \subseteq Users
    BY <1>6 DEF vars, Inv, TypeOK
  <2>3. ASSUME NEW c \in Conns, UserOf[c] \in member \cup excused PROVE Covered(c)'
    BY <2>2, <2>3 DEF Covered
  <2>4. ASSUME NEW c \in Conns, NEW w \in Workers, Kicking(w, c) PROVE Covered(c)'
    BY <2>2, <2>4 DEF Covered, Kicking
  <2> QED BY <2>1, <2>2, <2>3, <2>4, RequestStep
<1> QED BY <1>1, <1>2, <1>3, <1>4, <1>5, <1>6 DEF Next

\* Presence lists exactly the users with a registered connection, and only
\* registered connections are subscribed, whatever panics inside Register and
\* Unregister.
THEOREM HubIsConsistent == Spec => []HubConsistent
<1>1. Inv => HubConsistent
  BY DEF Inv
<1> QED BY <1>1, InitInv, NextInv, PTL DEF Spec

\* A subscriber who was kicked has a closed connection, or the kick still has
\* it on its list; only those who left by themselves and those whose kick
\* ended in a panic are excepted.
THEOREM OutsidersAreCut == Spec => []OutsidersCut
<1>1. Inv => OutsidersCut
  <2> SUFFICES ASSUME Inv, NEW c \in subs
               PROVE  \/ UserOf[c] \in member \cup excused
                      \/ ~conn[c].up
                      \/ \E w \in Workers :
                           /\ job[w].kind = "kick" /\ job[w].user = UserOf[c]
                           /\ job[w].pc = "cut" => c \in todo[w]
    BY DEF OutsidersCut
  <2>1. c \in Conns /\ Exposed(c)
    BY DEF Inv, TypeOK, Exposed
  <2> QED BY <2>1 DEF Inv, ExposedCovered, Covered, Kicking
<1> QED BY <1>1, InitInv, NextInv, PTL DEF Spec

\* The types of the hub's state, among them the bound of the channels: no send
\* of any pump, handler or presence update takes one over its capacity.
THEOREM TypeCorrect == Spec => []TypeOK
<1>1. Inv => TypeOK
  BY DEF Inv
<1> QED BY <1>1, InitInv, NextInv, PTL DEF Spec
=============================================================================
