----------------------------- MODULE VoiceRoom -----------------------------
(***************************************************************************)
(* A voice channel: the tokens of internal/api/livekit.go, the tracker     *)
(* that internal/api/webhook.go keeps from LiveKit's webhooks, the         *)
(* eviction of a banned or kicked user (moderation.go, admin.go,           *)
(* internal/livekit/room_service.go), and the voice group of MlsDelivery   *)
(* that the last participant's leaving destroys.                           *)
(*                                                                         *)
(* LiveKit is external: it admits whoever holds a token, sends a webhook   *)
(* per join and leave, in order, and removes participants on request.      *)
(***************************************************************************)
EXTENDS MlsDelivery

CONSTANTS
  Users,
  MaxSessions,  \* bound of the times the room fills
  MaxHooks,     \* bound of the webhooks under way
  MaxCleaners   \* bound of the goroutines that delete the voice group

VARIABLES
  room,      \* LiveKit: the participants
  hooks,     \* LiveKit: webhooks that are not yet delivered
  tracked,   \* VoiceState.rooms of the channel
  cleaners,  \* goroutines that will delete the voice group: the session they end
  bar,       \* the bans, the mute and the missing membership of every user
  ask,       \* the token request of every user: the next check, what slipped by
  pass,      \* the token of every user: the bars that slipped by its checks
  evict,     \* the bars whose handler is about to evict a user
  session,   \* history: how often the room has filled
  born,      \* history: the session in which the voice group was last written
  forgot,    \* history: the session in which a restart lost the tracker
  kept,      \* history: the last session whose group a failure may have kept
  stay       \* history: the bars that the present stay of a user is excused from

room_vars == <<room, hooks, tracked, cleaners>>
gate_vars == <<bar, ask, pass, evict>>
history == <<session, born, forgot, kept, stay>>
voice_vars == <<room_vars, gate_vars, history>>

Checks == <<"instance", "guild", "member", "mute">>     \* in the order of token
Bars == {"instance", "guild", "member", "mute"}
Evicting == {"instance", "guild", "member"}             \* admin ban, ban, kick

NoAsk == [at |-> 0, slipped |-> {}]

VoiceInit ==
  /\ Init
  /\ room = {} /\ hooks = <<>> /\ tracked = {} /\ cleaners = <<>>
  /\ bar = [u \in Users |-> {}]
  /\ ask = [u \in Users |-> NoAsk]
  /\ pass = [u \in Users |-> None]
  /\ evict = [u \in Users |-> {}]
  /\ session = 0 /\ born = 0 /\ forgot = 0 /\ kept = 0
  /\ stay = [u \in Users |-> {}]

(***************************************************************************)
(* POST /livekit/token: four lookups, then a token that is good for hours. *)
(* An error of a lookup counts as no bar, except for the membership; when  *)
(* the channel is not found, the guild is not looked at.                   *)
(***************************************************************************)
Token(u) ==
  /\ ask[u] = NoAsk
  /\ ask' = [ask EXCEPT ![u].at = 1]
  /\ UNCHANGED <<vars, room_vars, bar, pass, evict, history>>

CheckExceptGuild(u) ==    \* mutant: the guild's bans are not looked up
  LET r == Checks[ask[u].at] IN
    /\ ask[u].at \in 1..3
    /\ IF r \in bar[u] \ {"guild"} THEN ask' = [ask EXCEPT ![u] = NoAsk]
       ELSE ask' = [ask EXCEPT ![u].at = @ + 1]
    /\ UNCHANGED <<vars, room_vars, bar, pass, evict, history>>

TokenCheck(u) ==
  /\ ask[u].at \in 1..3
  /\ LET r == Checks[ask[u].at] IN
       \/ r \in bar[u] /\ ask' = [ask EXCEPT ![u] = NoAsk]
       \/ r \notin bar[u] /\ ask' = [ask EXCEPT ![u].at = @ + 1]
       \/ /\ Faults /\ r # "member" /\ r \in bar[u]
          /\ ask' = [ask EXCEPT ![u] = [at |-> @.at + 1, slipped |-> @.slipped \cup {r}]]
       \/ /\ Faults /\ r = "guild"
          /\ ask' = [ask EXCEPT ![u] = [at |-> 5, slipped |-> @.slipped \cup (bar[u] \ {"instance"})]]
  /\ UNCHANGED <<vars, room_vars, bar, pass, evict, history>>

\* The last check and the token.  The user may keep to an older token.
TokenIssue(u) ==
  /\ ask[u].at \in {4, 5}
  /\ \/ /\ "mute" \notin bar[u] \/ ask[u].at = 5
        /\ pass' = [pass EXCEPT ![u] = ask[u].slipped]
     \/ /\ Faults /\ "mute" \in bar[u]
        /\ pass' = [pass EXCEPT ![u] = ask[u].slipped \cup {"mute"}]
     \/ UNCHANGED pass
  /\ ask' = [ask EXCEPT ![u] = NoAsk]
  /\ UNCHANGED <<vars, room_vars, bar, evict, history>>

(***************************************************************************)
(* LiveKit.                                                                *)
(***************************************************************************)
Hook(kind, u) ==
  /\ Len(hooks) < MaxHooks
  /\ hooks' = Append(hooks, [kind |-> kind, user |-> u, session |-> session])

JoinRoom(u) ==
  /\ pass[u] # None /\ u \notin room
  /\ room = {} => session < MaxSessions
  /\ room' = room \cup {u}
  /\ session' = IF room = {} THEN session + 1 ELSE session
  /\ stay' = [stay EXCEPT ![u] = pass[u]]
  /\ Hook("joined", u)
  /\ UNCHANGED <<vars, tracked, cleaners, gate_vars, born, forgot, kept>>

LeaveRoom(u) ==
  /\ u \in room
  /\ room' = room \ {u}
  /\ Hook("left", u)
  /\ UNCHANGED <<vars, tracked, cleaners, gate_vars, history>>

(***************************************************************************)
(* The webhook handler: the tracker under its lock, then, when the last    *)
(* participant has left, a goroutine that deletes the voice group.         *)
(***************************************************************************)
DestroyAlways(h, rest) == h.kind = "left"    \* mutant: at every leave
DestroysGroup(h, rest) == h.kind = "left" /\ rest = {}

\* join and leave of VoiceState.
Tracked(h) == IF h.kind = "joined" THEN tracked \cup {h.user} ELSE tracked \ {h.user}

Webhook ==
  /\ hooks # <<>>
  /\ LET h == Head(hooks)
         rest == Tracked(h) IN
       /\ tracked' = rest
       /\ IF DestroysGroup(h, rest)
          THEN Len(cleaners) < MaxCleaners /\ cleaners' = Append(cleaners, h.session)
          ELSE UNCHANGED cleaners
  /\ hooks' = Tail(hooks)
  /\ UNCHANGED <<vars, room, gate_vars, history>>

Without(seq, i) == SubSeq(seq, 1, i - 1) \o SubSeq(seq, i + 1, Len(seq))

CleanText(i) ==    \* mutant: the group type is forgotten
  /\ cleaners' = Without(cleaners, i)
  /\ info' = [info EXCEPT !["text"] = None]
  /\ UNCHANGED <<now, packages, writes, commit, reader, job, room, hooks, tracked, gate_vars, history>>

\* A deletion that fails is not retried.
DeleteMLSGroupInfo(i) ==
  /\ cleaners' = Without(cleaners, i)
  /\ \/ info' = [info EXCEPT !["voice"] = None] /\ UNCHANGED kept
     \/ Faults /\ UNCHANGED info /\ kept' = session
  /\ UNCHANGED <<now, packages, writes, commit, reader, job>>
  /\ UNCHANGED <<room, hooks, tracked, gate_vars, session, born, forgot, stay>>

(***************************************************************************)
(* Bans, kicks and mutes, which are stored first; the eviction follows and *)
(* its failure is only logged.  An instance ban of a member route evicts   *)
(* nobody, and neither does a mute.                                        *)
(***************************************************************************)
\* The checks that the request of u has behind it.
Passed(u) == {Checks[i] : i \in 1..(ask[u].at - 1)}

Bar(u, r, evicts) ==
  /\ r \notin bar[u] /\ (evicts => r \in Evicting)
  /\ bar' = [bar EXCEPT ![u] = @ \cup {r}]
  /\ ask' = [ask EXCEPT ![u].slipped = IF r \in Passed(u) THEN @ \cup {r} ELSE @]
  /\ pass' = [pass EXCEPT ![u] = IF @ = None THEN None ELSE @ \cup {r}]
  /\ IF evicts THEN evict' = [evict EXCEPT ![u] = @ \cup {r}] /\ UNCHANGED stay
     ELSE stay' = [stay EXCEPT ![u] = @ \cup {r}] /\ UNCHANGED evict
  /\ UNCHANGED <<vars, room_vars, session, born, forgot, kept>>

\* RemoveParticipant: a participant who is not there counts as removed.
RemoveParticipant(u) ==
  /\ evict[u] # {}
  /\ \/ u \in room /\ room' = room \ {u} /\ Hook("left", u) /\ UNCHANGED stay
     \/ u \notin room /\ UNCHANGED <<room, hooks, stay>>
     \/ Faults /\ stay' = [stay EXCEPT ![u] = @ \cup evict[u]] /\ UNCHANGED <<room, hooks>>
  /\ evict' = [evict EXCEPT ![u] = {}]
  /\ UNCHANGED <<vars, tracked, cleaners, bar, ask, pass, session, born, forgot, kept>>

Lift(u, r) ==
  /\ r \in bar[u]
  /\ bar' = [bar EXCEPT ![u] = @ \ {r}]
  /\ UNCHANGED <<vars, room_vars, ask, pass, evict, history>>

\* The tracker lives in memory; LiveKit does not wait for the server.
VoiceRestart ==
  /\ Faults
  /\ tracked # {} \/ cleaners # <<>>
  /\ tracked' = {} /\ cleaners' = <<>>
  /\ hooks' = <<>>
  /\ forgot' = session /\ kept' = IF cleaners # <<>> \/ hooks # <<>> THEN session ELSE kept
  /\ ask' = [u \in Users |-> NoAsk] /\ evict' = [u \in Users |-> {}]
  /\ stay' = [u \in Users |-> stay[u] \cup evict[u]]
  /\ job' = [s \in Workers |-> Idle] /\ lows' = 0
  /\ supply' = [supply EXCEPT !.failed = @ \/ lows > 0]
  /\ UNCHANGED <<now, pkg, handed, groups, room, bar, pass, session, born>>

\* A step of the delivery service.  A group that is written while the room is
\* empty belongs to the next session.
Deliver ==
  /\ Next
  /\ born' = IF info'["voice"] = info["voice"] THEN born
             ELSE IF room = {} THEN session + 1 ELSE session
  /\ UNCHANGED <<room_vars, gate_vars, session, forgot, kept, stay>>

VoiceNext ==
  \/ \E u \in Users : \/ Token(u) \/ TokenCheck(u) \/ TokenIssue(u)
                      \/ JoinRoom(u) \/ LeaveRoom(u) \/ RemoveParticipant(u)
                      \/ \E r \in Bars : Lift(u, r) \/ \E e \in BOOLEAN : Bar(u, r, e)
  \/ Webhook
  \/ \E i \in DOMAIN cleaners : DeleteMLSGroupInfo(i)
  \/ VoiceRestart

VoiceSpec == VoiceInit /\ [][VoiceNext \/ Deliver]_<<vars, voice_vars>>

(***************************************************************************)
(* Properties.                                                             *)
(***************************************************************************)
\* A participant who is barred is about to be evicted, or came with a token
\* whose checks were over when the bar was set, or stays through a bar that
\* evicts nobody, a failed eviction or a failed lookup: nobody else who is
\* banned, kicked or muted is in the room.
BarredAreOut ==
  \A u \in room : bar[u] \subseteq stay[u] \cup evict[u]

\* A session starts without the voice group of an earlier one, as webhook.go
\* means it to, unless the deletion is still under way, failed or was lost.
SessionStartsFresh ==
  room # {} /\ info["voice"] # None /\ born < session =>
    \/ kept >= born
    \/ \E i \in DOMAIN cleaners : cleaners[i] >= born
    \/ \E i \in DOMAIN hooks : hooks[i].kind = "left" /\ hooks[i].session >= born

\* The group of a session with participants is deleted only by the late
\* goroutine of an earlier session, or after a restart has lost the tracker.
LiveGroupSpared ==
  [][info["voice"] # None /\ info'["voice"] = None /\ room # {} =>
       forgot = session \/ \E i \in DOMAIN cleaners :
         cleaners' = Without(cleaners, i) /\ cleaners[i] < session]_<<vars, voice_vars>>
=============================================================================
