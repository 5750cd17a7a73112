---------------------------- MODULE MCVoiceRoom ----------------------------
(***************************************************************************)
(* Instances of VoiceRoom, and of the delivery service it extends, for TLC.*)
(***************************************************************************)
EXTENDS VoiceRoom, TLC

CONSTANT u1

VARIABLE scenario    \* which part of the system a behaviour exercises

Jobs(pcs) == \A s \in Workers : job[s].pc \in pcs

\* One user, two sessions, and one kind of bar beside that of the guild.
OneUser ==
  /\ \A u \in Users \ {u1} : ask[u] = NoAsk /\ bar[u] = {}
  /\ session <= 2 /\ Len(hooks) <= 1
  /\ LET kinds == bar[u1] \cup stay[u1] \cup ask[u1].slipped \cup evict[u1]
                  \cup IF pass[u1] = None THEN {} ELSE pass[u1]
     IN Cardinality(kinds \ {"guild"}) <= 1

\* The group of a commit plays no part in paging; metadata comes first.
TextCommits ==
  /\ info["voice"] = None /\ writes <= 2 /\ \A s \in Workers : job[s].group = "text"
  /\ info["metadata"] # None => commit = <<>> /\ info["text"] = None /\ Jobs({"idle"})

OneToken == Len(hooks) <= 2 /\ \A u \in Users : pass[u] # None => ask[u] = NoAsk

\* The key packages share no state with the groups, and the commits none with
\* the room: each part runs alone, the voice group with the room.
MCInit == VoiceInit /\ scenario \in {"packages", "commits", "tokens", "room"}
MCNext ==
  /\ UNCHANGED scenario
  /\ \/ /\ scenario = "packages" /\ Deliver /\ UNCHANGED groups
        /\ Jobs({"idle", "lastResort"})'
     \/ /\ scenario = "commits" /\ Deliver /\ UNCHANGED <<now, packages>>
        /\ Jobs({"idle", "info", "append"})' /\ TextCommits'
     \/ scenario = "tokens" /\ VoiceNext /\ OneUser'
     \/ scenario = "room" /\ VoiceNext /\ UNCHANGED bar /\ OneToken'
     \/ scenario = "room" /\ Deliver /\ PutGroupInfo("voice", 0)
MCSpec == MCInit /\ [][MCNext]_<<vars, voice_vars, scenario>>

Interchangeable == Permutations(Packages) \cup Permutations(Workers)
=============================================================================
