------------------------------- MODULE MCGuild -------------------------------
(***************************************************************************)
(* A guild whose users are interchangeable before one of them creates it,  *)
(* with two requests in flight.                                            *)
(***************************************************************************)
EXTENDS Guild, TLC

VARIABLE scenario    \* which requests a behaviour makes

Everything == [s \in Workers |-> AllKinds]

Involved == {creator} \cup {u \in Users : level[u] # None}
            \cup UNION {{job[s].actor, job[s].target} : s \in Workers}
            \cup {sanction[i].user : i \in DOMAIN sanction}

Quiet(kinds, pcs) ==
  \A s \in Workers : job[s].kind \notin kinds /\ job[s].pc \notin pcs

\* Roles: the requests that move levels and members.  Invites: those that
\* come in, and deletion.  Bans and mutes: those that make, lift and look at
\* sanctions, of two users.
Bounds ==
  \/ /\ scenario = "roles" /\ now = 0
     /\ Quiet({"ban", "mute"}, {"invite", "sendMember", "sendInsert"})
  \/ /\ scenario = "invites" /\ now = 0
     /\ Quiet({"ban", "mute", "kick", "role"}, {"sendMember", "sendInsert"})
  \/ /\ scenario = "bans" /\ Cardinality(Involved \ {None}) <= 2
     /\ Quiet({"mute", "leave", "kick", "role"}, {"delete", "invite", "sendMember", "sendInsert"})
  \/ /\ scenario = "mutes" /\ Cardinality(Involved \ {None}) <= 2
     /\ Quiet({"ban", "leave", "kick", "role"}, {"delete", "invite"})

MCInit == Init /\ scenario \in {"roles", "invites", "bans", "mutes"}
MCNext == Next /\ UNCHANGED scenario /\ Bounds'
MCSpec == MCInit /\ [][MCNext]_<<vars, scenario>>

Interchangeable == Permutations(Users) \cup Permutations(Workers)
=============================================================================
