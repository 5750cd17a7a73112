-------------------------------- MODULE MCHub --------------------------------
(***************************************************************************)
(* Two connections of one user and one device.                             *)
(***************************************************************************)
EXTENDS Hub

CONSTANTS c1, c2, u1, d1

VARIABLE scenario    \* which requests a behaviour makes

OneUser == [c \in Conns |-> u1]
OneDevice == [c \in Conns |-> d1]

Requests(kinds) == \A w \in Workers : job[w].kind \in kinds \cup {None}

Silent(c) == conn[c].read \notin {"limited", "message", "sending"}

\* Kicks; leaves, with one connection; revocations.  Only c1 sends
\* messages, and not beside a revocation.
\* No bound stops a step that fairness is assumed of: they keep requests,
\* messages and connections from being made.
Bounds ==
  /\ Silent(c2)
  /\ \/ scenario = "kick" /\ Requests({"kick"}) /\ device = Devices
     \/ scenario = "leave" /\ Requests({"leave"}) /\ device = Devices /\ conn[c2].read = "off"
     \/ scenario = "revoke" /\ Requests({"revoke"}) /\ member = Users /\ Silent(c1)

MCInit == Init /\ scenario \in {"kick", "leave", "revoke"}
MCNext == Next /\ UNCHANGED scenario /\ Bounds'
MCSpec == MCInit /\ [][MCNext]_<<vars, scenario>> /\ Fairness
=============================================================================
