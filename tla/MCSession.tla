------------------------------ MODULE MCSession ------------------------------
(***************************************************************************)
(* Instances of Session for TLC.                                           *)
(***************************************************************************)
EXTENDS Session, TLC

CONSTANTS w1, w2, k1, n1

VARIABLE scenario    \* which bounds a behaviour keeps to

\* One request signs in and connects, the other cuts off.
InAndOut == [s \in Workers |->
  IF s = w1 THEN {"register", "verify", "connect"}
  ELSE {"register", "logout", "revoke", "revokeAll", "ban", "unban"}]

OneUser ==
  /\ uses = 0
  /\ \A n \in Nonces : asked[n] \in {k1, None}
  /\ \A s \in Workers : job[s].user \in {k1, None} /\ job[s].name \in {n1, None} /\ ~job[s].invited

\* Admission: two users register, before anyone signs in.  Races: up to
\* MaxSessions sessions at one instant, of which one connects.  Cuts: sessions
\* made by registration all connect while devices are revoked.  Expiry: one
\* session while the clock runs.
SignInOnly == OneUser /\ job[w2].pc \notin {"lookup", "create"}
Bounds ==
  \/ scenario = "admission" /\ now = 0 /\ session = <<>> /\ ban = <<>>
  \/ scenario = "races" /\ now = 0 /\ SignInOnly /\ Cardinality(conn) <= 1
  \/ scenario = "cuts" /\ now = 0 /\ SignInOnly /\ timer[k1] = 0
     /\ (\A n \in Nonces : asked[n] = None) /\ job[w2].kind # "logout"
  \/ scenario = "expiry" /\ Len(session) <= 1 /\ SignInOnly /\ Cardinality(conn) <= 1

MCInit == Init /\ scenario \in {"admission", "races", "cuts", "expiry"}
MCNext == Next /\ UNCHANGED scenario /\ Bounds'
MCSpec == MCInit /\ [][MCNext]_<<vars, scenario>>

Interchangeable == Permutations(Devices) \cup Permutations(Nonces)
=============================================================================
