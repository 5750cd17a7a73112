------------------------------- MODULE MCAdmin -------------------------------
(***************************************************************************)
(* Instances of Admin for TLC.                                             *)
(***************************************************************************)
EXTENDS Admin, TLC

VARIABLE scenario    \* which requests a behaviour makes

Jobs(kinds) == \A s \in Workers : job[s].kind \in kinds \cup {None}

\* Accounts: claims, logins and changes of accounts.  Settings: one account
\* and its requests.  Expiry: sessions while the clock runs.
Bounds ==
  \/ scenario = "accounts" /\ now = 0 /\ Len(session) <= 1 /\ Jobs({"bootstrap", "create", "patch"})
  \/ /\ scenario = "settings" /\ now = 0 /\ Cardinality(Exists) <= 1 /\ Len(session) <= 1
     /\ Jobs({"bootstrap", "provision", "config", "template", "deleteTemplate"})
  \/ scenario = "expiry" /\ Cardinality(Exists) <= 1 /\ Jobs({"bootstrap", "logout"})

MCInit == Init /\ scenario \in {"accounts", "settings", "expiry"}
MCNext == Next /\ UNCHANGED scenario /\ Bounds'
MCSpec == MCInit /\ [][MCNext]_<<vars, scenario>>

Interchangeable == Permutations(Admins) \cup Permutations(Workers) \cup Permutations(Templates)
=============================================================================
