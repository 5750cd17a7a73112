----------------------------- MODULE MCDeviceLink -----------------------------
(***************************************************************************)
(* Two accounts that share the name of their root device, so that a link,  *)
(* a certificate and a revocation meet on one device key.  With one root   *)
(* key the accounts, requests, claims and workers are interchangeable.     *)
(***************************************************************************)
EXTENDS DeviceLink, TLC

CONSTANTS u1, u2, d1, d2, k1, k2

RootKeys == [u \in Users |-> IF u = u1 THEN k1 ELSE k2]
SameKeys == [u \in Users |-> k1]
RootDevices == [u \in Users |-> d1]

Interchangeable ==
  Permutations(Users) \cup Permutations(Requests) \cup Permutations(Claims)
    \cup Permutations(Workers)
=============================================================================
