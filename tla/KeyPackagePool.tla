--------------------------- MODULE KeyPackagePool ---------------------------
(***************************************************************************)
(* What the delivery service promises about the key packages of a device:  *)
(* a package is available from its upload until it is given to one         *)
(* requester or dropped, and no package is ever given to two.              *)
(***************************************************************************)
EXTENDS Naturals

CONSTANT Packages

VARIABLES
  offered,     \* packages that were ever uploaded
  available,
  given        \* how often a package was handed to a requester

pool == <<offered, available, given>>

PoolInit ==
  /\ offered = {}
  /\ available = {}
  /\ given = [p \in Packages |-> 0]

Offer(P) ==
  /\ P \subseteq Packages \ offered
  /\ offered' = offered \cup P
  /\ available' = available \cup P
  /\ UNCHANGED given

Give(p) ==
  /\ p \in available
  /\ available' = available \ {p}
  /\ given' = [given EXCEPT ![p] = @ + 1]
  /\ UNCHANGED offered

Drop(P) ==
  /\ P \subseteq available
  /\ available' = available \ P
  /\ UNCHANGED <<offered, given>>

PoolNext ==
  \/ \E P \in SUBSET Packages : Offer(P) \/ Drop(P)
  \/ \E p \in Packages : Give(p)

PoolSpec == PoolInit /\ [][PoolNext]_pool
=============================================================================
