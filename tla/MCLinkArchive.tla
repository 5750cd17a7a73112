---------------------------- MODULE MCLinkArchive ----------------------------
(***************************************************************************)
(* Instances of LinkArchive for TLC.                                       *)
(***************************************************************************)
EXTENDS LinkArchive, TLC

CONSTANTS c1, c2

\* One chunk, two candidate bodies of length one.
OneIdx == {0}
OneChunkPlans == {[chunks |-> [i \in {0} |-> c1], bytes |-> 1]}
UnitSizes == [c \in Contents |-> 1]

\* One chunk that declares one byte or two.
TwoSizedPlans == {[chunks |-> [i \in {0} |-> c1], bytes |-> n] : n \in {1, 2}}

\* Requests differ in nothing but their name.
Interchangeable == Permutations(Workers)
=============================================================================
