-------------------------- MODULE MCTransparencyLog --------------------------
(***************************************************************************)
(* TransparencyLog for TLC, with the tree algorithms it rests on.  A       *)
(* behaviour either runs the log (scenario "log"), or builds every         *)
(* sequence of at most MaxLeaves leaves from a small alphabet while the    *)
(* log rests (scenario "tree").                                            *)
(***************************************************************************)
EXTENDS TransparencyLog, RFC6962

CONSTANTS e1, e2, k1,
          Scenarios         \* a part of {"log", "tree"}

VARIABLE scenario

OneOwner == [e \in Entries |-> k1]

MCInit == LogInit /\ TreeInit /\ scenario \in Scenarios

MCNext == \/ scenario = "log" /\ LogNext /\ UNCHANGED <<scenario, added>>
          \/ scenario = "tree" /\ TreeNext /\ UNCHANGED <<scenario, logVars>>

MCSpec == MCInit /\ [][MCNext]_<<logVars, added, scenario>>
=============================================================================
