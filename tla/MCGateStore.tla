---------------------------- MODULE MCGateStore -----------------------------
(* Constants of the checked instances of GateStore. *)
EXTENDS GateStore, TLC

CONSTANTS r1, r2, w1

OneProject == [r \in Run |-> 1]
OneWorkflow == [r \in Run |-> w1]
Symmetry == Permutations(Run) \cup Permutations(Graph)
=============================================================================
