----------------------------- MODULE MCRunStore -----------------------------
(* Constants of the checked instances of RunStore. *)
EXTENDS RunStore, TLC

CONSTANTS r1, r2, w1

OneProject == [r \in Run |-> 1]
OneWorkflow == [r \in Run |-> w1]
Symmetry == Permutations(Run) \cup Permutations(Graph)
=============================================================================
