-------------------------- MODULE MCRevisionStore --------------------------
(* Instances of RevisionStore for TLC: two Revisions of one Workflow, with   *)
(* an object that both of them share.                                       *)
EXTENDS RevisionStore, TLC

CONSTANTS a1, a2, wa, own, shared, q1, q2

Captured == [r \in Revision |-> wa]
Manifest == [r \in Revision |-> IF r = a1 THEN {own, shared} ELSE {shared}]
Symmetric == Permutations(Runner)
=============================================================================
