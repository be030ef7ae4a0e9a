------------------------- MODULE MCDaemonLifecycle -------------------------
(***************************************************************************)
(* Small instances of DaemonLifecycle.                                     *)
(***************************************************************************)
EXTENDS DaemonLifecycle, TLC

CONSTANTS o1, o2, c1, c2

Interchangeable == Permutations({o1, o2}) \cup Permutations({c1, c2})
=============================================================================
