----------------------- MODULE MCProjectRegistry -----------------------
(* Instances of ProjectRegistry for TLC: Projects, locations, requests and *)
(* handlers are interchangeable.                                           *)
EXTENDS ProjectRegistry, TLC

Symmetric == Permutations(Project) \cup Permutations(Location)
             \cup Permutations(Request) \cup Permutations(Handler)
=============================================================================
