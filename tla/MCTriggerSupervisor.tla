---------------------- MODULE MCTriggerSupervisor ----------------------
(* Instances of TriggerSupervisor for TLC: all events come from the source  *)
(* of one Workflow; events, groups and callers are interchangeable.         *)
EXTENDS TriggerSupervisor, TLC

CONSTANT Watched

OneSource == [e \in Event |-> Watched]
Symmetric == Permutations(Event) \cup Permutations(Group) \cup Permutations(Caller)
=============================================================================
