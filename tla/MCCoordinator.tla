--------------------------- MODULE MCCoordinator ----------------------------
(* Instances of Coordinator for TLC.                                       *)
EXTENDS Coordinator, TLC

CONSTANTS r1, r2, w1, w2

OneProject == [r \in Run |-> 1]
OneWorkflow == [r \in Run |-> w1]
Symmetry == Permutations(Run)

Slotted(n) == daemonLimit = n /\ \A p \in Project : projectLimit[p] = n

(* With one slot a behaviour has the bounds of the constants; with two, in *)
(* which an attach finds another runner to stop, every Run has one graph   *)
(* and one claim, and one disturbance comes in between.                    *)
OneSlot == Slotted(1)

TwoSlots ==
    /\ Slotted(2)
    /\ faults <= 1
    /\ \A r \in Run : /\ generation[r] <= 1
                      /\ graph[r] \in {NoGraph, CHOOSE g \in Graph : TRUE}

SlotsInit == CoordinatorInit /\ (OneSlot \/ TwoSlots)
SlotsNext == CoordinatorNext /\ (OneSlot' \/ TwoSlots')
SlotsSpec == SlotsInit /\ [][SlotsNext]_coordinatorVars

(* No Project changes its location: its change waits until nothing of the  *)
(* Project is at work, and stops no execution.                             *)
FixedNext == CoordinatorNext /\ closed' = {}
FixedSpec == CoordinatorInit /\ [][FixedNext]_coordinatorVars /\ Fairness
=============================================================================
