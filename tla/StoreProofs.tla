----------------------------- MODULE StoreProofs ----------------------------
(***************************************************************************)
(* Proofs about RunStore and GateStore, for every set of Runs, Projects,   *)
(* Workflows, package graphs and Gates and every limit.  The inductive     *)
(* invariant RunInv is kept by each transaction of the Run store, and its  *)
(* first half by the operations that no service calls as well; StoreInv    *)
(* extends it to the Askings: the Gate repository's transactions keep it   *)
(* too, no Run passes an unanswered Asking, no Verdict is lost, and the    *)
(* two repositories implement the fencing lease.                           *)
(***************************************************************************)
EXTENDS GateStore, FiniteSetTheorems, TLAPS

(* A claim row never names a generation that was not handed out.           *)
ClaimsAreOld == \A r \in Run : claim[r] <= generation[r]

(* What ties a claim, its slot, the Run's state and its place in the queue *)
(* together.  Each part needs the others: a slot names the newest claim    *)
(* because only a Run without a slot is claimed, and that is so because a  *)
(* queued Run has none.                                                    *)
SlotInv ==
    /\ ClaimsAreOld
    /\ SlotNamesTheNewestClaim
    /\ ExecutingRunsHoldTheSlots

(* The claims, and what cancellation wins against.                         *)
ClaimInv ==
    /\ TypeOK
    /\ SlotInv
    /\ OneGraphPerProject
    /\ HeldRunsAreRepairable

CancelInv == CompletedWasNotCancelled /\ CancellationIsTracked

RunInv == ClaimInv /\ CancelInv

(* What a transaction has to show: ClaimInv is kept without CancelInv,     *)
(* which the operations of the port that no service calls do not keep.     *)
Kept == ClaimInv' /\ (CancelInv => CancelInv')

USE DEF TypeOK, RunStates, Completed, Terminal, Outcomes, schedulerVars, claimVars,
        cancelVars, activityVars, limitVars, pinnedVars

-----------------------------------------------------------------------------
(* Admission, activity and configuration.                                  *)

LEMMA InsertKeeps ==
    ASSUME ClaimInv, NEW r \in Run, NEW g \in Graph, Insert(r, g),
           active' \in SUBSET Workflow,
           UNCHANGED <<reserved, schedulerVars, claimVars, result, hold, cancelVars, mode,
                       limitVars>>
    PROVE  Kept
<1>1. Cardinality(Run) \in Nat
    BY FS_CardinalityType, RunAssumption
<1>2. TypeOK'
    BY <1>1 DEF ClaimInv, Insert
<1>3. slot[r] = 0
    BY DEF ClaimInv, SlotInv, ExecutingRunsHoldTheSlots, Insert
<1>4. SlotInv'
    BY <1>3 DEF ClaimInv, SlotInv, ClaimsAreOld, SlotNamesTheNewestClaim,
          ExecutingRunsHoldTheSlots, Insert
<1>5. OneGraphPerProject'
  <2> SUFFICES ASSUME NEW s \in Run, NEW t \in Run, slot[s] # 0, slot[t] # 0,
                      ProjectOf[s] = ProjectOf[t]
               PROVE  graph'[s] = graph'[t]
      BY DEF OneGraphPerProject, Slots
  <2>1. graph[s] = graph[t]
      BY DEF ClaimInv, OneGraphPerProject, Slots
  <2> QED
      BY <1>3, <2>1 DEF ClaimInv, Insert
<1>6. HeldRunsAreRepairable'
    BY DEF ClaimInv, HeldRunsAreRepairable, Insert
<1>7. CancelInv => CancelInv'
    BY DEF ClaimInv, CancelInv, CompletedWasNotCancelled, CancellationIsTracked, Insert
<1> QED
    BY <1>2, <1>4, <1>5, <1>6, <1>7 DEF ClaimInv, Kept

LEMMA AdmitAndActivateKeeps ==
    ASSUME ClaimInv, NEW r \in Run, NEW g \in Graph, AdmitAndActivate(r, g)
    PROVE  Kept
<1>1. active' \in SUBSET Workflow
    BY RunAssumption DEF ClaimInv, AdmitAndActivate
<1>2. CASE Insert(r, g)
    BY <1>1, <1>2, InsertKeeps DEF AdmitAndActivate
<1>3. CASE UNCHANGED <<state, pinnedVars, queue>>
    BY <1>1, <1>3 DEF ClaimInv, CancelInv, Kept, SlotInv, ClaimsAreOld,
          SlotNamesTheNewestClaim, ExecutingRunsHoldTheSlots, OneGraphPerProject, Slots,
          HeldRunsAreRepairable, CompletedWasNotCancelled, CancellationIsTracked,
          AdmitAndActivate
<1> QED
    BY <1>2, <1>3 DEF AdmitAndActivate

LEMMA DeliverTriggerKeeps ==
    ASSUME ClaimInv, NEW r \in Run, NEW g \in Graph, DeliverTrigger(r, g)
    PROVE  Kept
    BY InsertKeeps DEF DeliverTrigger, ClaimInv

LEMMA StartActivityKeeps ==
    ASSUME ClaimInv, NEW w \in Workflow, StartActivity(w)
    PROVE  Kept
    BY DEF ClaimInv, CancelInv, Kept, SlotInv, ClaimsAreOld, SlotNamesTheNewestClaim,
       ExecutingRunsHoldTheSlots, OneGraphPerProject, Slots,
       HeldRunsAreRepairable, CompletedWasNotCancelled, CancellationIsTracked,
       StartActivity

LEMMA StopActivityKeeps ==
    ASSUME ClaimInv, NEW w \in Workflow, StopActivity(w)
    PROVE  Kept
    BY DEF ClaimInv, CancelInv, Kept, SlotInv, ClaimsAreOld, SlotNamesTheNewestClaim,
       ExecutingRunsHoldTheSlots, OneGraphPerProject, Slots,
       HeldRunsAreRepairable, CompletedWasNotCancelled, CancellationIsTracked,
       StopActivity

LEMMA DeactivateProjectKeeps ==
    ASSUME ClaimInv, NEW p \in Project, DeactivateProject(p)
    PROVE  Kept
    BY DEF ClaimInv, CancelInv, Kept, SlotInv, ClaimsAreOld, SlotNamesTheNewestClaim,
       ExecutingRunsHoldTheSlots, OneGraphPerProject, Slots,
       HeldRunsAreRepairable, CompletedWasNotCancelled, CancellationIsTracked,
       DeactivateProject

LEMMA SettleManualActivityKeeps ==
    ASSUME ClaimInv, NEW w \in Workflow, SettleManualActivity(w)
    PROVE  Kept
    BY DEF ClaimInv, CancelInv, Kept, SlotInv, ClaimsAreOld, SlotNamesTheNewestClaim,
       ExecutingRunsHoldTheSlots, OneGraphPerProject, Slots,
       HeldRunsAreRepairable, CompletedWasNotCancelled, CancellationIsTracked,
       SettleManualActivity

LEMMA ChangeDaemonLimitKeeps ==
    ASSUME ClaimInv, NEW n \in DaemonLimits, ChangeDaemonLimit(n)
    PROVE  Kept
    BY DEF ClaimInv, CancelInv, Kept, SlotInv, ClaimsAreOld, SlotNamesTheNewestClaim,
       ExecutingRunsHoldTheSlots, OneGraphPerProject, Slots,
       HeldRunsAreRepairable, CompletedWasNotCancelled, CancellationIsTracked,
       ChangeDaemonLimit

LEMMA ChangeProjectLimitKeeps ==
    ASSUME ClaimInv, NEW p \in Project, NEW n \in ProjectLimits, ChangeProjectLimit(p, n)
    PROVE  Kept
    BY DEF ClaimInv, CancelInv, Kept, SlotInv, ClaimsAreOld, SlotNamesTheNewestClaim,
       ExecutingRunsHoldTheSlots, OneGraphPerProject, Slots,
       HeldRunsAreRepairable, CompletedWasNotCancelled, CancellationIsTracked,
       ChangeProjectLimit

-----------------------------------------------------------------------------
(* Dispatch.                                                               *)

LEMMA ReserveNextKeeps ==
    ASSUME ClaimInv, NEW b \in SUBSET Project, ReserveNext(b)
    PROVE  Kept
<1>1. PICK p \in InTurn(Candidates(b)) :
          \E r \in Oldest(Preferred(p)) :
             reserved' = reserved \cup {r} /\ Advance(p, queue[r])
    BY DEF ReserveNext
<1>a. PICK r \in Oldest(Preferred(p)) : reserved' = reserved \cup {r} /\ Advance(p, queue[r])
    BY <1>1
<1>b. p \in Project
    BY DEF InTurn, Candidates
<1>c. r \in Selectable(p, "new") \cup Selectable(p, "continuation")
    BY <1>a DEF Oldest, Preferred
<1>2. p \in Project /\ r \in Run /\ queue[r] # "none"
    BY <1>b, <1>c DEF Selectable, InProject
<1>3. streak' \in [Project -> 0 .. ContinuationBurst]
    BY <1>a, <1>2, LimitAssumption DEF Advance, ClaimInv
<1>4. TypeOK'
    BY <1>a, <1>2, <1>3 DEF ClaimInv, ReserveNext, Advance
<1>5. SlotInv'
    BY <1>a, <1>2 DEF ClaimInv, SlotInv, ClaimsAreOld, SlotNamesTheNewestClaim,
          ExecutingRunsHoldTheSlots, ReserveNext
<1>6. OneGraphPerProject' /\ HeldRunsAreRepairable'
    BY DEF ClaimInv, OneGraphPerProject, Slots, HeldRunsAreRepairable, ReserveNext
<1>7. CancelInv => CancelInv'
    BY DEF CancelInv, CompletedWasNotCancelled, CancellationIsTracked, ReserveNext
<1> QED
    BY <1>4, <1>5, <1>6, <1>7 DEF ClaimInv, Kept

LEMMA ClaimReservedKeeps ==
    ASSUME ClaimInv, NEW r \in Run, ClaimReserved(r)
    PROVE  Kept
    BY RunAssumption, LimitAssumption DEF ClaimInv, CancelInv, Kept, SlotInv, ClaimsAreOld,
       SlotNamesTheNewestClaim, ExecutingRunsHoldTheSlots, OneGraphPerProject,
       Slots, HeldRunsAreRepairable, CompletedWasNotCancelled,
       CancellationIsTracked, ClaimReserved, TakeSlot, SlotFree, SameGraph

LEMMA ReleaseReservationKeeps ==
    ASSUME ClaimInv, NEW r \in Run, ReleaseReservation(r)
    PROVE  Kept
    BY DEF ClaimInv, CancelInv, Kept, SlotInv, ClaimsAreOld, SlotNamesTheNewestClaim,
       ExecutingRunsHoldTheSlots, OneGraphPerProject, Slots,
       HeldRunsAreRepairable, CompletedWasNotCancelled, CancellationIsTracked,
       ReleaseReservation

LEMMA HoldReservedKeeps ==
    ASSUME ClaimInv, NEW r \in Run, HoldReserved(r)
    PROVE  Kept
    BY DEF ClaimInv, CancelInv, Kept, SlotInv, ClaimsAreOld, SlotNamesTheNewestClaim,
       ExecutingRunsHoldTheSlots, OneGraphPerProject, Slots,
       HeldRunsAreRepairable, CompletedWasNotCancelled, CancellationIsTracked,
       HoldReserved

-----------------------------------------------------------------------------
(* Calls under a Run Claim.                                                *)

LEMMA CompletePhaseKeeps ==
    ASSUME ClaimInv, NEW r \in Run, NEW n \in Generations, NEW f \in Phase, CompletePhase(r, n, f)
    PROVE  Kept
    BY DEF ClaimInv, CancelInv, Kept, SlotInv, ClaimsAreOld, SlotNamesTheNewestClaim,
       ExecutingRunsHoldTheSlots, OneGraphPerProject, Slots,
       HeldRunsAreRepairable, CompletedWasNotCancelled, CancellationIsTracked,
       CompletePhase, Generations

LEMMA CompleteRunKeeps ==
    ASSUME ClaimInv, NEW r \in Run, NEW n \in Generations, NEW o \in Outcomes, CompleteRun(r, n, o)
    PROVE  Kept
<1>1. TypeOK'
      BY LimitAssumption DEF ClaimInv, CompleteRun, Authorised, ReleaseSlot,
         ReleaseClaim, Assign
<1>2. SlotInv'
      BY DEF ClaimInv, SlotInv, ClaimsAreOld, SlotNamesTheNewestClaim,
         ExecutingRunsHoldTheSlots, CompleteRun, Authorised, ReleaseSlot,
         ReleaseClaim, Assign
<1>3. OneGraphPerProject'
      BY DEF ClaimInv, OneGraphPerProject, Slots, CompleteRun, Authorised,
         ReleaseSlot, ReleaseClaim, Assign
<1>4. HeldRunsAreRepairable'
      BY DEF ClaimInv, HeldRunsAreRepairable, SlotInv, ExecutingRunsHoldTheSlots,
         CompleteRun, Authorised, ReleaseSlot, ReleaseClaim, Assign
<1>5. ASSUME CancelInv PROVE CompletedWasNotCancelled'
      BY <1>5 DEF ClaimInv, CancelInv, CompletedWasNotCancelled, SlotInv,
         ExecutingRunsHoldTheSlots, CompleteRun, Authorised, ReleaseSlot,
         ReleaseClaim, Assign
<1>6. ASSUME CancelInv PROVE CancellationIsTracked'
      BY <1>6 DEF ClaimInv, CancelInv, CancellationIsTracked, CompletedWasNotCancelled,
         SlotInv, ExecutingRunsHoldTheSlots, CompleteRun, Authorised, ReleaseSlot,
         ReleaseClaim, Assign
<1> QED
    BY <1>1, <1>2, <1>3, <1>4, <1>5, <1>6 DEF ClaimInv, CancelInv, Kept

LEMMA HoldKeeps ==
    ASSUME ClaimInv, NEW r \in Run, NEW n \in Generations, Hold(r, n)
    PROVE  Kept
<1>1. TypeOK'
      BY LimitAssumption DEF ClaimInv, Hold, Authorised, ReleaseSlot,
         ReleaseClaim, Assign
<1>2. SlotInv'
      BY DEF ClaimInv, SlotInv, ClaimsAreOld, SlotNamesTheNewestClaim,
         ExecutingRunsHoldTheSlots, Hold, Authorised, ReleaseSlot,
         ReleaseClaim, Assign
<1>3. OneGraphPerProject'
      BY DEF ClaimInv, OneGraphPerProject, Slots, Hold, Authorised, ReleaseSlot,
         ReleaseClaim, Assign
<1>4. HeldRunsAreRepairable'
      BY DEF ClaimInv, HeldRunsAreRepairable, SlotInv, ExecutingRunsHoldTheSlots,
         Hold, Authorised, ReleaseSlot, ReleaseClaim, Assign
<1>5. ASSUME CancelInv PROVE CompletedWasNotCancelled'
      BY <1>5 DEF ClaimInv, CancelInv, CompletedWasNotCancelled, SlotInv,
         ExecutingRunsHoldTheSlots, Hold, Authorised, ReleaseSlot,
         ReleaseClaim, Assign
<1>6. ASSUME CancelInv PROVE CancellationIsTracked'
      BY <1>6 DEF ClaimInv, CancelInv, CancellationIsTracked, CompletedWasNotCancelled,
         SlotInv, ExecutingRunsHoldTheSlots, Hold, Authorised, ReleaseSlot, ReleaseClaim,
         Assign
<1> QED
    BY <1>1, <1>2, <1>3, <1>4, <1>5, <1>6 DEF ClaimInv, CancelInv, Kept

LEMMA RecoverRunnerFailureKeeps ==
    ASSUME ClaimInv, NEW r \in Run, NEW n \in Generations, RecoverRunnerFailure(r, n)
    PROVE  Kept
<1>1. TypeOK'
      BY LimitAssumption DEF ClaimInv, RecoverRunnerFailure, Requeue, Authorised,
         ReleaseSlot, Assign
<1>2. SlotInv'
      BY DEF ClaimInv, SlotInv, ClaimsAreOld, SlotNamesTheNewestClaim,
         ExecutingRunsHoldTheSlots, RecoverRunnerFailure, Requeue, Authorised,
         ReleaseSlot, Assign
<1>3. OneGraphPerProject'
      BY DEF ClaimInv, OneGraphPerProject, Slots, RecoverRunnerFailure, Requeue,
         Authorised, ReleaseSlot, Assign
<1>4. HeldRunsAreRepairable'
      BY DEF ClaimInv, HeldRunsAreRepairable, SlotInv, ExecutingRunsHoldTheSlots,
         RecoverRunnerFailure, Requeue, Authorised, ReleaseSlot, Assign
<1>5. ASSUME CancelInv PROVE CompletedWasNotCancelled'
      BY <1>5 DEF ClaimInv, CancelInv, CompletedWasNotCancelled, SlotInv,
         ExecutingRunsHoldTheSlots, RecoverRunnerFailure, Requeue, Authorised,
         ReleaseSlot, Assign
<1>6. ASSUME CancelInv PROVE CancellationIsTracked'
      BY <1>6 DEF ClaimInv, CancelInv, CancellationIsTracked, CompletedWasNotCancelled,
         SlotInv, ExecutingRunsHoldTheSlots, RecoverRunnerFailure, Requeue, Authorised,
         ReleaseSlot, Assign
<1> QED
    BY <1>1, <1>2, <1>3, <1>4, <1>5, <1>6 DEF ClaimInv, CancelInv, Kept

-----------------------------------------------------------------------------
(* Recovery.                                                               *)

LEMMA RecoverInterruptedKeeps ==
    ASSUME ClaimInv, NEW d \in SUBSET Project, RecoverInterrupted(d)
    PROVE  Kept
<1>1. TypeOK'
      BY LimitAssumption DEF ClaimInv, RecoverInterrupted, Requeue, ReleaseSlot,
         Assign
<1>2. SlotInv'
      BY DEF ClaimInv, SlotInv, ClaimsAreOld, SlotNamesTheNewestClaim,
         ExecutingRunsHoldTheSlots, RecoverInterrupted, Requeue, ReleaseSlot,
         Assign
<1>3. OneGraphPerProject'
      BY DEF ClaimInv, OneGraphPerProject, Slots, RecoverInterrupted, Requeue,
         ReleaseSlot, Assign
<1>4. HeldRunsAreRepairable'
      BY DEF ClaimInv, HeldRunsAreRepairable, SlotInv, ExecutingRunsHoldTheSlots,
         RecoverInterrupted, Requeue, ReleaseSlot, Assign
<1>5. ASSUME CancelInv PROVE CompletedWasNotCancelled'
      BY <1>5 DEF ClaimInv, CancelInv, CompletedWasNotCancelled, RecoverInterrupted,
         Requeue, ReleaseSlot, Assign
<1>6. ASSUME CancelInv PROVE CancellationIsTracked'
      BY <1>6 DEF ClaimInv, CancelInv, CancellationIsTracked, CompletedWasNotCancelled,
         RecoverInterrupted, Requeue, ReleaseSlot, Assign
<1> QED
    BY <1>1, <1>2, <1>3, <1>4, <1>5, <1>6 DEF ClaimInv, CancelInv, Kept

LEMMA RecoverAfterRestartKeeps ==
    ASSUME ClaimInv, NEW p \in Project, RecoverAfterRestart(p)
    PROVE  Kept
<1>1. TypeOK'
      BY LimitAssumption DEF ClaimInv, RecoverAfterRestart, Requeue, ReleaseSlot,
         Assign, Executing, InProject
<1>2. SlotInv'
      BY DEF ClaimInv, SlotInv, ClaimsAreOld, SlotNamesTheNewestClaim,
         ExecutingRunsHoldTheSlots, RecoverAfterRestart, Requeue, ReleaseSlot,
         Assign, Executing, InProject
<1>3. OneGraphPerProject'
      BY DEF ClaimInv, OneGraphPerProject, Slots, RecoverAfterRestart, Requeue,
         ReleaseSlot, Assign, Executing, InProject
<1>4. HeldRunsAreRepairable'
      BY DEF ClaimInv, HeldRunsAreRepairable, SlotInv, ExecutingRunsHoldTheSlots,
         RecoverAfterRestart, Requeue, ReleaseSlot, Assign, Executing,
         InProject
<1>5. ASSUME CancelInv PROVE CompletedWasNotCancelled'
      BY <1>5 DEF ClaimInv, CancelInv, CompletedWasNotCancelled, RecoverAfterRestart,
         Requeue, ReleaseSlot, Assign, Executing, InProject
<1>6. ASSUME CancelInv PROVE CancellationIsTracked'
      BY <1>6 DEF ClaimInv, CancelInv, CancellationIsTracked, CompletedWasNotCancelled,
         RecoverAfterRestart, Requeue, ReleaseSlot, Assign, Executing,
         InProject
<1> QED
    BY <1>1, <1>2, <1>3, <1>4, <1>5, <1>6 DEF ClaimInv, CancelInv, Kept

LEMMA HoldAfterRestartKeeps ==
    ASSUME ClaimInv, NEW p \in Project, HoldAfterRestart(p)
    PROVE  Kept
<1>1. TypeOK'
      BY LimitAssumption DEF ClaimInv, HoldAfterRestart, ReleaseSlot, Assign,
         InProject
<1>2. SlotInv'
      BY DEF ClaimInv, SlotInv, ClaimsAreOld, SlotNamesTheNewestClaim,
         ExecutingRunsHoldTheSlots, HoldAfterRestart, ReleaseSlot, Assign,
         InProject
<1>3. OneGraphPerProject'
      BY DEF ClaimInv, OneGraphPerProject, Slots, HoldAfterRestart, ReleaseSlot,
         Assign, InProject
<1>4. HeldRunsAreRepairable'
      BY DEF ClaimInv, HeldRunsAreRepairable, SlotInv, ExecutingRunsHoldTheSlots,
         HoldAfterRestart, ReleaseSlot, Assign, InProject
<1>5. ASSUME CancelInv PROVE CompletedWasNotCancelled'
      BY <1>5 DEF ClaimInv, CancelInv, CompletedWasNotCancelled, HoldAfterRestart,
         ReleaseSlot, Assign, InProject
<1>6. ASSUME CancelInv PROVE CancellationIsTracked'
      BY <1>6 DEF ClaimInv, CancelInv, CancellationIsTracked, CompletedWasNotCancelled,
         HoldAfterRestart, ReleaseSlot, Assign, InProject
<1> QED
    BY <1>1, <1>2, <1>3, <1>4, <1>5, <1>6 DEF ClaimInv, CancelInv, Kept

LEMMA RepairHoldsKeeps ==
    ASSUME ClaimInv, NEW p \in Project, RepairHolds(p)
    PROVE  Kept
<1>1. TypeOK'
      BY DEF ClaimInv, RepairHolds, Assign, InProject
<1>2. SlotInv'
      BY DEF ClaimInv, SlotInv, ClaimsAreOld, SlotNamesTheNewestClaim,
         ExecutingRunsHoldTheSlots, HeldRunsAreRepairable, RepairHolds, Assign,
         InProject
<1>3. OneGraphPerProject'
      BY DEF ClaimInv, OneGraphPerProject, Slots, RepairHolds, Assign, InProject
<1>4. HeldRunsAreRepairable'
      BY DEF ClaimInv, HeldRunsAreRepairable, RepairHolds, Assign, InProject
<1>5. ASSUME CancelInv PROVE CompletedWasNotCancelled'
      BY <1>5 DEF ClaimInv, CancelInv, CompletedWasNotCancelled, RepairHolds, Assign,
         InProject
<1>6. ASSUME CancelInv PROVE CancellationIsTracked'
      BY <1>6 DEF ClaimInv, CancelInv, CancellationIsTracked, CompletedWasNotCancelled,
         RepairHolds, Assign, InProject
<1> QED
    BY <1>1, <1>2, <1>3, <1>4, <1>5, <1>6 DEF ClaimInv, CancelInv, Kept

-----------------------------------------------------------------------------
(* Cancellation.                                                           *)

LEMMA RequestCancellationKeeps ==
    ASSUME ClaimInv, NEW r \in Run, RequestCancellation(r)
    PROVE  Kept
<1>1. CASE /\ state[r] = "executing"
           /\ cancel' = [cancel EXCEPT ![r] = IF @ = "none" THEN "requested" ELSE @]
           /\ cleanup' = [cleanup EXCEPT ![r] = "pending"]
           /\ UNCHANGED <<state, queue, reserved, claim, slot>>
  <2>1. TypeOK'
      BY <1>1 DEF ClaimInv, RequestCancellation
  <2>2. SlotInv'
      BY <1>1 DEF ClaimInv, SlotInv, ClaimsAreOld, SlotNamesTheNewestClaim,
         ExecutingRunsHoldTheSlots, RequestCancellation
  <2>3. OneGraphPerProject'
      BY <1>1 DEF ClaimInv, OneGraphPerProject, Slots, RequestCancellation
  <2>4. HeldRunsAreRepairable'
      BY <1>1 DEF ClaimInv, HeldRunsAreRepairable, RequestCancellation
  <2>5. ASSUME CancelInv PROVE CompletedWasNotCancelled'
      BY <2>5, <1>1 DEF ClaimInv, CancelInv, CompletedWasNotCancelled, RequestCancellation
  <2>6. ASSUME CancelInv PROVE CancellationIsTracked'
      BY <2>6, <1>1 DEF ClaimInv, CancelInv, CancellationIsTracked, RequestCancellation
  <2> QED
      BY <2>1, <2>2, <2>3, <2>4, <2>5, <2>6 DEF ClaimInv, CancelInv, Kept
<1>2. CASE /\ state[r] \in {"queued", "suspended", "held"}
           /\ CancelNow({r})
           /\ cancel' = [cancel EXCEPT ![r] = "confirmed"]
           /\ cleanup' = [cleanup EXCEPT ![r] = "not-required"]
  <2>1. TypeOK'
      BY <1>2, LimitAssumption DEF ClaimInv, RequestCancellation, CancelNow,
         ReleaseSlot, ReleaseClaim, Assign
  <2>2. SlotInv'
      BY <1>2 DEF ClaimInv, SlotInv, ClaimsAreOld, SlotNamesTheNewestClaim,
         ExecutingRunsHoldTheSlots, RequestCancellation, CancelNow,
         ReleaseSlot, ReleaseClaim, Assign
  <2>3. OneGraphPerProject'
      BY <1>2 DEF ClaimInv, OneGraphPerProject, Slots, RequestCancellation,
         CancelNow, ReleaseSlot, ReleaseClaim, Assign
  <2>4. HeldRunsAreRepairable'
      BY <1>2 DEF ClaimInv, HeldRunsAreRepairable, RequestCancellation,
         CancelNow, ReleaseSlot, ReleaseClaim, Assign
  <2>5. ASSUME CancelInv PROVE CompletedWasNotCancelled'
      BY <2>5, <1>2 DEF ClaimInv, CancelInv, CompletedWasNotCancelled, RequestCancellation,
         CancelNow, ReleaseSlot, ReleaseClaim, Assign
  <2>6. ASSUME CancelInv PROVE CancellationIsTracked'
      BY <2>6, <1>2 DEF ClaimInv, CancelInv, CancellationIsTracked, RequestCancellation,
         CancelNow, ReleaseSlot, ReleaseClaim, Assign
  <2> QED
      BY <2>1, <2>2, <2>3, <2>4, <2>5, <2>6 DEF ClaimInv, CancelInv, Kept
<1> QED
    BY <1>1, <1>2 DEF RequestCancellation

LEMMA ForceStopKeeps ==
    ASSUME ClaimInv, NEW w \in Workflow, ForceStop(w)
    PROVE  Kept
    BY DEF ClaimInv, CancelInv, Kept, SlotInv, ClaimsAreOld, SlotNamesTheNewestClaim,
       ExecutingRunsHoldTheSlots, OneGraphPerProject, Slots,
       HeldRunsAreRepairable, CompletedWasNotCancelled, CancellationIsTracked,
       ForceStop, ForceStopTargets, CancelNow, ReleaseSlot, ReleaseClaim,
       Assign

LEMMA ConfirmRunnerStoppedKeeps ==
    ASSUME ClaimInv, NEW p \in Project, NEW T \in SUBSET CancelTargets(p),
           NEW o \in {"confirmed", "fault"}, ConfirmRunnerStopped(p, T, o)
    PROVE  Kept
<1>1. TypeOK'
      BY LimitAssumption DEF ClaimInv, ConfirmRunnerStopped, CancelTargets,
         Executing, InProject, ReleaseSlot, ReleaseClaim, Assign
<1>2. SlotInv'
      BY DEF ClaimInv, SlotInv, ClaimsAreOld, SlotNamesTheNewestClaim,
         ExecutingRunsHoldTheSlots, ConfirmRunnerStopped, CancelTargets,
         Executing, InProject, ReleaseSlot, ReleaseClaim, Assign
<1>3. OneGraphPerProject'
      BY DEF ClaimInv, OneGraphPerProject, Slots, ConfirmRunnerStopped,
         CancelTargets, Executing, InProject, ReleaseSlot, ReleaseClaim, Assign
<1>4. HeldRunsAreRepairable'
      BY DEF ClaimInv, HeldRunsAreRepairable, ConfirmRunnerStopped,
         CancelTargets, Executing, InProject, ReleaseSlot, ReleaseClaim, Assign
<1>5. ASSUME CancelInv PROVE CompletedWasNotCancelled'
      BY <1>5 DEF ClaimInv, CancelInv, CompletedWasNotCancelled, ConfirmRunnerStopped,
         CancelTargets, Executing, InProject, ReleaseSlot, ReleaseClaim, Assign
<1>6. ASSUME CancelInv PROVE CancellationIsTracked'
      BY <1>6 DEF ClaimInv, CancelInv, CancellationIsTracked, CompletedWasNotCancelled,
         ConfirmRunnerStopped, CancelTargets, Executing, InProject,
         ReleaseSlot, ReleaseClaim, Assign
<1> QED
    BY <1>1, <1>2, <1>3, <1>4, <1>5, <1>6 DEF ClaimInv, CancelInv, Kept

LEMMA RecordCleanupFaultKeeps ==
    ASSUME ClaimInv, NEW T \in SUBSET Run, RecordCleanupFault(T)
    PROVE  Kept
    BY DEF ClaimInv, CancelInv, Kept, SlotInv, ClaimsAreOld, SlotNamesTheNewestClaim,
       ExecutingRunsHoldTheSlots, OneGraphPerProject, Slots,
       HeldRunsAreRepairable, CompletedWasNotCancelled, CancellationIsTracked,
       RecordCleanupFault, Assign

-----------------------------------------------------------------------------
(* The invariant.                                                          *)

LEMMA RunInvInit == Init => RunInv
<1> SUFFICES ASSUME Init PROVE RunInv
    OBVIOUS
<1>1. TypeOK
    BY LimitAssumption DEF Init
<1>2. SlotInv /\ OneGraphPerProject
    BY DEF Init, SlotInv, ClaimsAreOld, SlotNamesTheNewestClaim,
       ExecutingRunsHoldTheSlots, OneGraphPerProject, Slots
<1>3. HeldRunsAreRepairable /\ CompletedWasNotCancelled /\ CancellationIsTracked
    BY DEF Init, HeldRunsAreRepairable, CompletedWasNotCancelled, CancellationIsTracked
<1> QED
    BY <1>1, <1>2, <1>3 DEF RunInv, ClaimInv, CancelInv

LEMMA ClaimInvNext ==
    ASSUME ClaimInv, Next
    PROVE  Kept
<1>1. CASE AdmissionStep
    BY <1>1, AdmitAndActivateKeeps, DeliverTriggerKeeps DEF AdmissionStep
<1>2. CASE ActivityStep
    BY <1>2, StartActivityKeeps, StopActivityKeeps, DeactivateProjectKeeps,
       SettleManualActivityKeeps DEF ActivityStep
<1>3. CASE DispatchStep
    BY <1>3, ReserveNextKeeps, ClaimReservedKeeps, ReleaseReservationKeeps,
       HoldReservedKeeps DEF DispatchStep
<1>4. CASE RunnerStep
    BY <1>4, CompletePhaseKeeps, CompleteRunKeeps, HoldKeeps, RecoverRunnerFailureKeeps
       DEF RunnerStep
<1>5. CASE RecoveryStep
    BY <1>5, RecoverInterruptedKeeps, RecoverAfterRestartKeeps, HoldAfterRestartKeeps,
       RepairHoldsKeeps DEF RecoveryStep
<1>6. CASE CancelStep
  <2>1. \A p \in Project : CancelTargets(p) \subseteq Run
      BY DEF CancelTargets, InProject
  <2> QED
      BY <1>6, <2>1, RequestCancellationKeeps, ForceStopKeeps, ConfirmRunnerStoppedKeeps,
         RecordCleanupFaultKeeps DEF CancelStep
<1>7. CASE ConfigurationStep
    BY <1>7, ChangeDaemonLimitKeeps, ChangeProjectLimitKeeps DEF ConfigurationStep
<1> QED
    BY <1>1, <1>2, <1>3, <1>4, <1>5, <1>6, <1>7 DEF Next

LEMMA RunInvNext ==
    ASSUME RunInv, Next
    PROVE  RunInv'
    BY ClaimInvNext DEF RunInv, Kept

LEMMA RunInvStutter ==
    ASSUME RunInv, UNCHANGED vars
    PROVE  RunInv'
    BY DEF vars, RunInv, ClaimInv, CancelInv, SlotInv, ClaimsAreOld,
       SlotNamesTheNewestClaim, ExecutingRunsHoldTheSlots, OneGraphPerProject, Slots,
       HeldRunsAreRepairable, CompletedWasNotCancelled, CancellationIsTracked

(* RunInv, and with it each of its parts, holds of every behaviour of the  *)
(* Run store alone.                                                        *)
THEOREM RunInvariant == Spec => []RunInv
<1>1. RunInv /\ [Next]_vars => RunInv'
    BY RunInvNext, RunInvStutter
<1> QED
    BY RunInvInit, <1>1, PTL DEF Spec

-----------------------------------------------------------------------------
(* The operations of the port that no service calls.  They keep ClaimInv,  *)
(* but not CancelInv: failQueuedRun ends a Run whose cancellation is asked *)
(* for.  That claimNext hands out no parked Run needs that what is in the  *)
(* queue is queued, which only the Gate store breaks, when the Deadline of *)
(* a cancelled Run's Asking passes.                                        *)
QueuedRunsWait == \A r \in Run : queue[r] # "none" => state[r] = "queued"

DirectInv == ClaimInv /\ QueuedRunsWait

LEMMA ClaimKeeps ==
    ASSUME DirectInv, NEW r \in Run, Claim(r)
    PROVE  ClaimInv'
<1>1. hold[r] # "recovery"
    BY DEF DirectInv, ClaimInv, HeldRunsAreRepairable, Claim
<1> QED
    BY <1>1, RunAssumption, LimitAssumption DEF DirectInv, ClaimInv, SlotInv, ClaimsAreOld,
       SlotNamesTheNewestClaim, ExecutingRunsHoldTheSlots, OneGraphPerProject, Slots,
       HeldRunsAreRepairable, Claim, TakeSlot, SlotFree, SameGraph

LEMMA ClaimNextKeeps ==
    ASSUME DirectInv, ClaimNext
    PROVE  ClaimInv'
<1>p. PICK p \in Project : \E r \in Oldest(Preferred(p)) : TakeSlot(r) /\ Advance(p, queue[r])
    BY DEF ClaimNext, InTurn
<1>1. PICK r \in Oldest(Preferred(p)) : TakeSlot(r) /\ Advance(p, queue[r])
    BY <1>p
<1>2. r \in Selectable(p, "new") \cup Selectable(p, "continuation")
    BY DEF Oldest, Preferred
<1>3. r \in Run /\ queue[r] # "none" /\ r \notin reserved /\ SameGraph(r, Slots)
    BY <1>2 DEF Selectable, InProject, SameGraph
<1>4. state[r] = "queued" /\ hold[r] # "recovery"
    BY <1>3 DEF DirectInv, QueuedRunsWait, ClaimInv, HeldRunsAreRepairable
<1>5. streak' \in [Project -> 0 .. ContinuationBurst]
    BY <1>1, LimitAssumption DEF Advance, DirectInv, ClaimInv
<1>6. TypeOK'
    BY <1>1, <1>3, <1>5, LimitAssumption DEF DirectInv, ClaimInv, ClaimNext, TakeSlot, Advance
<1>7. SlotInv'
    BY <1>1, <1>3, LimitAssumption DEF DirectInv, ClaimInv, SlotInv, ClaimsAreOld,
       SlotNamesTheNewestClaim, ExecutingRunsHoldTheSlots, ClaimNext, TakeSlot
<1>8. OneGraphPerProject'
    BY <1>1, <1>3, RunAssumption, LimitAssumption DEF DirectInv, ClaimInv,
       OneGraphPerProject, Slots, SameGraph, TakeSlot
<1>9. HeldRunsAreRepairable'
    BY <1>1, <1>3, <1>4 DEF DirectInv, ClaimInv, HeldRunsAreRepairable, TakeSlot
<1> QED
    BY <1>6, <1>7, <1>8, <1>9 DEF ClaimInv

LEMMA SuspendKeeps ==
    ASSUME DirectInv, NEW r \in Run, NEW g \in Generations, Suspend(r, g)
    PROVE  ClaimInv'
    BY LimitAssumption DEF DirectInv, ClaimInv, SlotInv, ClaimsAreOld,
       SlotNamesTheNewestClaim, ExecutingRunsHoldTheSlots, OneGraphPerProject, Slots,
       HeldRunsAreRepairable, Suspend, Authorised, ReleaseSlot, ReleaseClaim, Assign

LEMMA ContinueRunKeeps ==
    ASSUME DirectInv, NEW r \in Run, ContinueRun(r)
    PROVE  ClaimInv'
    BY DEF DirectInv, ClaimInv, SlotInv, ClaimsAreOld, SlotNamesTheNewestClaim,
       ExecutingRunsHoldTheSlots, OneGraphPerProject, Slots, HeldRunsAreRepairable,
       ContinueRun

LEMMA FailQueuedRunKeeps ==
    ASSUME DirectInv, NEW r \in Run, FailQueuedRun(r)
    PROVE  ClaimInv'
    BY DEF DirectInv, ClaimInv, SlotInv, ClaimsAreOld, SlotNamesTheNewestClaim,
       ExecutingRunsHoldTheSlots, OneGraphPerProject, Slots, HeldRunsAreRepairable,
       FailQueuedRun

LEMMA QueueKeeps ==
    ASSUME DirectInv, Next \/ DirectStep
    PROVE  QueuedRunsWait'
<1> USE DEF DirectInv, ClaimInv, QueuedRunsWait
<1>1. CASE AdmissionStep \/ ActivityStep \/ ConfigurationStep
    BY <1>1 DEF AdmissionStep, AdmitAndActivate, DeliverTrigger, Insert, ActivityStep,
       StartActivity, StopActivity, DeactivateProject, SettleManualActivity,
       ConfigurationStep, ChangeDaemonLimit, ChangeProjectLimit
<1>2. CASE DispatchStep
    BY <1>2 DEF DispatchStep, ReserveNext, ClaimReserved, TakeSlot, ReleaseReservation,
       HoldReserved
<1>3. CASE RunnerStep
    BY <1>3 DEF RunnerStep, SlotInv, ExecutingRunsHoldTheSlots, CompletePhase, CompleteRun,
       Hold, RecoverRunnerFailure, Requeue, Authorised, Assign
<1>4. CASE RecoveryStep
  <2>1. CASE \E d \in SUBSET Project : RecoverInterrupted(d)
      BY <2>1 DEF RecoverInterrupted, Requeue, Assign
  <2>2. CASE \E p \in Project : RecoverAfterRestart(p)
      BY <2>2 DEF RecoverAfterRestart, Requeue, Assign, Executing, InProject
  <2>3. CASE \E p \in Project : HoldAfterRestart(p)
      BY <2>3 DEF HoldAfterRestart, Assign, InProject
  <2>4. CASE \E p \in Project : RepairHolds(p)
      BY <2>4 DEF RepairHolds, Assign, InProject
  <2> QED
      BY <1>4, <2>1, <2>2, <2>3, <2>4 DEF RecoveryStep
<1>5. CASE CancelStep
  <2>1. CASE \E r \in Run : RequestCancellation(r)
      BY <2>1 DEF RequestCancellation, CancelNow, Assign
  <2>2. CASE \E w \in Workflow : ForceStop(w)
      BY <2>2 DEF ForceStop, CancelNow, Assign
  <2>3. CASE \E p \in Project : \E T \in SUBSET CancelTargets(p), o \in {"confirmed", "fault"} :
                ConfirmRunnerStopped(p, T, o)
      BY <2>3 DEF SlotInv, ExecutingRunsHoldTheSlots, ConfirmRunnerStopped, Executing,
         InProject, Assign
  <2>4. CASE \E T \in SUBSET Run : RecordCleanupFault(T)
      BY <2>4 DEF RecordCleanupFault
  <2>5. \A p \in Project : CancelTargets(p) \subseteq Run
      BY DEF CancelTargets, InProject
  <2> QED
      BY <1>5, <2>1, <2>2, <2>3, <2>4, <2>5 DEF CancelStep
<1>6. CASE DirectStep
  <2>1. CASE \E r \in Run : \E g \in Graph : Admit(r, g)
      BY <2>1 DEF Admit, Insert
  <2>2. CASE \E r \in Run : \E g \in Generations : Suspend(r, g)
      BY <2>2 DEF Suspend, Authorised, SlotInv, ExecutingRunsHoldTheSlots
  <2>3. CASE \E r \in Run : Claim(r) \/ ContinueRun(r) \/ FailQueuedRun(r)
      BY <2>3 DEF Claim, TakeSlot, ContinueRun, FailQueuedRun
  <2>4. CASE ClaimNext
      BY <2>4 DEF ClaimNext, TakeSlot
  <2> QED
      BY <1>6, <2>1, <2>2, <2>3, <2>4 DEF DirectStep
<1> QED
    BY <1>1, <1>2, <1>3, <1>4, <1>5, <1>6 DEF Next

LEMMA DirectInvNext ==
    ASSUME DirectInv, [Next \/ DirectStep]_vars
    PROVE  DirectInv'
<1>1. CASE Next
    BY <1>1, ClaimInvNext, QueueKeeps DEF DirectInv, Kept
<1>2. CASE DirectStep
  <2>1. ASSUME NEW r \in Run, NEW g \in Graph, Admit(r, g)
        PROVE  ClaimInv'
      BY <2>1, InsertKeeps DEF Admit, DirectInv, ClaimInv, Kept
  <2> QED
      BY <1>2, <2>1, SuspendKeeps, ClaimKeeps, ContinueRunKeeps, FailQueuedRunKeeps,
         ClaimNextKeeps, QueueKeeps DEF DirectStep, DirectInv
<1>3. CASE UNCHANGED vars
    BY <1>3 DEF vars, DirectInv, QueuedRunsWait, ClaimInv, SlotInv, ClaimsAreOld,
       SlotNamesTheNewestClaim, ExecutingRunsHoldTheSlots, OneGraphPerProject, Slots,
       HeldRunsAreRepairable
<1> QED
    BY <1>1, <1>2, <1>3

LEMMA DirectStaysSound == DirectSpec => []DirectInv
<1>1. Init => QueuedRunsWait
    BY DEF Init, QueuedRunsWait
<1>2. Init => DirectInv
    BY <1>1, RunInvInit DEF DirectInv, RunInv
<1> QED
    BY <1>2, DirectInvNext, PTL DEF DirectSpec

(* The slots are the executing Runs, and none of them waits to be          *)
(* dispatched as well, also for a caller that uses the port's operations   *)
(* around the scheduler: claim, claimNext, suspend, continueRun,           *)
(* failQueuedRun and admit.                                                *)
THEOREM DirectCallersKeepTheSlots == DirectSpec => []ExecutingRunsHoldTheSlots
<1>1. DirectInv => ExecutingRunsHoldTheSlots
    BY DEF DirectInv, ClaimInv, SlotInv
<1> QED
    BY <1>1, DirectStaysSound, PTL

(* And they execute one package graph in a Project.                        *)
THEOREM DirectCallersRunOneGraph == DirectSpec => []OneGraphPerProject
<1>1. DirectInv => OneGraphPerProject
    BY DEF DirectInv, ClaimInv
<1> QED
    BY <1>1, DirectStaysSound, PTL

-----------------------------------------------------------------------------
(* What a transaction does to the claims.                                  *)

(* A claim is handed out, a Run completes, a Phase result is recorded; or  *)
(* claims and slots are at most released.                                  *)
ReleasesAtMost ==
    /\ generation' = generation
    /\ result' = result
    /\ \A r \in Run : /\ slot'[r] \in {slot[r], 0}
                      /\ claim'[r] \in {claim[r], 0}
                      /\ state[r] \in Completed => state'[r] = state[r]
                      /\ state'[r] \in Completed => state[r] \in Completed

ClaimEffect ==
    \/ \E r \in Run : ClaimReserved(r)
    \/ \E r \in Run, g \in Generations, outcome \in Outcomes : CompleteRun(r, g, outcome)
    \/ \E r \in Run, g \in Generations, f \in Phase : CompletePhase(r, g, f)
    \/ ReleasesAtMost

LEMMA NextClaimEffect ==
    ASSUME RunInv, Next
    PROVE  ClaimEffect
<1>1. CASE AdmissionStep
    BY <1>1 DEF AdmissionStep, AdmitAndActivate, DeliverTrigger, Insert, RunInv, ClaimInv,
       CancelInv, ClaimEffect, ReleasesAtMost
<1>2. CASE ActivityStep
    BY <1>2 DEF ActivityStep, StartActivity, StopActivity, DeactivateProject,
       SettleManualActivity,
       ClaimEffect, ReleasesAtMost
<1>3. CASE DispatchStep
    BY <1>3 DEF DispatchStep, ReserveNext, ReleaseReservation, HoldReserved,
       ClaimEffect, ReleasesAtMost
<1>4. CASE RunnerStep
  <2> SUFFICES ASSUME NEW r \in Run, NEW g \in Generations,
                      Hold(r, g) \/ RecoverRunnerFailure(r, g)
               PROVE  ReleasesAtMost
      BY <1>4 DEF RunnerStep, ClaimEffect
  <2>1. state[r] = "executing"
      BY DEF RunInv, ClaimInv, CancelInv, SlotInv, ExecutingRunsHoldTheSlots, Hold,
         RecoverRunnerFailure, Authorised
  <2> QED
      BY <2>1 DEF RunInv, ClaimInv, CancelInv, Hold, RecoverRunnerFailure, Requeue,
         ReleaseSlot, ReleaseClaim, Assign, ReleasesAtMost
<1>5. CASE RecoveryStep
  <2>1. CASE \E d \in SUBSET Project : RecoverInterrupted(d)
      BY <2>1 DEF RecoverInterrupted, Requeue, ReleaseSlot, Assign, RunInv, ClaimInv,
         CancelInv, ClaimEffect, ReleasesAtMost
  <2>2. CASE \E p \in Project : RecoverAfterRestart(p)
      BY <2>2 DEF RecoverAfterRestart, Requeue, ReleaseSlot, Assign, Executing,
         InProject, RunInv, ClaimInv, CancelInv, ClaimEffect, ReleasesAtMost
  <2>3. CASE \E p \in Project : HoldAfterRestart(p)
      BY <2>3 DEF HoldAfterRestart, ReleaseSlot, Assign, InProject, RunInv, ClaimInv,
         CancelInv, ClaimEffect, ReleasesAtMost
  <2>4. ASSUME NEW p \in Project, RepairHolds(p)
        PROVE  ReleasesAtMost
    <3>1. \A r \in Run : hold[r] = "recovery" => state[r] \notin Completed
        BY DEF RunInv, ClaimInv, CancelInv, HeldRunsAreRepairable
    <3>2. \A r \in Run : state'[r] = IF r \in InProject(p) /\ hold[r] = "recovery"
                                   THEN "queued" ELSE state[r]
        BY <2>4 DEF RepairHolds, Assign, RunInv, ClaimInv, CancelInv
    <3> QED
        BY <2>4, <3>1, <3>2 DEF RepairHolds, ReleasesAtMost
  <2> QED
      BY <1>5, <2>1, <2>2, <2>3, <2>4 DEF RecoveryStep, ClaimEffect
<1>6. CASE CancelStep
  <2>1. CASE \E r \in Run : RequestCancellation(r)
      BY <2>1 DEF RequestCancellation, CancelNow, ReleaseSlot, ReleaseClaim, Assign,
         RunInv, ClaimInv, CancelInv, ClaimEffect, ReleasesAtMost
  <2>2. CASE \E w \in Workflow : ForceStop(w)
      BY <2>2 DEF ForceStop, ForceStopTargets, CancelNow, ReleaseSlot, ReleaseClaim,
         Assign, RunInv, ClaimInv, CancelInv, ClaimEffect, ReleasesAtMost
  <2>3. ASSUME NEW p \in Project, NEW T \in SUBSET CancelTargets(p),
               NEW outcome \in {"confirmed", "fault"}, ConfirmRunnerStopped(p, T, outcome)
        PROVE  ReleasesAtMost
      BY <2>3 DEF ConfirmRunnerStopped, Executing, InProject, ReleaseSlot, ReleaseClaim,
         Assign, RunInv, ClaimInv, CancelInv, ReleasesAtMost
  <2>4. ASSUME NEW T, RecordCleanupFault(T)
        PROVE  ReleasesAtMost
      BY <2>4 DEF RecordCleanupFault, ReleasesAtMost
  <2> QED
      BY <1>6, <2>1, <2>2, <2>3, <2>4 DEF CancelStep, ClaimEffect
<1>7. CASE ConfigurationStep
    BY <1>7 DEF ConfigurationStep, ChangeDaemonLimit, ChangeProjectLimit, ClaimEffect,
       ReleasesAtMost
<1> QED
    BY <1>1, <1>2, <1>3, <1>4, <1>5, <1>6, <1>7 DEF Next

-----------------------------------------------------------------------------
(* What every transaction with such an effect satisfies.                   *)

LEMMA ClaimedAfresh ==
    ASSUME RunInv, NEW r \in Run, ClaimReserved(r)
    PROVE  /\ r \notin Slots /\ state[r] = "queued"
           /\ generation' = [generation EXCEPT ![r] = @ + 1]
           /\ slot' = [slot EXCEPT ![r] = generation[r] + 1]
           /\ claim' = [claim EXCEPT ![r] = generation[r] + 1]
           /\ state' = [state EXCEPT ![r] = "executing"]
           /\ result' = result
    BY DEF ClaimReserved, TakeSlot, Slots

LEMMA CompletedUnderClaim ==
    ASSUME RunInv, NEW r \in Run, NEW g \in Generations, NEW outcome \in Outcomes,
           CompleteRun(r, g, outcome)
    PROVE  /\ slot[r] # 0 /\ state[r] = "executing"
           /\ generation' = generation
           /\ slot' = [slot EXCEPT ![r] = 0]
           /\ claim' = [claim EXCEPT ![r] = 0]
           /\ state' = [state EXCEPT ![r] = outcome]
           /\ result' = result
<1>1. slot[r] # 0 /\ state[r] = "executing"
    BY DEF RunInv, ClaimInv, CancelInv, SlotInv, ExecutingRunsHoldTheSlots, CompleteRun,
       Authorised
<1> QED
    BY <1>1 DEF RunInv, ClaimInv, CancelInv, CompleteRun, ReleaseSlot, ReleaseClaim, Assign

LEMMA RecordedUnderClaim ==
    ASSUME RunInv, NEW r \in Run, NEW g \in Generations, NEW f \in Phase,
           CompletePhase(r, g, f)
    PROVE  /\ g = generation[r] /\ state[r] = "executing"
           /\ result' = [result EXCEPT ![r][f] = IF @ = 0 THEN g ELSE @]
           /\ UNCHANGED <<state, claimVars>>
    BY DEF RunInv, ClaimInv, CancelInv, SlotInv, SlotNamesTheNewestClaim,
       ExecutingRunsHoldTheSlots, CompletePhase, Authorised

LEMMA FencingStep ==
    ASSUME RunInv, ClaimEffect,
           NEW r \in Run, NEW g \in 1 .. generation[r], ~Authorised(r, g)
    PROVE  ~Authorised(r, g)'
<1>1. ASSUME NEW s \in Run, ClaimReserved(s)
      PROVE  ~Authorised(r, g)'
    BY <1>1, ClaimedAfresh DEF RunInv, ClaimInv, CancelInv, Authorised
<1>2. ASSUME NEW s \in Run, NEW n \in Generations, NEW outcome \in Outcomes,
             CompleteRun(s, n, outcome)
      PROVE  ~Authorised(r, g)'
    BY <1>2, CompletedUnderClaim DEF RunInv, ClaimInv, CancelInv, Authorised
<1>3. ASSUME NEW s \in Run, NEW n \in Generations, NEW f \in Phase,
             CompletePhase(s, n, f)
      PROVE  ~Authorised(r, g)'
    BY <1>3, RecordedUnderClaim DEF Authorised
<1>4. CASE ReleasesAtMost
    BY <1>4 DEF ReleasesAtMost, Authorised
<1> QED
    BY <1>1, <1>2, <1>3, <1>4 DEF ClaimEffect

LEMMA FinalityStep ==
    ASSUME RunInv, ClaimEffect, NEW r \in Run, state[r] \in Completed
    PROVE  state'[r] = state[r]
<1>1. ASSUME NEW s \in Run, ClaimReserved(s)
      PROVE  state'[r] = state[r]
    BY <1>1, ClaimedAfresh DEF RunInv, ClaimInv, CancelInv
<1>2. ASSUME NEW s \in Run, NEW n \in Generations, NEW outcome \in Outcomes,
             CompleteRun(s, n, outcome)
      PROVE  state'[r] = state[r]
    BY <1>2, CompletedUnderClaim DEF RunInv, ClaimInv, CancelInv
<1>3. ASSUME NEW s \in Run, NEW n \in Generations, NEW f \in Phase,
             CompletePhase(s, n, f)
      PROVE  state'[r] = state[r]
    BY <1>3, RecordedUnderClaim
<1>4. CASE ReleasesAtMost
    BY <1>4 DEF ReleasesAtMost
<1> QED
    BY <1>1, <1>2, <1>3, <1>4 DEF ClaimEffect

LEMMA ResultStep ==
    ASSUME RunInv, ClaimEffect, NEW r \in Run, NEW f \in Phase,
           result'[r][f] # result[r][f]
    PROVE  result[r][f] = 0 /\ result'[r][f] = generation[r] /\ state[r] = "executing"
<1>1. PICK s \in Run, g \in Generations, h \in Phase : CompletePhase(s, g, h)
    BY ClaimedAfresh, CompletedUnderClaim DEF ClaimEffect, ReleasesAtMost
<1>2. /\ g = generation[s] /\ state[s] = "executing"
      /\ result' = [result EXCEPT ![s][h] = IF @ = 0 THEN g ELSE @]
    BY <1>1, RecordedUnderClaim
<1>3. s = r /\ h = f
    BY <1>2 DEF RunInv, ClaimInv, CancelInv
<1> QED
    BY <1>2, <1>3 DEF RunInv, ClaimInv, CancelInv

(* The slots grow only by a claim, which read the limits in force.         *)
LEMMA LimitStep ==
    ASSUME RunInv, ClaimEffect, NEW r \in Run, slot[r] = 0, slot'[r] # 0
    PROVE  /\ Cardinality(Slots)' <= daemonLimit
           /\ Cardinality(Slots \cap InProject(ProjectOf[r]))' <= projectLimit[ProjectOf[r]]
<1>1. ClaimReserved(r)
  <2>1. ASSUME NEW s \in Run, ClaimReserved(s)
        PROVE  s = r
      BY <2>1, ClaimedAfresh DEF RunInv, ClaimInv, CancelInv
  <2>2. ~\E s \in Run, g \in Generations, o \in Outcomes : CompleteRun(s, g, o)
      BY CompletedUnderClaim DEF RunInv, ClaimInv, CancelInv
  <2>3. ~\E s \in Run, g \in Generations, f \in Phase : CompletePhase(s, g, f)
      BY RecordedUnderClaim
  <2>4. ~ReleasesAtMost
      BY DEF ReleasesAtMost
  <2> QED
      BY <2>1, <2>2, <2>3, <2>4 DEF ClaimEffect
<1>2. Slots' = Slots \cup {r}
    BY <1>1, ClaimedAfresh DEF RunInv, ClaimInv, CancelInv, Slots
<1>3. InProject(ProjectOf[r])' = InProject(ProjectOf[r])
    BY DEF InProject
<1>4. IsFiniteSet(Slots) /\ IsFiniteSet(Slots \cap InProject(ProjectOf[r]))
    BY RunAssumption, FS_Subset DEF Slots
<1>5. /\ Cardinality(Slots \cup {r}) = Cardinality(Slots) + 1
      /\ Cardinality((Slots \cap InProject(ProjectOf[r])) \cup {r})
           = Cardinality(Slots \cap InProject(ProjectOf[r])) + 1
    BY <1>4, FS_AddElement DEF Slots
<1>6. (Slots \cup {r}) \cap InProject(ProjectOf[r])
         = (Slots \cap InProject(ProjectOf[r])) \cup {r}
    BY DEF InProject
<1>7. /\ Cardinality(Slots) \in Nat
      /\ Cardinality(Slots \cap InProject(ProjectOf[r])) \in Nat
    BY <1>4, FS_CardinalityType
<1>8. daemonLimit \in Nat /\ projectLimit[ProjectOf[r]] \in Nat
    BY LimitAssumption, RunAssumption DEF RunInv, ClaimInv, CancelInv
<1>9. /\ Cardinality(Slots) < daemonLimit
      /\ Cardinality(Slots \cap InProject(ProjectOf[r])) < projectLimit[ProjectOf[r]]
    BY <1>1 DEF ClaimReserved, SlotFree
<1>10. Cardinality(Slots)' <= daemonLimit
  <2>1. Cardinality(Slots)' = Cardinality(Slots \cup {r})
      BY <1>2
  <2> QED
      BY <2>1, <1>5, <1>7, <1>8, <1>9
<1>11. Cardinality(Slots \cap InProject(ProjectOf[r]))' <= projectLimit[ProjectOf[r]]
  <2>1. (Slots \cap InProject(ProjectOf[r]))' = (Slots \cap InProject(ProjectOf[r])) \cup {r}
      BY <1>2, <1>3, <1>6
  <2>2. Cardinality(Slots \cap InProject(ProjectOf[r]))'
          = Cardinality((Slots \cap InProject(ProjectOf[r])) \cup {r})
      BY <2>1
  <2> QED
      BY <2>2, <1>5, <1>7, <1>8, <1>9
<1> QED
    BY <1>10, <1>11

-----------------------------------------------------------------------------
(* The limits.                                                             *)

(* However dispatches, recoveries and changes of the limits interleave, a  *)
(* Run is claimed only within the limits in force.                         *)
THEOREM ClaimsRespectTheLimits == Spec => DispatchWithinLimits
<1>1. ASSUME RunInv, [Next]_vars, NEW r \in Run, slot[r] = 0 /\ slot'[r] # 0
      PROVE  /\ Cardinality(Slots)' <= daemonLimit
             /\ Cardinality(Slots \cap InProject(ProjectOf[r]))' <= projectLimit[ProjectOf[r]]
  <2>1. Next
      BY <1>1 DEF vars
  <2> QED
      BY <1>1, <2>1, NextClaimEffect, LimitStep
<1>2. RunInv /\ [Next]_vars =>
        [\A r \in Run : slot[r] = 0 /\ slot'[r] # 0 =>
            /\ Cardinality(Slots)' <= daemonLimit
            /\ Cardinality(Slots \cap InProject(ProjectOf[r]))' <= projectLimit[ProjectOf[r]]]_vars
    BY <1>1
<1> QED
    BY <1>2, RunInvariant, PTL DEF Spec, DispatchWithinLimits

-----------------------------------------------------------------------------
(* The Gate repository.                                                    *)

(* How far an Asking and its wake-up can be.                               *)
AskingsAndWakeups ==
    \A r \in Run, k \in Gate :
        /\ asking[r][k] \in {"none", "unanswered"} =>
              wakeup[r][k] = "none" /\ ~inability[r][k]
        /\ asking[r][k] = "recorded" =>
              \/ wakeup[r][k] = "pending" /\ ~inability[r][k]
              \/ wakeup[r][k] = "none" /\ inability[r][k]
        /\ asking[r][k] = "applied" => wakeup[r][k] = "applied" /\ ~inability[r][k]
        /\ asking[r][k] = "expired" => ~inability[r][k]

OneUnanswered ==
    \A r \in Run : \A j, k \in Gate :
        asking[r][j] = "unanswered" /\ asking[r][k] = "unanswered" => j = k

SuspendedRunsWait ==
    \A r \in Run : state[r] = "suspended" => \E k \in Gate : asking[r][k] = "unanswered"

GateInv ==
    /\ GateTypeOK
    /\ AskingsAndWakeups
    /\ OneUnanswered
    /\ SuspendedRunsWait
    /\ UnansweredAskingsBlockTheirRun

StoreInv == RunInv /\ GateInv

USE DEF GateTypeOK

-----------------------------------------------------------------------------
(* A transaction of the Run repository.                                    *)

(* It never suspends a Run, and moves a suspended or cancelled one without *)
(* a recovery hold to nothing but "cancelled".                             *)
LEMMA RunStepOnWaitingRuns ==
    ASSUME RunInv, Next, NEW r \in Run
    PROVE  /\ state'[r] = "suspended" => state[r] = "suspended"
           /\ state[r] \in {"suspended", "cancelled"} /\ hold[r] # "recovery" =>
                 state'[r] \in {"suspended", "cancelled"} /\ hold'[r] # "recovery"
<1> DEFINE Goal == /\ state'[r] = "suspended" => state[r] = "suspended"
                   /\ state[r] \in {"suspended", "cancelled"} /\ hold[r] # "recovery" =>
                        state'[r] \in {"suspended", "cancelled"} /\ hold'[r] # "recovery"
<1>1. CASE AdmissionStep
    BY <1>1 DEF AdmissionStep, AdmitAndActivate, DeliverTrigger, Insert, RunInv, ClaimInv,
       CancelInv
<1>2. CASE ActivityStep
    BY <1>2 DEF ActivityStep, StartActivity, StopActivity, DeactivateProject,
       SettleManualActivity
<1>3. CASE DispatchStep
    BY <1>3 DEF DispatchStep, ReserveNext, ClaimReserved, TakeSlot, ReleaseReservation,
       HoldReserved, RunInv, ClaimInv, CancelInv
<1>4. CASE RunnerStep
  <2> SUFFICES ASSUME NEW s \in Run, NEW g \in Generations,
                      \/ \E f \in Phase : CompletePhase(s, g, f)
                      \/ \E outcome \in Outcomes : CompleteRun(s, g, outcome)
                      \/ Hold(s, g)
                      \/ RecoverRunnerFailure(s, g)
               PROVE  Goal
      BY <1>4 DEF RunnerStep
  <2>1. state[s] = "executing"
      BY DEF RunInv, ClaimInv, CancelInv, SlotInv, ExecutingRunsHoldTheSlots,
         CompletePhase, CompleteRun, Hold, RecoverRunnerFailure, Authorised
  <2> QED
      BY <2>1 DEF RunInv, ClaimInv, CancelInv, CompletePhase, CompleteRun, Hold,
         RecoverRunnerFailure, Requeue, Assign
<1>5. CASE RecoveryStep
  <2>1. ASSUME NEW d \in SUBSET Project, RecoverInterrupted(d)
        PROVE  Goal
      BY <2>1 DEF RecoverInterrupted, Requeue, Assign, RunInv, ClaimInv, CancelInv
  <2>2. ASSUME NEW p \in Project, RecoverAfterRestart(p)
        PROVE  Goal
      BY <2>2 DEF RecoverAfterRestart, Requeue, Assign, Executing, InProject, RunInv,
         ClaimInv, CancelInv
  <2>3. ASSUME NEW p \in Project, HoldAfterRestart(p)
        PROVE  Goal
      BY <2>3 DEF HoldAfterRestart, Assign, InProject, RunInv, ClaimInv, CancelInv
  <2>4. ASSUME NEW p \in Project, RepairHolds(p)
        PROVE  Goal
      BY <2>4 DEF RepairHolds, Assign, InProject, RunInv, ClaimInv, CancelInv
  <2> QED
      BY <1>5, <2>1, <2>2, <2>3, <2>4 DEF RecoveryStep
<1>6. CASE CancelStep
  <2>1. ASSUME NEW s \in Run, RequestCancellation(s)
        PROVE  Goal
      BY <2>1 DEF RequestCancellation, CancelNow, Assign, RunInv, ClaimInv, CancelInv
  <2>2. ASSUME NEW w \in Workflow, ForceStop(w)
        PROVE  Goal
      BY <2>2 DEF ForceStop, CancelNow, Assign, RunInv, ClaimInv, CancelInv
  <2>3. ASSUME NEW p \in Project, NEW T \in SUBSET CancelTargets(p),
               NEW outcome \in {"confirmed", "fault"}, ConfirmRunnerStopped(p, T, outcome)
        PROVE  Goal
      BY <2>3 DEF ConfirmRunnerStopped, Executing, InProject, RunInv, ClaimInv, CancelInv
  <2>4. ASSUME NEW T, RecordCleanupFault(T)
        PROVE  Goal
      BY <2>4 DEF RecordCleanupFault
  <2> QED
      BY <1>6, <2>1, <2>2, <2>3, <2>4 DEF CancelStep
<1>7. CASE ConfigurationStep
    BY <1>7 DEF ConfigurationStep, ChangeDaemonLimit, ChangeProjectLimit
<1> QED
    BY <1>1, <1>2, <1>3, <1>4, <1>5, <1>6, <1>7 DEF Next

LEMMA RunStepKeeps ==
    ASSUME StoreInv, Next, UNCHANGED gateVars
    PROVE  StoreInv'
<1>1. RunInv'
    BY RunInvNext DEF StoreInv
<1>2. GateTypeOK' /\ AskingsAndWakeups' /\ OneUnanswered'
    BY DEF StoreInv, GateInv, AskingsAndWakeups, OneUnanswered, gateVars
<1>3. SuspendedRunsWait' /\ UnansweredAskingsBlockTheirRun'
    BY RunStepOnWaitingRuns DEF StoreInv, GateInv, SuspendedRunsWait,
       UnansweredAskingsBlockTheirRun, gateVars
<1> QED
    BY <1>1, <1>2, <1>3 DEF StoreInv, GateInv

-----------------------------------------------------------------------------
(* Transactions of the Gate repository.                                    *)

LEMMA CreateAskingKeeps ==
    ASSUME StoreInv, NEW r \in Run, NEW g \in Generations, NEW k \in Gate,
           CreateAskingAndSuspend(r, g, k)
    PROVE  StoreInv' /\ ReleasesAtMost
<1>1. state[r] = "executing" /\ hold[r] # "recovery"
    BY DEF StoreInv, RunInv, ClaimInv, CancelInv, SlotInv, ExecutingRunsHoldTheSlots,
       HeldRunsAreRepairable, CreateAskingAndSuspend, Authorised
<1>2. \A j \in Gate : asking[r][j] # "unanswered"
    BY <1>1 DEF StoreInv, GateInv, UnansweredAskingsBlockTheirRun
<1>3. TypeOK' /\ GateTypeOK'
    BY LimitAssumption DEF StoreInv, RunInv, ClaimInv, CancelInv, GateInv,
       CreateAskingAndSuspend, ReleaseSlot, ReleaseClaim, Assign
<1>4. SlotInv'
    BY <1>1 DEF StoreInv, RunInv, ClaimInv, CancelInv, SlotInv, ClaimsAreOld,
       SlotNamesTheNewestClaim, ExecutingRunsHoldTheSlots, CreateAskingAndSuspend,
       ReleaseSlot, ReleaseClaim, Assign
<1>5. OneGraphPerProject'
    BY DEF StoreInv, RunInv, ClaimInv, CancelInv, OneGraphPerProject, Slots,
       CreateAskingAndSuspend, ReleaseSlot, Assign
<1>6. HeldRunsAreRepairable' /\ CompletedWasNotCancelled' /\ CancellationIsTracked'
    BY <1>1 DEF StoreInv, RunInv, ClaimInv, CancelInv, HeldRunsAreRepairable,
       CompletedWasNotCancelled, CancellationIsTracked, CreateAskingAndSuspend
<1>7. AskingsAndWakeups'
    BY DEF StoreInv, GateInv, AskingsAndWakeups, CreateAskingAndSuspend
<1>8. OneUnanswered' /\ SuspendedRunsWait'
    BY <1>2 DEF StoreInv, RunInv, ClaimInv, CancelInv, GateInv, OneUnanswered,
       SuspendedRunsWait, CreateAskingAndSuspend
<1>9. UnansweredAskingsBlockTheirRun'
    BY <1>1 DEF StoreInv, RunInv, ClaimInv, CancelInv, GateInv,
       UnansweredAskingsBlockTheirRun, CreateAskingAndSuspend
<1>10. ReleasesAtMost
    BY <1>1 DEF StoreInv, RunInv, ClaimInv, CancelInv, ReleasesAtMost,
       CreateAskingAndSuspend, ReleaseSlot, ReleaseClaim, Assign
<1> QED
    BY <1>3, <1>4, <1>5, <1>6, <1>7, <1>8, <1>9, <1>10 DEF StoreInv, RunInv, ClaimInv,
       CancelInv, GateInv

(* Scheduling a wake-up leaves claims alone and requeues a suspended Run.  *)
LEMMA ScheduleKeepsRunInv ==
    ASSUME StoreInv, NEW r \in Run, NEW k \in Gate, asking[r][k] = "unanswered",
           Schedule(r, k),
           UNCHANGED <<pinnedVars, reserved, schedulerVars, claimVars, result, hold,
                       cancelVars, activityVars, limitVars>>
    PROVE  RunInv' /\ ReleasesAtMost
<1>1. state[r] \in {"suspended", "cancelled"} /\ hold[r] # "recovery"
    BY DEF StoreInv, GateInv, UnansweredAskingsBlockTheirRun
<1>2. TypeOK'
    BY DEF StoreInv, RunInv, ClaimInv, CancelInv, Schedule
<1>3. SlotInv'
    BY <1>1 DEF StoreInv, RunInv, ClaimInv, CancelInv, SlotInv, ClaimsAreOld,
       SlotNamesTheNewestClaim, ExecutingRunsHoldTheSlots, Schedule
<1>4. OneGraphPerProject'
    BY DEF StoreInv, RunInv, ClaimInv, CancelInv, OneGraphPerProject, Slots
<1>5. HeldRunsAreRepairable' /\ CompletedWasNotCancelled' /\ CancellationIsTracked'
    BY <1>1 DEF StoreInv, RunInv, ClaimInv, CancelInv, HeldRunsAreRepairable,
       CompletedWasNotCancelled, CancellationIsTracked, Schedule
<1>6. ReleasesAtMost
    BY <1>1 DEF StoreInv, RunInv, ClaimInv, CancelInv, ReleasesAtMost, Schedule
<1> QED
    BY <1>2, <1>3, <1>4, <1>5, <1>6 DEF RunInv, ClaimInv, CancelInv

LEMMA RecordVerdictKeeps ==
    ASSUME StoreInv, NEW r \in Run, NEW k \in Gate, RecordVerdict(r, k)
    PROVE  StoreInv' /\ ReleasesAtMost
<1>1. state[r] \in {"suspended", "cancelled"} /\ asking[r][k] = "unanswered"
    BY DEF StoreInv, GateInv, UnansweredAskingsBlockTheirRun, RecordVerdict
<1>2. CASE Schedule(r, k) /\ state[r] \notin {"failed", "cancelled"} /\ UNCHANGED inability
  <2>1. RunInv' /\ ReleasesAtMost
      BY <1>1, <1>2, ScheduleKeepsRunInv DEF RecordVerdict
  <2>2. GateTypeOK'
      BY <1>2 DEF StoreInv, GateInv, RecordVerdict, Schedule
  <2>3. AskingsAndWakeups'
      BY <1>1, <1>2 DEF StoreInv, GateInv, AskingsAndWakeups, RecordVerdict, Schedule
  <2>4. OneUnanswered' /\ SuspendedRunsWait' /\ UnansweredAskingsBlockTheirRun'
      BY <1>1, <1>2 DEF StoreInv, RunInv, ClaimInv, CancelInv, GateInv, OneUnanswered,
         SuspendedRunsWait, UnansweredAskingsBlockTheirRun, RecordVerdict, Schedule
  <2> QED
      BY <2>1, <2>2, <2>3, <2>4 DEF StoreInv, GateInv
<1>3. CASE /\ state[r] \in {"failed", "cancelled"}
           /\ inability' = [inability EXCEPT ![r][k] = TRUE]
           /\ UNCHANGED <<wakeup, state, queue>>
  <2>1. UNCHANGED vars
      BY <1>3 DEF RecordVerdict, vars
  <2>2. RunInv' /\ ReleasesAtMost
      BY <2>1, RunInvStutter DEF StoreInv, ReleasesAtMost, vars
  <2>3. GateTypeOK'
      BY <1>3 DEF StoreInv, GateInv, RecordVerdict
  <2>4. AskingsAndWakeups'
      BY <1>1, <1>3 DEF StoreInv, GateInv, AskingsAndWakeups, RecordVerdict
  <2>5. OneUnanswered' /\ SuspendedRunsWait' /\ UnansweredAskingsBlockTheirRun'
      BY <1>1, <1>3 DEF StoreInv, GateInv, OneUnanswered, SuspendedRunsWait,
         UnansweredAskingsBlockTheirRun, RecordVerdict
  <2> QED
      BY <2>2, <2>3, <2>4, <2>5 DEF StoreInv, GateInv
<1> QED
    BY <1>2, <1>3 DEF RecordVerdict

LEMMA ExpireKeeps ==
    ASSUME StoreInv, NEW r \in Run, NEW k \in Gate, Expire(r, k)
    PROVE  StoreInv' /\ ReleasesAtMost
<1>1. state[r] \in {"suspended", "cancelled"} /\ asking[r][k] = "unanswered"
    BY DEF StoreInv, GateInv, UnansweredAskingsBlockTheirRun, Expire
<1>2. RunInv' /\ ReleasesAtMost
    BY <1>1, ScheduleKeepsRunInv DEF Expire
<1>3. GateTypeOK' /\ AskingsAndWakeups'
    BY <1>1 DEF StoreInv, GateInv, AskingsAndWakeups, Expire, Schedule
<1>4. OneUnanswered' /\ SuspendedRunsWait' /\ UnansweredAskingsBlockTheirRun'
    BY <1>1 DEF StoreInv, RunInv, ClaimInv, CancelInv, GateInv, OneUnanswered,
       SuspendedRunsWait, UnansweredAskingsBlockTheirRun, Expire, Schedule
<1> QED
    BY <1>2, <1>3, <1>4 DEF StoreInv, GateInv

(* The remaining transactions change Askings only.                         *)
LEMMA AskingStepKeeps ==
    ASSUME StoreInv,
           \/ \E r \in Run, k \in Gate : \/ DeadlinePasses(r, k)
                                         \/ \E g \in Generations : MarkApplied(r, g, k)
           \/ ReconcileTerminalInabilities
    PROVE  StoreInv' /\ ReleasesAtMost
<1>1. UNCHANGED vars
    BY DEF DeadlinePasses, MarkApplied, ReconcileTerminalInabilities
<1>2. RunInv' /\ ReleasesAtMost
    BY <1>1, RunInvStutter DEF StoreInv, ReleasesAtMost, vars
<1> DEFINE Same == \A r \in Run, k \in Gate :
                      asking'[r][k] = "unanswered" <=> asking[r][k] = "unanswered"
<1>3. ASSUME NEW r \in Run, NEW k \in Gate, DeadlinePasses(r, k)
      PROVE  GateTypeOK' /\ AskingsAndWakeups' /\ Same
    BY <1>3 DEF StoreInv, GateInv, AskingsAndWakeups, DeadlinePasses
<1>4. ASSUME NEW r \in Run, NEW k \in Gate, NEW g \in Generations, MarkApplied(r, g, k)
      PROVE  GateTypeOK' /\ AskingsAndWakeups' /\ Same
  <2>1. asking[r][k] \in {"recorded", "expired"} /\ ~inability[r][k]
      BY <1>4 DEF StoreInv, GateInv, AskingsAndWakeups, MarkApplied
  <2> QED
      BY <1>4, <2>1 DEF StoreInv, GateInv, AskingsAndWakeups, MarkApplied
<1>5. ASSUME ReconcileTerminalInabilities
      PROVE  GateTypeOK' /\ AskingsAndWakeups' /\ Same
    BY <1>5 DEF StoreInv, GateInv, AskingsAndWakeups, ReconcileTerminalInabilities
<1>6. GateTypeOK' /\ AskingsAndWakeups' /\ Same
    BY <1>3, <1>4, <1>5
<1>7. OneUnanswered' /\ SuspendedRunsWait' /\ UnansweredAskingsBlockTheirRun'
    BY <1>1, <1>6 DEF StoreInv, GateInv, OneUnanswered, SuspendedRunsWait,
       UnansweredAskingsBlockTheirRun, vars
<1> QED
    BY <1>2, <1>6, <1>7 DEF StoreInv, GateInv

-----------------------------------------------------------------------------
(* The invariant.                                                          *)

LEMMA StoreInvInit == Init /\ GateInit => StoreInv
<1> SUFFICES ASSUME Init, GateInit PROVE StoreInv
    OBVIOUS
<1>1. RunInv
    BY RunInvInit
<1>2. GateInv
    BY DEF Init, GateInit, GateInv, AskingsAndWakeups, OneUnanswered, SuspendedRunsWait,
       UnansweredAskingsBlockTheirRun
<1> QED
    BY <1>1, <1>2 DEF StoreInv

LEMMA StoreInvNext ==
    ASSUME StoreInv, GateNext
    PROVE  StoreInv' /\ ClaimEffect
<1>1. CASE Next /\ UNCHANGED gateVars
    BY <1>1, RunStepKeeps, NextClaimEffect DEF StoreInv
<1>2. CASE GateStep
  <2>1. StoreInv' /\ ReleasesAtMost
      BY <1>2, CreateAskingKeeps, RecordVerdictKeeps, ExpireKeeps, AskingStepKeeps
         DEF GateStep
  <2> QED
      BY <2>1 DEF ClaimEffect
<1> QED
    BY <1>1, <1>2 DEF GateNext

LEMMA StoreInvStutter ==
    ASSUME StoreInv, UNCHANGED <<vars, gateVars>>
    PROVE  StoreInv'
<1>1. RunInv'
    BY RunInvStutter DEF StoreInv
<1>2. GateInv'
    BY DEF vars, gateVars, StoreInv, GateInv, AskingsAndWakeups, OneUnanswered,
       SuspendedRunsWait, UnansweredAskingsBlockTheirRun
<1> QED
    BY <1>1, <1>2 DEF StoreInv

(* The inductive invariant of the Run and Gate repositories.               *)
THEOREM StoreInvariant == GateSpec => []StoreInv
<1>1. StoreInv /\ [GateNext]_<<vars, gateVars>> => StoreInv'
    BY StoreInvNext, StoreInvStutter
<1> QED
    BY StoreInvInit, <1>1, PTL DEF GateSpec

-----------------------------------------------------------------------------
(* What the runs check on small instances, for every instance.             *)

(* Types, for every number of Runs, Projects, Askings and generations.     *)
THEOREM TypesHold == GateSpec => [](TypeOK /\ GateTypeOK)
    BY StoreInvariant, PTL DEF StoreInv, RunInv, ClaimInv, CancelInv, GateInv

(* However claims, Askings, recoveries and cancellations interleave, a     *)
(* slot belongs to an executing Run and names its newest claim.            *)
THEOREM SlotsAreTheClaimsInForce ==
    GateSpec => [](SlotNamesTheNewestClaim /\ ExecutingRunsHoldTheSlots)
    BY StoreInvariant, PTL DEF StoreInv, RunInv, ClaimInv, CancelInv, SlotInv

(* No two Runs of a Project ever execute with different package graphs.    *)
THEOREM ProjectsRunOneGraph == GateSpec => []OneGraphPerProject
    BY StoreInvariant, PTL DEF StoreInv, RunInv, ClaimInv, CancelInv

(* A Run never completes after a cancellation was recorded for it.         *)
THEOREM CancellationWins == GateSpec => []CompletedWasNotCancelled
    BY StoreInvariant, PTL DEF StoreInv, RunInv, ClaimInv, CancelInv

(* A recorded cancellation is never lost track of: until it is confirmed   *)
(* the Run has not ended and its cleanup is pending or failed.             *)
THEOREM CancellationsAreKept == GateSpec => []CancellationIsTracked
    BY StoreInvariant, PTL DEF StoreInv, RunInv, ClaimInv, CancelInv

(* Every held Run can be repaired, and repair touches no Run at work.      *)
THEOREM HoldsCanBeRepaired == GateSpec => []HeldRunsAreRepairable
    BY StoreInvariant, PTL DEF StoreInv, RunInv, ClaimInv, CancelInv

(* A suspended Run waits for exactly one unanswered Asking, and no Run     *)
(* passes one.                                                             *)
LEMMA AskingsFollow ==
    ASSUME StoreInv
    PROVE  SuspendedRunsWaitForOneAsking /\ UnansweredAskingsBlockTheirRun
<1> SUFFICES ASSUME NEW r \in Run, state[r] = "suspended"
             PROVE  \E k \in Gate : \A j \in Gate : asking[r][j] = "unanswered" <=> j = k
    BY DEF StoreInv, GateInv, SuspendedRunsWaitForOneAsking
<1>1. PICK k \in Gate : asking[r][k] = "unanswered"
    BY DEF StoreInv, GateInv, SuspendedRunsWait
<1> WITNESS k \in Gate
<1> QED
    BY <1>1 DEF StoreInv, GateInv, OneUnanswered

(* A suspended Run waits for exactly one Asking that is still unanswered.  *)
THEOREM SuspensionsHaveTheirAsking == GateSpec => []SuspendedRunsWaitForOneAsking
    BY AskingsFollow, StoreInvariant, PTL

(* No Run passes an Asking that is unanswered.                             *)
THEOREM AskingsBlock == GateSpec => []UnansweredAskingsBlockTheirRun
    BY AskingsFollow, StoreInvariant, PTL

(* No Verdict is lost between its recording and its application.           *)
THEOREM VerdictsReachTheRun == GateSpec => []RecordedVerdictsReachTheRun
<1>1. StoreInv => RecordedVerdictsReachTheRun
    BY DEF StoreInv, GateInv, AskingsAndWakeups, RecordedVerdictsReachTheRun
<1> QED
    BY <1>1, StoreInvariant, PTL

LEMMA GateStepEffect ==
    ASSUME StoreInv, [GateNext]_<<vars, gateVars>>
    PROVE  RunInv /\ (ClaimEffect \/ UNCHANGED vars)
    BY StoreInvNext DEF StoreInv

(* Fencing: a claim that lost its slot is refused for ever.                *)
THEOREM LostClaimsStayFenced == GateSpec => FencedForever
<1>1. ASSUME StoreInv, [GateNext]_<<vars, gateVars>>
      PROVE  [\A r \in Run : \A g \in 1 .. generation[r] :
                 ~Authorised(r, g) => ~Authorised(r, g)']_vars
    BY <1>1, GateStepEffect, FencingStep
<1> QED
    BY <1>1, StoreInvariant, PTL DEF GateSpec, FencedForever

(* A completed Run stays as it completed.                                  *)
THEOREM CompletedRunsStay == GateSpec => CompletedIsFinal
<1>1. ASSUME StoreInv, [GateNext]_<<vars, gateVars>>
      PROVE  [\A r \in Run : state[r] \in Completed => state'[r] = state[r]]_vars
    BY <1>1, GateStepEffect, FinalityStep
<1> QED
    BY <1>1, StoreInvariant, PTL DEF GateSpec, CompletedIsFinal

(* Phase results are written once, under the newest claim.                 *)
THEOREM ResultsAreNotMixed == GateSpec => ResultsComeFromTheNewestClaim
<1>1. ASSUME StoreInv, [GateNext]_<<vars, gateVars>>
      PROVE  [\A r \in Run, f \in Phase :
                 result'[r][f] # result[r][f] => /\ result[r][f] = 0
                                                 /\ result'[r][f] = generation[r]
                                                 /\ state[r] = "executing"]_vars
    BY <1>1, GateStepEffect, ResultStep
<1> QED
    BY <1>1, StoreInvariant, PTL DEF GateSpec, ResultsComeFromTheNewestClaim

-----------------------------------------------------------------------------
(* Refinement: the transactions implement the fencing lease.               *)

LEMMA LeaseInitially == Init => Lease!LeaseInit
    BY DEF Init, Lease!LeaseInit

LEMMA LeaseStep ==
    ASSUME RunInv, RunInv', ClaimEffect
    PROVE  [Lease!LeaseNext]_Lease!leaseVars
<1> DEFINE ended == {r \in Run : state[r] \in Completed}
<1>1. ASSUME NEW r \in Run, ClaimReserved(r)
      PROVE  Lease!Grant(r)
  <2>1. r \notin ended /\ slot[r] = 0
      BY <1>1, ClaimedAfresh DEF Slots
  <2>2. ended' = ended
      BY <1>1, ClaimedAfresh DEF RunInv, ClaimInv, CancelInv
  <2> QED
      BY <1>1, <2>1, <2>2, ClaimedAfresh DEF Lease!Grant
<1>2. ASSUME NEW r \in Run, NEW g \in Generations, NEW o \in Outcomes, CompleteRun(r, g, o)
      PROVE  Lease!End(r)
  <2>1. ended' = ended \cup {r}
      BY <1>2, CompletedUnderClaim DEF RunInv, ClaimInv, CancelInv
  <2> QED
      BY <1>2, <2>1, CompletedUnderClaim DEF Lease!End
<1>3. ASSUME NEW r \in Run, NEW g \in Generations, NEW f \in Phase, CompletePhase(r, g, f)
      PROVE  UNCHANGED Lease!leaseVars
    BY <1>3, RecordedUnderClaim DEF Lease!leaseVars
<1>4. ASSUME ReleasesAtMost
      PROVE  \E S \in SUBSET Run : Lease!Revoke(S)
  <2> DEFINE S == {r \in Run : slot'[r] = 0}
  <2>1. slot' = [r \in Run |-> IF r \in S THEN 0 ELSE slot[r]]
      BY <1>4 DEF RunInv, ClaimInv, CancelInv, ReleasesAtMost
  <2>2. ended' = ended
      BY <1>4 DEF ReleasesAtMost
  <2>3. Lease!Revoke(S)
      BY <1>4, <2>1, <2>2 DEF ReleasesAtMost, Lease!Revoke
  <2> QED
      BY <2>3
<1> QED
    BY <1>1, <1>2, <1>3, <1>4 DEF ClaimEffect, Lease!LeaseNext

(* The Run and Gate repositories implement RunLease.                       *)
THEOREM StoreImplementsLease == GateSpec => ImplementsLease
<1>1. ASSUME StoreInv, [GateNext]_<<vars, gateVars>>
      PROVE  [Lease!LeaseNext]_Lease!leaseVars
  <2>1. CASE GateNext
      BY <1>1, <2>1, StoreInvNext, LeaseStep DEF StoreInv
  <2>2. CASE UNCHANGED <<vars, gateVars>>
      BY <2>2 DEF vars, Lease!leaseVars
  <2> QED
      BY <1>1, <2>1, <2>2
<1> QED
    BY <1>1, LeaseInitially, StoreInvariant, PTL DEF GateSpec, ImplementsLease,
       Lease!LeaseSpec
=============================================================================
