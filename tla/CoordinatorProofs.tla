-------------------------- MODULE CoordinatorProofs -------------------------
(***************************************************************************)
(* Proofs about Coordinator, for every set of Runs, Projects, Workflows,   *)
(* package graphs and Gates, every limit and every number of claims and    *)
(* disturbances: its invariants, that executions are not interrupted, and  *)
(* that whatever it does to the two repositories is a step of GateSpec.    *)
(*                                                                         *)
(* A step is looked at twice.  What it does to the stores is one of their  *)
(* transactions, of which only two, a reservation and a claim, do more     *)
(* than give back (Eases); what it does to the coordinator's own variables *)
(* is local, so each part of the invariant is disturbed by a few actions.  *)
(***************************************************************************)
EXTENDS Coordinator, StoreProofs, WellFoundedInduction

(* A dispatch that has not claimed its Run prepares or ends, and no name of *)
(* a dispatch or a process has a generation that was not handed out.        *)
Named(d) == stage[d] # "none" \/ d \in live \cup stops \cup handle[Owner(d)]

NamesAreOld ==
    /\ \A r \in Run :
          stage[<<r, 0>>] \in {"none", "preparing", "loading", "ending", "restoring"}
    /\ \A d \in Dispatches : Named(d) => d[2] <= generation[d[1]]

(* A process is in the start-up of its dispatch, which nobody can stop     *)
(* until it is registered, or is the runner that the supervisor has for    *)
(* its Project, or was overwritten as that.  Only the cancellation of its  *)
(* Run ends one that attaches, so a runner that does not run is of a Run   *)
(* that was cancelled.                                                     *)
OneRunner ==
    /\ \A c \in Claims : stage[c] = "starting" => c \in live
    /\ \A c \in Claims : stage[c] \in {"claimed", "clearing", "starting"} =>
          c \notin stops /\ c \notin handle[Owner(c)] /\ control[c[1]] # c[2]
    /\ \A c \in Claims : stage[c] = "attaching" =>
          c \notin handle[Owner(c)] /\ (c \in live \ stops \/ cancel[c[1]] # "none")
    /\ \A c \in live : \/ stage[c] \in {"starting", "attaching"}
                       \/ c \in handle[Owner(c)] \cup replaced
    /\ \A r \in Run : control[r] # 0 => <<r, control[r]>> \in live
    /\ \A p \in Project : \A c \in handle[p] :
          Owner(c) = p /\ (c \in live \/ cancel[c[1]] # "none")
    /\ \A p \in Project : \A c, d \in handle[p] : c = d

CancellersHaveTheirCancellation ==
    /\ \A c \in Claims : stage[c] = "cancelling" => cancel[c[1]] # "none"
    /\ \A r \in Run : \A s \in targets[r] :
          cancel[s] # "none" /\ ProjectOf[s] = ProjectOf[r]

(* A Project that drains takes no new dispatch, and stops its runner when  *)
(* it has none.                                                            *)
DrainIsClosed ==
    \A p \in Project :
        /\ drain[p] # "none" => up /\ resuming = {} /\ p \in closed
        /\ drain[p] \in {"stopping", "drained"} =>
              \A d \in Dispatches : Owner(d) = p => stage[d] = "none"
        /\ drain[p] = "drained" => handle[p] = {}

(* When nothing is at work and the pump rests, all that waits is blocked.  *)
AtRest ==
    /\ up /\ ~held /\ stopping = "no" /\ ~pump
    /\ Slots = {}
    /\ \A d \in Dispatches : stage[d] = "none"

NobodyWaits == AtRest => \A r \in Run : queue[r] # "none" => ProjectOf[r] \in Blocked

PumpIsCalled ==
    /\ up /\ resuming # {} => pump
    /\ stopping = "forced" => held
    /\ NobodyWaits

(* The preparing dispatches of a Project wait in line, unless an attach    *)
(* forgot a turn; each of them loads the graph of those that it waits for  *)
(* and of every slot, as long as their reservations last.                  *)
TurnsAreInLine ==
    /\ \A r \in Run : \A s \in ahead[r] :
          Prepares(r) /\ Prepares(s) /\ ProjectOf[s] = ProjectOf[r]
    /\ \A r \in Run : stage[<<r, 0>>] = "loading" => ahead[r] = {}
    /\ \A r, s \in Run :
          Prepares(r) /\ Prepares(s) /\ ProjectOf[s] = ProjectOf[r] =>
             r = s \/ r \in ahead[s] \/ s \in ahead[r] \/ ProjectOf[r] \in forgot
    /\ \A r \in Run : \A s \in ahead[r] \cap reserved : graph[s] = graph[r]
    /\ \A r \in Run, s \in Slots : Prepares(r) /\ ProjectOf[s] = ProjectOf[r] =>
          graph[s] = graph[r] \/ ProjectOf[r] \in forgot

WaitingRunsExist ==
    \A r \in Run : queue[r] # "none" \/ Prepares(r) => state[r] # "absent"

CoordinatorInv ==
    /\ StoreInv
    /\ CoordinatorTypeOK
    /\ NamesAreOld
    /\ OneRunner
    /\ CancellersHaveTheirCancellation
    /\ DrainIsClosed
    /\ PumpIsCalled
    /\ TurnsAreInLine
    /\ WaitingRunsExist
    /\ TakenPlacesAreAttended

USE DEF TypeOK, RunStates, Completed, Terminal, Outcomes, schedulerVars, claimVars,
        cancelVars, activityVars, limitVars, pinnedVars, GateTypeOK, gateVars, processVars,
        modeVars, turnVars, callerVars, callVars, locationVars

-----------------------------------------------------------------------------
(* Names.                                                                  *)

LEMMA Generation == MaxGeneration \in Nat /\ Generations \subseteq Nat \ {0}
    BY LimitAssumption DEF Generations

(* A Run with a generation names a dispatch; a claim is one with a         *)
(* generation that is not 0.                                               *)
LEMMA Names ==
    /\ \A d \in Dispatches : /\ d[1] \in Run /\ d[2] \in 0 .. MaxGeneration
                             /\ d = <<d[1], d[2]>> /\ Owner(d) \in Project
                             /\ d \in Claims \/ d[2] = 0
    /\ \A c \in Claims : /\ c \in Dispatches /\ c[1] \in Run /\ c[2] \in Generations
                         /\ c = <<c[1], c[2]>> /\ c[2] # 0 /\ Owner(c) \in Project
    /\ \A r \in Run : <<r, 0>> \in Dispatches
    /\ \A r \in Run, n \in 0 .. MaxGeneration : /\ <<r, n>> \in Dispatches
                                               /\ n # 0 => <<r, n>> \in Claims
    BY Generation, RunAssumption DEF Dispatches, Claims, Generations, Owner

-----------------------------------------------------------------------------
(* What a step does to the stores.                                         *)

(* Every transaction but a reservation and a claim.                        *)
EasyStep ==
    \/ UNCHANGED <<vars, gateVars>>
    \/ GateStep
    \/ /\ UNCHANGED gateVars
       /\ \/ AdmissionStep \/ ActivityStep \/ RunnerStep \/ RecoveryStep \/ CancelStep
          \/ \E r \in Run : ReleaseReservation(r) \/ HoldReserved(r)

(* No place is taken and no claim handed out, no cancellation is taken     *)
(* back, and a Run keeps its graph.                                        *)
Eases ==
    /\ generation' = generation
    /\ reserved' \subseteq reserved
    /\ \A r \in Run :
          /\ slot'[r] \in {slot[r], 0}
          /\ cancel[r] # "none" => cancel'[r] # "none"
          /\ state'[r] = "executing" => state[r] = "executing" /\ slot'[r] = slot[r]
          /\ state[r] # "absent" => state'[r] # "absent" /\ graph'[r] = graph[r]
          /\ queue'[r] # "none" => queue[r] # "none" \/ state'[r] # "absent"

LEMMA EasyIsTransaction ==
    ASSUME EasyStep
    PROVE  [GateNext]_<<vars, gateVars>>
    BY DEF EasyStep, GateNext, Next, DispatchStep

LEMMA RunnerEases ==
    ASSUME RunInv, RunnerStep
    PROVE  Eases
<1> SUFFICES ASSUME NEW r \in Run, NEW g \in Generations,
                    \/ \E f \in Phase : CompletePhase(r, g, f)
                    \/ \E outcome \in Outcomes : CompleteRun(r, g, outcome)
                    \/ Hold(r, g)
                    \/ RecoverRunnerFailure(r, g)
             PROVE  Eases
    BY DEF RunnerStep
<1>1. slot[r] # 0 /\ state[r] = "executing"
    BY Generation DEF RunInv, ClaimInv, CancelInv, SlotInv, ExecutingRunsHoldTheSlots,
       CompletePhase, CompleteRun, Hold, RecoverRunnerFailure, Authorised
<1> QED
    BY <1>1 DEF RunInv, ClaimInv, CancelInv, CompletePhase, CompleteRun, Hold,
       RecoverRunnerFailure, Requeue, ReleaseSlot, ReleaseClaim, Assign, Eases

LEMMA RecoveryEases ==
    ASSUME RunInv, RecoveryStep
    PROVE  Eases
<1>1. ASSUME NEW d \in SUBSET Project, RecoverInterrupted(d)
      PROVE  Eases
    BY <1>1 DEF RunInv, ClaimInv, CancelInv, RecoverInterrupted, Requeue, ReleaseSlot,
       Assign, Eases
<1>2. ASSUME NEW p \in Project, RecoverAfterRestart(p)
      PROVE  Eases
    BY <1>2 DEF RunInv, ClaimInv, CancelInv, RecoverAfterRestart, Requeue, Executing,
       InProject, ReleaseSlot, Assign, Eases
<1>3. ASSUME NEW p \in Project, HoldAfterRestart(p)
      PROVE  Eases
    BY <1>3 DEF RunInv, ClaimInv, CancelInv, HoldAfterRestart, InProject, ReleaseSlot,
       Assign, Eases
<1>4. ASSUME NEW p \in Project, RepairHolds(p)
      PROVE  Eases
    BY <1>4 DEF RunInv, ClaimInv, CancelInv, RepairHolds, InProject, Assign, Eases
<1> QED
    BY <1>1, <1>2, <1>3, <1>4 DEF RecoveryStep

LEMMA CancelEases ==
    ASSUME RunInv, CancelStep
    PROVE  Eases
<1>1. ASSUME NEW r \in Run, RequestCancellation(r)
      PROVE  Eases
    BY <1>1 DEF RunInv, ClaimInv, CancelInv, RequestCancellation, CancelNow, ReleaseSlot,
       ReleaseClaim, Assign, Eases
<1>2. ASSUME NEW w \in Workflow, ForceStop(w)
      PROVE  Eases
    BY <1>2 DEF RunInv, ClaimInv, CancelInv, ForceStop, ForceStopTargets, CancelNow,
       ReleaseSlot, ReleaseClaim, Assign, Eases
<1>3. ASSUME NEW p \in Project, NEW T \in SUBSET CancelTargets(p),
             NEW outcome \in {"confirmed", "fault"}, ConfirmRunnerStopped(p, T, outcome)
      PROVE  Eases
    BY <1>3 DEF RunInv, ClaimInv, CancelInv, ConfirmRunnerStopped, Executing, InProject,
       ReleaseSlot, ReleaseClaim, Assign, Eases
<1>4. ASSUME NEW T, RecordCleanupFault(T)
      PROVE  Eases
    BY <1>4 DEF RunInv, ClaimInv, CancelInv, RecordCleanupFault, Eases
<1> QED
    BY <1>1, <1>2, <1>3, <1>4 DEF CancelStep

LEMMA AskingEases ==
    ASSUME StoreInv, GateStep
    PROVE  Eases
<1>1. ASSUME NEW r \in Run, NEW g \in Generations, NEW k \in Gate,
             CreateAskingAndSuspend(r, g, k)
      PROVE  Eases
    BY <1>1 DEF StoreInv, RunInv, ClaimInv, CancelInv, CreateAskingAndSuspend,
       ReleaseSlot, ReleaseClaim, Assign, Eases
<1>2. ASSUME NEW r \in Run, NEW k \in Gate, RecordVerdict(r, k) \/ Expire(r, k)
      PROVE  Eases
  <2>1. state[r] \in {"suspended", "cancelled"}
      BY <1>2 DEF StoreInv, GateInv, UnansweredAskingsBlockTheirRun, RecordVerdict, Expire
  <2> QED
      BY <1>2, <2>1 DEF StoreInv, RunInv, ClaimInv, CancelInv, RecordVerdict, Expire,
         Schedule, Eases
<1>3. ASSUME UNCHANGED vars
      PROVE  Eases
    BY <1>3 DEF StoreInv, RunInv, ClaimInv, CancelInv, vars, Eases
<1> QED
    BY <1>1, <1>2, <1>3 DEF GateStep, MarkApplied, DeadlinePasses,
       ReconcileTerminalInabilities

LEMMA EasyStepEases ==
    ASSUME StoreInv, EasyStep
    PROVE  StoreInv' /\ Eases
<1>1. StoreInv'
    BY EasyIsTransaction, StoreInvNext, StoreInvStutter
<1>2. ASSUME UNCHANGED <<vars, gateVars>>
      PROVE  Eases
    BY <1>2 DEF StoreInv, RunInv, ClaimInv, CancelInv, vars, Eases
<1>3. ASSUME AdmissionStep
      PROVE  Eases
    BY <1>3 DEF StoreInv, RunInv, ClaimInv, CancelInv, AdmissionStep, AdmitAndActivate,
       DeliverTrigger, Insert, Eases
<1>4. ASSUME ActivityStep
      PROVE  Eases
    BY <1>4 DEF StoreInv, RunInv, ClaimInv, CancelInv, ActivityStep, StartActivity,
       StopActivity, DeactivateProject, SettleManualActivity, Eases
<1>5. ASSUME NEW r \in Run, ReleaseReservation(r) \/ HoldReserved(r)
      PROVE  Eases
    BY <1>5 DEF StoreInv, RunInv, ClaimInv, CancelInv, ReleaseReservation, HoldReserved,
       Eases
<1> QED
    BY <1>1, <1>2, <1>3, <1>4, <1>5, RunnerEases, RecoveryEases, CancelEases, AskingEases
       DEF EasyStep, StoreInv

(* Every action but the reservation and the claim eases the stores.        *)
LEMMA RequestsEase ==
    ASSUME RequestStep
    PROVE  EasyStep
<1>1. ASSUME NEW r \in Run, NEW g \in Graph, Start(r, g)
      PROVE  EasyStep
    BY <1>1 DEF Start, EasyStep, AdmissionStep
<1>2. ASSUME NEW r \in Run, NEW k \in Gate, Answer(r, k)
      PROVE  EasyStep
    BY <1>2 DEF Answer, EasyStep, GateStep
<1>3. ASSUME NEW p \in Project, RepairProject(p)
      PROVE  EasyStep
    BY <1>3 DEF RepairProject, EasyStep, RecoveryStep
<1>4. ASSUME NEW r \in Run, CancelRun(r)
      PROVE  EasyStep
    BY <1>4 DEF CancelRun, EasyStep, CancelStep
<1>5. ASSUME NEW w \in Workflow, StopWorkflow(w)
      PROVE  EasyStep
    BY <1>5 DEF StopWorkflow, EasyStep, ActivityStep
<1>6. ASSUME NEW w \in Workflow, ForceStopWorkflow(w)
      PROVE  EasyStep
    BY <1>6 DEF ForceStopWorkflow, EasyStep, CancelStep
<1> QED
    BY <1>1, <1>2, <1>3, <1>4, <1>5, <1>6 DEF RequestStep

LEMMA PumpEases ==
    ASSUME PumpStep, ~PumpReserves, ~\E r \in Run : ClaimDispatch(r)
    PROVE  EasyStep
<1>1. ASSUME NEW r \in Run, PrepareFails(r)
      PROVE  EasyStep
    BY <1>1 DEF PrepareFails, EasyStep
<1>2. ASSUME NEW d \in Dispatches, Settle(d)
      PROVE  EasyStep
  <2>1. WorkflowOf[d[1]] \in Workflow
      BY Names, RunAssumption
  <2> QED
      BY <1>2, <2>1 DEF Settle, EasyStep, ActivityStep
<1>3. CASE \/ PumpRests \/ \E r \in Run : TakeTurn(r)
           \/ \E d \in Dispatches : EndDispatch(d)
    BY <1>3 DEF PumpRests, TakeTurn, EndDispatch, EasyStep
<1> QED
    BY <1>1, <1>2, <1>3 DEF PumpStep

LEMMA ProcessesEase ==
    ASSUME CancellersHaveTheirCancellation, ProcessStep
    PROVE  EasyStep
<1>1. PICK c \in Claims : \/ StopCurrent(c) \/ Spawn(c) \/ StartFails(c)
                          \/ Attach(c) \/ Attached(c) \/ ConfirmCancelled(c)
                          \/ Finish(c) \/ Break(c) \/ IdleStop(c) \/ StopDone(c)
    BY DEF ProcessStep
<1>2. CASE ~ConfirmCancelled(c)
    BY <1>1, <1>2 DEF StopCurrent, Spawn, StartFails, Attach, Attached, Finish, Break,
       IdleStop, StopDone, EasyStep
<1>3. CASE ConfirmCancelled(c)
  <2>1. c[1] \in Run /\ Owner(c) \in Project
      BY Names
  <2>2. cancel[c[1]] # "none" /\ ConfirmRunnerStopped(Owner(c), {c[1]}, "confirmed")
      BY <1>3 DEF ConfirmCancelled, CancellersHaveTheirCancellation
  <2>3. {c[1]} \in SUBSET CancelTargets(Owner(c))
      BY <2>1, <2>2 DEF CancelTargets, InProject, Owner
  <2>4. CancelStep
      BY <2>1, <2>2, <2>3 DEF CancelStep
  <2> QED
      BY <1>3, <2>4 DEF ConfirmCancelled, EasyStep
<1> QED
    BY <1>2, <1>3

(* Those who are confirmed were cancelled, and are of one Project.         *)
LEMMA CancellersEase ==
    ASSUME CoordinatorTypeOK, CancellersHaveTheirCancellation, CancellerStep
    PROVE  EasyStep
<1>1. ASSUME NEW r \in Run, FindControls(r) \/ GiveUp(r) \/ Report(r)
      PROVE  EasyStep
    BY <1>1 DEF FindControls, GiveUp, Report, EasyStep, GateStep
<1>2. ASSUME NEW r \in Run, ConfirmStopped(r)
      PROVE  EasyStep
  <2>1. ProjectOf[r] \in Project /\ targets[r] \subseteq Run
      BY RunAssumption DEF CoordinatorTypeOK
  <2>2. targets[r] \in SUBSET CancelTargets(ProjectOf[r])
      BY <2>1 DEF CancellersHaveTheirCancellation, CancelTargets, InProject
  <2>3. \/ ConfirmRunnerStopped(ProjectOf[r], targets[r], "confirmed")
        \/ RecordCleanupFault(targets[r])
      BY <1>2 DEF ConfirmStopped
  <2>4. CancelStep
      BY <2>1, <2>2, <2>3 DEF CancelStep
  <2> QED
      BY <1>2, <2>4 DEF ConfirmStopped, EasyStep
<1> QED
    BY <1>1, <1>2 DEF CancellerStep

LEMMA CommitsEase ==
    ASSUME CommitStep
    PROVE  EasyStep
<1>1. PICK c \in Claims : \/ \E k \in Gate : ApplyWakeup(c, k) \/ CommitSuspension(c, k)
                          \/ \E outcome \in Outcomes : CommitCompletion(c, outcome)
                          \/ CommitRefused(c) \/ FailRun(c) \/ Reconcile(c)
    BY DEF CommitStep
<1>2. c[1] \in Run /\ c[2] \in Generations
    BY Names
<1>3. ASSUME NEW k \in Gate, ApplyWakeup(c, k) \/ CommitSuspension(c, k)
      PROVE  EasyStep
  <2>1. MarkApplied(c[1], c[2], k) \/ CreateAskingAndSuspend(c[1], c[2], k)
      BY <1>3 DEF ApplyWakeup, CommitSuspension
  <2> QED
      BY <1>2, <2>1 DEF EasyStep, GateStep
<1>4. ASSUME NEW outcome \in Outcomes, CommitCompletion(c, outcome)
      PROVE  EasyStep
    BY <1>2, <1>4 DEF CommitCompletion, EasyStep, RunnerStep
<1>5. CASE CommitRefused(c)
    BY <1>5 DEF CommitRefused, EasyStep
<1>6. CASE FailRun(c)
    BY <1>2, <1>6 DEF FailRun, EasyStep, RunnerStep
<1>7. CASE Reconcile(c)
    BY <1>7 DEF Reconcile, EasyStep, GateStep
<1> QED
    BY <1>1, <1>3, <1>4, <1>5, <1>6, <1>7

LEMMA LossesEase ==
    ASSUME LossStep
    PROVE  EasyStep
<1>1. PICK c \in Claims : RecordLoss(c) \/ JudgeLoss(c) \/ DelayOver(c)
    BY DEF LossStep
<1>2. c[1] \in Run /\ c[2] \in Generations /\ Owner(c) \in Project
    BY Names
<1>3. CASE RecordLoss(c)
    BY <1>3 DEF RecordLoss, EasyStep
<1>4. CASE JudgeLoss(c)
    BY <1>2, <1>4 DEF JudgeLoss, EasyStep, RecoveryStep
<1>5. CASE DelayOver(c)
    BY <1>2, <1>5 DEF DelayOver, EasyStep, RunnerStep
<1> QED
    BY <1>1, <1>3, <1>4, <1>5

LEMMA DaemonEases ==
    ASSUME DaemonStep
    PROVE  EasyStep
<1>1. CASE \/ HoldDispatch \/ ReleaseDispatch \/ ForceDrain \/ Shutdown
           \/ ShutdownEnds \/ Crash
    BY <1>1 DEF HoldDispatch, ReleaseDispatch, ForceDrain, Shutdown, ShutdownEnds, Crash,
       Down, EasyStep
<1>2. CASE ForceDrainEnds \/ Restart
    BY <1>2 DEF ForceDrainEnds, Restart, EasyStep, RecoveryStep
<1>3. ASSUME NEW p \in Project, Resume(p) \/ ResumePersisted(p)
      PROVE  EasyStep
  <2>1. \/ UNCHANGED vars
        \/ RecoverAfterRestart(p)
        \/ HoldAfterRestart(p)
      BY <1>3 DEF Resume, ResumePending, ResumeDelayed, ResumeAtOnce, ResumeHeld,
         ResumePersisted
  <2>2. UNCHANGED gateVars
      BY <1>3 DEF Resume, ResumePending, ResumeDelayed, ResumeAtOnce, ResumeHeld,
         ResumePersisted
  <2> QED
      BY <2>1, <2>2 DEF EasyStep, RecoveryStep
<1> QED
    BY <1>1, <1>2, <1>3 DEF DaemonStep

LEMMA CoordinatorEases ==
    ASSUME CoordinatorTypeOK, CancellersHaveTheirCancellation, CoordinatorNext,
           ~PumpReserves, ~\E r \in Run : ClaimDispatch(r)
    PROVE  EasyStep
<1>1. CASE LocationStep
    BY <1>1 DEF LocationStep, BeginLocationChange, StopDrained, DrainSettles,
       CommitLocation, EasyStep, ActivityStep
<1> QED
    BY <1>1, RequestsEase, PumpEases, ProcessesEase, CancellersEase, CommitsEase,
       LossesEase, DaemonEases DEF CoordinatorNext

(* A reservation and a claim are transactions too.                         *)
LEMMA ReservesAndClaims ==
    ASSUME CoordinatorTypeOK, PumpReserves \/ \E r \in Run : ClaimDispatch(r)
    PROVE  GateNext
<1>1. Blocked \in SUBSET Project
    BY DEF CoordinatorTypeOK, Blocked
<1>2. CASE PumpReserves
    BY <1>1, <1>2 DEF PumpReserves, GateNext, Next, DispatchStep
<1>3. CASE \E r \in Run : ClaimDispatch(r)
    BY <1>3 DEF ClaimDispatch, GateNext, Next, DispatchStep
<1> QED
    BY <1>2, <1>3

LEMMA CoordinatorTransacts ==
    ASSUME CoordinatorTypeOK, CancellersHaveTheirCancellation, CoordinatorNext
    PROVE  [GateNext]_<<vars, gateVars>>
    BY ReservesAndClaims, CoordinatorEases, EasyIsTransaction

LEMMA StoresAreKept ==
    ASSUME CoordinatorInv, CoordinatorNext
    PROVE  StoreInv'
    BY CoordinatorTransacts, StoreInvNext, StoreInvStutter DEF CoordinatorInv

-----------------------------------------------------------------------------
(* Types.                                                                  *)

LEMMA ControlNames ==
    ASSUME CoordinatorTypeOK, NEW r \in Run, control[r] # 0
    PROVE  <<r, control[r]>> \in Claims
<1>1. control[r] \in 0 .. MaxGeneration
    BY DEF CoordinatorTypeOK
<1> QED
    BY <1>1, LimitAssumption DEF Claims, Generations

LEMMA MoveTypes ==
    ASSUME CoordinatorTypeOK, NEW d \in Dispatches, NEW to \in Stages, Move(d, to)
    PROVE  stage' \in [Dispatches -> Stages]
    BY DEF CoordinatorTypeOK, Move

LEMMA StopRunnerTypes ==
    ASSUME CoordinatorTypeOK, NEW p \in Project, StopRunner(p)
    PROVE  stops' \subseteq Claims /\ handle' \in [Project -> SUBSET Claims]
    BY DEF CoordinatorTypeOK, StopRunner

LEMMA StopControlsTypes ==
    ASSUME CoordinatorTypeOK, NEW r \in Run, NEW T \in SUBSET Run, StopControls(r, T)
    PROVE  /\ stops' \subseteq Claims
           /\ canceller' \in [Run -> {"none", "looking", "stopping", "reporting"}]
           /\ targets' \in [Run -> SUBSET Run] /\ controls' \in [Run -> SUBSET Claims]
<1> DEFINE found == {<<s, control[s]>> : s \in {s \in T : control[s] # 0}}
<1>1. found \in SUBSET Claims
    BY ControlNames
<1>2. /\ targets' = [targets EXCEPT ![r] = T]
      /\ controls' = [controls EXCEPT ![r] = found]
      /\ canceller' = [canceller EXCEPT ![r] = IF found = {} THEN "looking" ELSE "stopping"]
      /\ stops' = stops \cup found
    BY DEF StopControls
<1> HIDE DEF found
<1> QED
    BY <1>1, <1>2 DEF CoordinatorTypeOK

LEMMA RequestTypes ==
    ASSUME CoordinatorTypeOK, RequestStep
    PROVE  CoordinatorTypeOK'
<1>1. ASSUME NEW r \in Run, NEW g \in Graph, Start(r, g)
      PROVE  CoordinatorTypeOK'
    BY <1>1 DEF CoordinatorTypeOK, Start
<1>2. ASSUME NEW r \in Run, NEW k \in Gate, Answer(r, k)
      PROVE  CoordinatorTypeOK'
    BY <1>2 DEF CoordinatorTypeOK, Answer
<1>3. ASSUME NEW p \in Project, RepairProject(p)
      PROVE  CoordinatorTypeOK'
    BY <1>3 DEF CoordinatorTypeOK, RepairProject
<1>4. ASSUME NEW r \in Run, CancelRun(r)
      PROVE  CoordinatorTypeOK'
  <2>1. /\ stops' \subseteq Claims
        /\ canceller' \in [Run -> {"none", "looking", "stopping", "reporting"}]
        /\ targets' \in [Run -> SUBSET Run] /\ controls' \in [Run -> SUBSET Claims]
      BY <1>4, StopControlsTypes DEF CoordinatorTypeOK, CancelRun
  <2> QED
      BY <1>4, <2>1 DEF CoordinatorTypeOK, CancelRun
<1>5. ASSUME NEW w \in Workflow, StopWorkflow(w)
      PROVE  CoordinatorTypeOK'
    BY <1>5 DEF CoordinatorTypeOK, StopWorkflow
<1>6. ASSUME NEW w \in Workflow, ForceStopWorkflow(w)
      PROVE  CoordinatorTypeOK'
  <2>1. ForceStopTargets(w) \in SUBSET Run
      BY DEF ForceStopTargets
  <2>2. /\ stops' \subseteq Claims
        /\ canceller' \in [Run -> {"none", "looking", "stopping", "reporting"}]
        /\ targets' \in [Run -> SUBSET Run] /\ controls' \in [Run -> SUBSET Claims]
      BY <1>6, <2>1, StopControlsTypes DEF CoordinatorTypeOK, ForceStopWorkflow
  <2> QED
      BY <1>6, <2>2 DEF CoordinatorTypeOK, ForceStopWorkflow
<1> QED
    BY <1>1, <1>2, <1>3, <1>4, <1>5, <1>6 DEF RequestStep

LEMMA PumpTypes ==
    ASSUME RunInv, CoordinatorTypeOK, PumpStep
    PROVE  CoordinatorTypeOK'
<1>1. CASE PumpReserves
  <2>1. PICK r \in reserved' \ reserved :
            /\ \E turns \in SUBSET {s \in InProject(ProjectOf[r]) : Prepares(s)} :
                  ahead' = [ahead EXCEPT ![r] = turns]
            /\ forgot' \in {forgot, forgot \cup {ProjectOf[r]}}
            /\ Move(<<r, 0>>, "preparing")
      BY <1>1 DEF PumpReserves
  <2>2. r \in Run /\ ProjectOf[r] \in Project
      BY <1>1, <2>1, RunAssumption DEF PumpReserves, ReserveNext, Oldest, Preferred,
         Selectable, InProject, RunInv, ClaimInv, CancelInv
  <2>3. ahead' \in [Run -> SUBSET Run]
      BY <2>1 DEF CoordinatorTypeOK, InProject
  <2>5. stage' \in [Dispatches -> Stages]
      BY <2>1, <2>2, Names, MoveTypes DEF Stages
  <2>4. forgot' \subseteq Project
      BY <2>1, <2>2 DEF CoordinatorTypeOK
  <2> QED
      BY <1>1, <2>3, <2>4, <2>5 DEF CoordinatorTypeOK, PumpReserves
<1>2. CASE PumpRests
    BY <1>2 DEF CoordinatorTypeOK, PumpRests
<1>3. ASSUME NEW r \in Run, ClaimDispatch(r)
      PROVE  CoordinatorTypeOK'
    BY <1>3 DEF CoordinatorTypeOK, Stages, Unbroken, ClaimDispatch, TurnOver
<1>4. ASSUME NEW r \in Run, PrepareFails(r)
      PROVE  CoordinatorTypeOK'
    BY <1>4 DEF CoordinatorTypeOK, Stages, Unbroken, PrepareFails, TurnOver, Move
<1>5. ASSUME NEW r \in Run, TakeTurn(r)
      PROVE  CoordinatorTypeOK'
  <2>1. ProjectOf[r] \in Project /\ live \subseteq Claims
      BY RunAssumption DEF CoordinatorTypeOK
  <2> QED
      BY <1>5, <2>1 DEF CoordinatorTypeOK, Stages, TakeTurn, Move
<1>6. ASSUME NEW d \in Dispatches, Settle(d) \/ EndDispatch(d)
      PROVE  CoordinatorTypeOK'
  <2>1. stage' \in [Dispatches -> Stages]
      BY <1>6, MoveTypes DEF Settle, EndDispatch, Stages
  <2> QED
      BY <1>6, <2>1 DEF CoordinatorTypeOK, Settle, EndDispatch
<1> QED
    BY <1>1, <1>2, <1>3, <1>4, <1>5, <1>6 DEF PumpStep

LEMMA ProcessTypes ==
    ASSUME CoordinatorTypeOK, ProcessStep
    PROVE  CoordinatorTypeOK'
<1>1. PICK c \in Claims : \/ StopCurrent(c) \/ Spawn(c) \/ StartFails(c)
                          \/ Attach(c) \/ Attached(c) \/ ConfirmCancelled(c)
                          \/ Finish(c) \/ Break(c) \/ IdleStop(c) \/ StopDone(c)
    BY DEF ProcessStep
<1>2. c[1] \in Run /\ c[2] \in 0 .. MaxGeneration /\ Owner(c) \in Project
    BY Names
<1>3. CASE \/ Spawn(c) \/ StartFails(c) \/ ConfirmCancelled(c)
           \/ Finish(c) \/ Break(c) \/ IdleStop(c)
    BY <1>2, <1>3, LimitAssumption DEF CoordinatorTypeOK, Stages, Unbroken, Spawn,
       StartFails, Unregister, ConfirmCancelled, Finish, Break, IdleStop, Move
<1>4. CASE StopCurrent(c) \/ Attach(c)
    BY <1>2, <1>4 DEF CoordinatorTypeOK, Stages, StopCurrent, StopRunner, Attach, Move
<1>5. CASE Attached(c)
  <2>1. PICK to \in Stages : Move(c, to)
      BY <1>5 DEF Attached, Stages, Unbroken
  <2>2. /\ handle' = [handle EXCEPT ![Owner(c)] = {c}]
        /\ replaced' = replaced \cup (handle[Owner(c)] \cap live)
        /\ stops' \subseteq stops \cup {c}
      BY <1>5 DEF Attached
  <2>3. stage' \in [Dispatches -> Stages]
      BY <2>1 DEF CoordinatorTypeOK, Move
  <2> QED
      BY <1>2, <1>5, <2>2, <2>3 DEF CoordinatorTypeOK, Attached
<1>6. CASE StopDone(c)
  <2>1. stage' \in [Dispatches -> Stages]
      BY <1>6 DEF CoordinatorTypeOK, Stages, Unbroken, StopDone
  <2>2. /\ control' \in [Run -> 0 .. MaxGeneration] /\ handle' \in [Project -> SUBSET Claims]
        /\ awaits' \in [Dispatches -> SUBSET Claims]
        /\ controls' \in [Run -> SUBSET Claims]
      BY <1>2, <1>6, LimitAssumption DEF CoordinatorTypeOK, StopDone, Unregister
  <2> QED
      BY <1>6, <2>1, <2>2 DEF CoordinatorTypeOK, StopDone
<1> QED
    BY <1>1, <1>3, <1>4, <1>5, <1>6

LEMMA DispatchTypes ==
    ASSUME CoordinatorTypeOK, CommitStep \/ LossStep
    PROVE  CoordinatorTypeOK'
<1>1. ASSUME NEW c \in Claims,
             \/ \E k \in Gate : ApplyWakeup(c, k) \/ CommitSuspension(c, k)
             \/ \E outcome \in Outcomes : CommitCompletion(c, outcome)
             \/ CommitRefused(c) \/ FailRun(c) \/ Reconcile(c)
      PROVE  CoordinatorTypeOK'
  <2>1. UNCHANGED stage \/ \E to \in Stages : Move(c, to)
      BY <1>1 DEF ApplyWakeup, CommitSuspension, CommitCompletion, CommitRefused, FailRun,
         Reconcile, Stages, Unbroken
  <2>2. stage' \in [Dispatches -> Stages]
      BY <2>1, Names, MoveTypes DEF CoordinatorTypeOK
  <2>3. recovery' \in [Project -> {"healthy", "pending", "delayed", "retrying", "held",
                                   "uncertain"}]
      BY <1>1 DEF CoordinatorTypeOK, ApplyWakeup, CommitSuspension, CommitCompletion,
         ObserveHealthy, CommitRefused, FailRun, Reconcile
  <2> QED
      BY <1>1, <2>2, <2>3 DEF CoordinatorTypeOK, ApplyWakeup, CommitSuspension,
         CommitCompletion, CommitRefused, FailRun, Reconcile
<1>2. ASSUME NEW c \in Claims, RecordLoss(c) \/ JudgeLoss(c) \/ DelayOver(c)
      PROVE  CoordinatorTypeOK'
  <2>1. \E to \in Stages : Move(c, to)
      BY <1>2 DEF RecordLoss, JudgeLoss, DelayOver, Stages, Unbroken
  <2>2. stage' \in [Dispatches -> Stages]
      BY <2>1, Names, MoveTypes
  <2>3. recovery' \in [Project -> {"healthy", "pending", "delayed", "retrying", "held",
                                   "uncertain"}]
      BY <1>2 DEF CoordinatorTypeOK, RecordLoss, JudgeLoss, DelayOver
  <2>4. CASE RecordLoss(c)
    <3>1. stops' \subseteq Claims /\ handle' \in [Project -> SUBSET Claims]
        BY <2>4, Names, StopRunnerTypes DEF RecordLoss
    <3> QED
        BY <2>2, <2>3, <2>4, <3>1, Names DEF CoordinatorTypeOK, RecordLoss
  <2>5. CASE JudgeLoss(c) \/ DelayOver(c)
      BY <2>2, <2>3, <2>5 DEF CoordinatorTypeOK, JudgeLoss, DelayOver
  <2> QED
      BY <1>2, <2>4, <2>5
<1> QED
    BY <1>1, <1>2 DEF CommitStep, LossStep

LEMMA CancellerTypes ==
    ASSUME CoordinatorTypeOK, CancellerStep
    PROVE  CoordinatorTypeOK'
<1>1. ASSUME NEW r \in Run, FindControls(r)
      PROVE  CoordinatorTypeOK'
  <2>1. targets[r] \in SUBSET Run
      BY DEF CoordinatorTypeOK
  <2> QED
      BY <1>1, <2>1, StopControlsTypes DEF CoordinatorTypeOK, FindControls
<1>2. ASSUME NEW r \in Run, GiveUp(r) \/ ConfirmStopped(r) \/ Report(r)
      PROVE  CoordinatorTypeOK'
    BY <1>2 DEF CoordinatorTypeOK, GiveUp, ConfirmStopped, Report
<1> QED
    BY <1>1, <1>2 DEF CancellerStep

LEMMA DaemonTypes ==
    ASSUME CoordinatorTypeOK, DaemonStep
    PROVE  CoordinatorTypeOK'
<1>1. CASE HoldDispatch \/ ReleaseDispatch \/ ForceDrainEnds
    BY <1>1 DEF CoordinatorTypeOK, HoldDispatch, ReleaseDispatch, ForceDrainEnds
<1>5. CASE ForceDrain \/ Shutdown
  <2>1. stops' \subseteq Claims /\ handle' \in [Project -> SUBSET Claims]
      BY <1>5 DEF CoordinatorTypeOK, ForceDrain, Shutdown, StopRunners
  <2> QED
      BY <1>5, <2>1 DEF CoordinatorTypeOK, ForceDrain, Shutdown
<1>2. CASE ShutdownEnds \/ Crash
  <2>1. Down
      BY <1>2 DEF ShutdownEnds, Crash
  <2>2. 0 \in 0 .. MaxGeneration
      BY LimitAssumption
  <2>3. /\ stage' \in [Dispatches -> Stages] /\ ahead' \in [Run -> SUBSET Run]
        /\ handle' \in [Project -> SUBSET Claims]
        /\ control' \in [Run -> 0 .. MaxGeneration]
        /\ awaits' \in [Dispatches -> SUBSET Claims]
        /\ canceller' \in [Run -> {"none", "looking", "stopping", "reporting"}]
        /\ targets' \in [Run -> SUBSET Run] /\ controls' \in [Run -> SUBSET Claims]
        /\ drain' \in [Project -> {"none", "waiting", "stopping", "drained"}]
      BY <2>1, <2>2 DEF Down, Stages
  <2> QED
      BY <2>1, <2>3 DEF CoordinatorTypeOK, Down
<1>3. CASE Restart
    BY <1>3 DEF CoordinatorTypeOK, Restart
<1>4. ASSUME NEW p \in Project, Resume(p) \/ ResumePersisted(p)
      PROVE  CoordinatorTypeOK'
    BY <1>4 DEF CoordinatorTypeOK, Resume, ResumePending, ResumeDelayed, ResumeAtOnce,
       ResumeHeld, ResumePersisted
<1> QED
    BY <1>1, <1>2, <1>3, <1>4, <1>5 DEF DaemonStep

LEMMA LocationTypes ==
    ASSUME CoordinatorTypeOK, LocationStep
    PROVE  CoordinatorTypeOK'
<1>1. ASSUME NEW p \in Project, StopDrained(p)
      PROVE  CoordinatorTypeOK'
    BY <1>1, StopRunnerTypes DEF CoordinatorTypeOK, StopDrained
<1>2. ASSUME NEW p \in Project, BeginLocationChange(p) \/ DrainSettles(p) \/ CommitLocation(p)
      PROVE  CoordinatorTypeOK'
    BY <1>2 DEF CoordinatorTypeOK, BeginLocationChange, DrainSettles, CommitLocation
<1> QED
    BY <1>1, <1>2 DEF LocationStep

LEMMA CoordinatorTypesKept ==
    ASSUME RunInv, CoordinatorTypeOK, CoordinatorNext
    PROVE  CoordinatorTypeOK'
    BY RequestTypes, PumpTypes, ProcessTypes, DispatchTypes, CancellerTypes, DaemonTypes,
       LocationTypes DEF CoordinatorNext

-----------------------------------------------------------------------------
(* What a step other than a reservation and a claim does to the names.     *)

(* No dispatch begins, no process gets a name that no dispatch had, and a  *)
(* dispatch without a claim at most loads its content or comes to its end. *)
NoNewNames ==
    /\ \A d \in Dispatches : stage'[d] # "none" => stage[d] # "none"
    /\ \A r \in Run : stage'[<<r, 0>>] \in {stage[<<r, 0>>], "none", "loading", "ending",
                                            "restoring"}
    /\ \A c \in Claims : Named(c)' => Named(c)

LEMMA MovesNameNothing ==
    ASSUME CoordinatorTypeOK, NEW d \in Dispatches, stage[d] # "none",
           \E to : Move(d, to) /\ (d[2] = 0 => to \in {"none", "loading", "ending",
                                                       "restoring"}),
           \A c \in live' \cup stops' : c \in live \cup stops \/ Named(c),
           \A p \in Project : \A c \in handle'[p] : c \in handle[p] \/ stage[c] # "none"
    PROVE  NoNewNames
<1>1. PICK to : /\ stage' = [stage EXCEPT ![d] = to]
                /\ d[2] = 0 => to \in {"none", "loading", "ending", "restoring"}
    BY DEF Move
<1>2. \A e \in Dispatches : stage'[e] = IF e = d THEN to ELSE stage[e]
    BY <1>1 DEF CoordinatorTypeOK
<1>3. \A r \in Run : <<r, 0>> \in Dispatches /\ (<<r, 0>> = d => d[2] = 0)
    BY Names
<1>4. \A c \in Claims : Named(c)' => Named(c)
    BY <1>2, Names DEF Named, Owner
<1> QED
    BY <1>1, <1>2, <1>3, <1>4 DEF NoNewNames

LEMMA OthersNameNothing ==
    ASSUME UNCHANGED stage,
           \A c \in live' \cup stops' : c \in live \cup stops \/ Named(c),
           \A p \in Project : handle'[p] \subseteq handle[p]
    PROVE  NoNewNames
    BY Names DEF NoNewNames, Named, Owner

LEMMA ControlsAreLive ==
    ASSUME OneRunner, NEW r \in Run, NEW T \in SUBSET Run, StopControls(r, T)
    PROVE  stops' \subseteq stops \cup live
    BY DEF OneRunner, StopControls

LEMMA RequestNames ==
    ASSUME CoordinatorTypeOK, OneRunner, RequestStep
    PROVE  NoNewNames
<1>1. CASE \/ \E r \in Run, g \in Graph : Start(r, g)
           \/ \E r \in Run, k \in Gate : Answer(r, k)
           \/ \E p \in Project : RepairProject(p)
           \/ \E w \in Workflow : StopWorkflow(w)
    BY <1>1, OthersNameNothing DEF Start, Answer, RepairProject, StopWorkflow
<1>2. ASSUME NEW r \in Run, CancelRun(r)
      PROVE  NoNewNames
  <2>1. stops' \subseteq stops \cup live
      BY <1>2, ControlsAreLive DEF CancelRun
  <2> QED
      BY <1>2, <2>1, OthersNameNothing DEF CancelRun
<1>3. ASSUME NEW w \in Workflow, ForceStopWorkflow(w)
      PROVE  NoNewNames
  <2>1. ForceStopTargets(w) \in SUBSET Run
      BY DEF ForceStopTargets
  <2>2. stops' \subseteq stops \cup live
      BY <1>3, <2>1, ControlsAreLive DEF ForceStopWorkflow
  <2> QED
      BY <1>3, <2>2, OthersNameNothing DEF ForceStopWorkflow
<1> QED
    BY <1>1, <1>2, <1>3 DEF RequestStep

LEMMA PumpNames ==
    ASSUME CoordinatorTypeOK, PumpStep, ~PumpReserves, ~\E r \in Run : ClaimDispatch(r)
    PROVE  NoNewNames
<1>1. CASE PumpRests
    BY <1>1, OthersNameNothing DEF PumpRests
<1>2. ASSUME NEW r \in Run, PrepareFails(r)
      PROVE  NoNewNames
  <2>1. <<r, 0>> \in Dispatches /\ stage[<<r, 0>>] # "none" /\ Move(<<r, 0>>, "ending")
      BY <1>2, Names DEF PrepareFails, Loaded
  <2> QED
      BY <1>2, <2>1, MovesNameNothing DEF PrepareFails
<1>3. ASSUME NEW r \in Run, TakeTurn(r)
      PROVE  NoNewNames
  <2>1. <<r, 0>> \in Dispatches /\ stage[<<r, 0>>] # "none" /\ Move(<<r, 0>>, "loading")
      BY <1>3, Names DEF TakeTurn, HasTurn
  <2>2. stops' \subseteq stops \cup live /\ UNCHANGED live
      BY <1>3 DEF TakeTurn
  <2>3. \A p \in Project : handle'[p] \subseteq handle[p]
      BY <1>3 DEF CoordinatorTypeOK, TakeTurn
  <2> QED
      BY <2>1, <2>2, <2>3, MovesNameNothing
<1>4. ASSUME NEW d \in Dispatches, Settle(d) \/ EndDispatch(d)
      PROVE  NoNewNames
  <2>1. stage[d] # "none" /\ \E to \in {"none", "restoring"} : Move(d, to)
      BY <1>4 DEF Settle, EndDispatch
  <2>2. UNCHANGED <<live, stops, handle>>
      BY <1>4 DEF Settle, EndDispatch
  <2> QED
      BY <2>1, <2>2, MovesNameNothing
<1> QED
    BY <1>1, <1>2, <1>3, <1>4 DEF PumpStep

LEMMA ProcessNames ==
    ASSUME CoordinatorTypeOK, ProcessStep
    PROVE  NoNewNames
<1>1. PICK c \in Claims : \/ StopCurrent(c) \/ Spawn(c) \/ StartFails(c)
                          \/ Attach(c) \/ Attached(c) \/ ConfirmCancelled(c)
                          \/ Finish(c) \/ Break(c) \/ IdleStop(c) \/ StopDone(c)
    BY DEF ProcessStep
<1>2. c \in Dispatches /\ c[2] # 0 /\ Owner(c) \in Project
    BY Names
<1>3. CASE ~IdleStop(c) /\ ~StopDone(c)
  <2>1. stage[c] # "none" /\ \E to : Move(c, to)
      BY <1>1, <1>3 DEF StopCurrent, Spawn, StartFails, Attach, Attached,
         ConfirmCancelled, Finish, Break
  <2>2. \A d \in live' \cup stops' : d \in live \cup stops \cup {c}
      BY <1>1, <1>3 DEF StopCurrent, StopRunner, Spawn, StartFails, Attach, Attached,
         ConfirmCancelled, Finish, Break
  <2>3. \A p \in Project : handle'[p] \subseteq handle[p] \cup {c}
      BY <1>1, <1>2, <1>3 DEF CoordinatorTypeOK, StopCurrent, StopRunner, Spawn,
         StartFails, Attach, Attached, ConfirmCancelled, Finish, Break
  <2> QED
      BY <1>2, <2>1, <2>2, <2>3, MovesNameNothing DEF Named
<1>4. CASE IdleStop(c)
    BY <1>4, OthersNameNothing DEF IdleStop
<1>5. CASE StopDone(c)
  <2>1. live' \subseteq live /\ stops' \subseteq stops
      BY <1>5 DEF StopDone
  <2>2. \A p \in Project : handle'[p] \subseteq handle[p]
      BY <1>2, <1>5 DEF CoordinatorTypeOK, StopDone
  <2>3. \E to : Move(c, to)
      BY <1>5 DEF StopDone, Move
  <2>4. CASE stage[c] = "none"
    <3>1. stage' = stage
        BY <1>2, <1>5, <2>4 DEF CoordinatorTypeOK, StopDone
    <3> QED
        BY <2>1, <2>2, <3>1, OthersNameNothing
  <2>5. CASE stage[c] # "none"
      BY <1>2, <2>1, <2>2, <2>3, <2>5, MovesNameNothing
  <2> QED
      BY <2>4, <2>5
<1> QED
    BY <1>1, <1>3, <1>4, <1>5

LEMMA DispatchNames ==
    ASSUME CoordinatorTypeOK, CommitStep \/ LossStep
    PROVE  NoNewNames
<1>1. ASSUME NEW c \in Claims,
             \/ \E k \in Gate : ApplyWakeup(c, k) \/ CommitSuspension(c, k)
             \/ \E outcome \in Outcomes : CommitCompletion(c, outcome)
             \/ CommitRefused(c) \/ FailRun(c) \/ Reconcile(c)
      PROVE  NoNewNames
  <2>1. \/ UNCHANGED stage
        \/ stage[c] # "none" /\ \E to \in {"ending", "failed", "reconciling"} : Move(c, to)
      BY <1>1 DEF ApplyWakeup, CommitSuspension, Committable, CommitCompletion,
         CommitRefused, FailRun, Reconcile
  <2>2. UNCHANGED <<live, stops, handle>>
      BY <1>1 DEF ApplyWakeup, CommitSuspension, CommitCompletion, CommitRefused, FailRun,
         Reconcile
  <2> QED
      BY <2>1, <2>2, Names, MovesNameNothing, OthersNameNothing
<1>2. ASSUME NEW c \in Claims, RecordLoss(c) \/ JudgeLoss(c) \/ DelayOver(c)
      PROVE  NoNewNames
  <2>1. stage[c] # "none" /\ \E to : Move(c, to)
      BY <1>2 DEF RecordLoss, JudgeLoss, DelayOver
  <2>2. live' = live /\ stops' \subseteq stops \cup live
      BY <1>2 DEF RecordLoss, StopRunner, JudgeLoss, DelayOver
  <2>3. \A p \in Project : handle'[p] \subseteq handle[p]
      BY <1>2 DEF CoordinatorTypeOK, RecordLoss, StopRunner, JudgeLoss, DelayOver
  <2> QED
      BY <2>1, <2>2, <2>3, Names, MovesNameNothing
<1> QED
    BY <1>1, <1>2 DEF CommitStep, LossStep

LEMMA CancellerNames ==
    ASSUME CoordinatorTypeOK, OneRunner, CancellerStep
    PROVE  NoNewNames
<1>1. ASSUME NEW r \in Run, FindControls(r)
      PROVE  NoNewNames
  <2>1. stops' \subseteq stops \cup live
      BY <1>1, ControlsAreLive DEF FindControls, CoordinatorTypeOK
  <2> QED
      BY <1>1, <2>1, OthersNameNothing DEF FindControls
<1>2. ASSUME NEW r \in Run, GiveUp(r) \/ ConfirmStopped(r) \/ Report(r)
      PROVE  NoNewNames
    BY <1>2, OthersNameNothing DEF GiveUp, ConfirmStopped, Report
<1> QED
    BY <1>1, <1>2 DEF CancellerStep

LEMMA DaemonNames ==
    ASSUME CoordinatorTypeOK, DaemonStep
    PROVE  NoNewNames
<1>1. CASE HoldDispatch \/ ReleaseDispatch \/ ForceDrainEnds \/ Restart
    BY <1>1, OthersNameNothing DEF HoldDispatch, ReleaseDispatch, ForceDrainEnds, Restart
<1>2. CASE ForceDrain \/ Shutdown
  <2>1. UNCHANGED <<stage, live>> /\ StopRunners
      BY <1>2 DEF ForceDrain, Shutdown
  <2>2. stops' \subseteq stops \cup live
      BY <2>1 DEF StopRunners
  <2>3. \A p \in Project : handle'[p] \subseteq handle[p]
      BY <2>1 DEF StopRunners
  <2> QED
      BY <2>1, <2>2, <2>3, OthersNameNothing
<1>3. CASE ShutdownEnds \/ Crash
  <2>1. Down
      BY <1>3 DEF ShutdownEnds, Crash
  <2> QED
      BY <2>1, Names DEF Down, NoNewNames, Named
<1>4. ASSUME NEW p \in Project, Resume(p) \/ ResumePersisted(p)
      PROVE  NoNewNames
    BY <1>4, OthersNameNothing DEF Resume, ResumePending, ResumeDelayed, ResumeAtOnce,
       ResumeHeld, ResumePersisted
<1> QED
    BY <1>1, <1>2, <1>3, <1>4 DEF DaemonStep

LEMMA LocationNames ==
    ASSUME CoordinatorTypeOK, LocationStep
    PROVE  NoNewNames
<1>1. ASSUME NEW p \in Project, StopDrained(p)
      PROVE  NoNewNames
  <2>1. /\ UNCHANGED <<stage, live>> /\ stops' \subseteq stops \cup live
        /\ \A q \in Project : handle'[q] \subseteq handle[q]
      BY <1>1 DEF CoordinatorTypeOK, StopDrained, StopRunner
  <2> QED
      BY <2>1, OthersNameNothing
<1>2. ASSUME NEW p \in Project, BeginLocationChange(p) \/ DrainSettles(p) \/ CommitLocation(p)
      PROVE  NoNewNames
    BY <1>2, OthersNameNothing DEF BeginLocationChange, DrainSettles, CommitLocation
<1> QED
    BY <1>1, <1>2 DEF LocationStep

LEMMA OtherStepsNameNothing ==
    ASSUME CoordinatorTypeOK, OneRunner, CoordinatorNext,
           ~PumpReserves, ~\E r \in Run : ClaimDispatch(r)
    PROVE  NoNewNames
    BY RequestNames, PumpNames, ProcessNames, DispatchNames, CancellerNames, DaemonNames,
       LocationNames DEF CoordinatorNext

-----------------------------------------------------------------------------
(* A reservation and a claim.                                              *)

LEMMA Reserves ==
    ASSUME CoordinatorTypeOK, PumpReserves
    PROVE  \E r \in Run :
              /\ r \notin reserved /\ reserved' = reserved \cup {r}
              /\ queue[r] # "none" /\ SameGraph(r, Slots \cup reserved)
              /\ ProjectOf[r] \in Project \ Blocked
              /\ ~Prepares(r)
              /\ \E turns \in SUBSET {s \in Run : ProjectOf[s] = ProjectOf[r] /\ Prepares(s)} :
                    /\ \/ turns = {s \in Run : ProjectOf[s] = ProjectOf[r] /\ Prepares(s)}
                       \/ ProjectOf[r] \in forgot
                    /\ ahead' = [ahead EXCEPT ![r] = turns]
              /\ forgot \subseteq forgot'
              /\ stage' = [stage EXCEPT ![<<r, 0>>] = "preparing"]
              /\ UNCHANGED <<state, graph, queue, claimVars, cancelVars>>
<1>1. PICK p \in InTurn(Candidates(Blocked)) :
          \E r \in Oldest(Preferred(p)) : reserved' = reserved \cup {r}
    BY DEF PumpReserves, ReserveNext
<1>2. PICK r \in Oldest(Preferred(p)) : reserved' = reserved \cup {r}
    BY <1>1
<1>3. p \in Project \ Blocked
    BY DEF InTurn, Candidates
<1>4. r \in Selectable(p, "new") \cup Selectable(p, "continuation")
    BY <1>2 DEF Oldest, Preferred
<1>5. /\ r \in Run /\ ProjectOf[r] = p /\ r \notin reserved
      /\ queue[r] # "none" /\ SameGraph(r, Slots \cup reserved)
    BY <1>4 DEF Selectable, InProject
<1>6. PICK s \in reserved' \ reserved :
          /\ ~Prepares(s)
          /\ \E turns \in SUBSET {t \in InProject(ProjectOf[s]) : Prepares(t)} :
                /\ \/ turns = {t \in InProject(ProjectOf[s]) : Prepares(t)}
                   \/ ProjectOf[s] \in forgot
                /\ ahead' = [ahead EXCEPT ![s] = turns]
          /\ forgot \subseteq forgot'
          /\ Move(<<s, 0>>, "preparing")
    BY DEF PumpReserves
<1>7. s = r
    BY <1>2, <1>6
<1>8. {t \in InProject(ProjectOf[r]) : Prepares(t)}
        = {t \in Run : ProjectOf[t] = ProjectOf[r] /\ Prepares(t)}
    BY DEF InProject
<1>9. UNCHANGED <<state, graph, queue, claimVars, cancelVars>>
    BY DEF PumpReserves, ReserveNext
<1> QED
    BY <1>2, <1>3, <1>5, <1>6, <1>7, <1>8, <1>9 DEF Move

LEMMA ClaimsOne ==
    ASSUME RunInv, CoordinatorTypeOK, NEW r \in Run, ClaimDispatch(r)
    PROVE  /\ stage[<<r, 0>>] = "loading" /\ r \in reserved /\ reserved' = reserved \ {r}
           /\ slot[r] = 0 /\ state[r] = "queued"
           /\ generation[r] + 1 \in Generations
           /\ <<r, generation[r] + 1>> \in Claims
           /\ generation' = [generation EXCEPT ![r] = generation[r] + 1]
           /\ slot' = [slot EXCEPT ![r] = generation[r] + 1]
           /\ state' = [state EXCEPT ![r] = "executing"]
           /\ queue' = [queue EXCEPT ![r] = "none"]
           /\ stage' = [stage EXCEPT ![<<r, 0>>] = "none",
                                     ![<<r, generation[r] + 1>>] = "claimed"]
           /\ TurnOver(r)
           /\ UNCHANGED <<graph, cancelVars>>
<1>1. generation[r] \in 0 .. MaxGeneration /\ generation[r] < MaxGeneration
    BY DEF ClaimDispatch, ClaimReserved, TakeSlot, RunInv, ClaimInv, CancelInv
<1>2. generation[r] + 1 \in Generations
    BY <1>1, LimitAssumption DEF Generations
<1> QED
    BY <1>2 DEF ClaimDispatch, Loaded, ClaimReserved, TakeSlot, Claims

LEMMA NamesStayOld ==
    ASSUME CoordinatorInv, CoordinatorNext
    PROVE  NamesAreOld'
<1> USE DEF CoordinatorInv, StoreInv, RunInv, ClaimInv, CancelInv
<1>1. CASE PumpReserves
  <2>1. PICK r \in Run : stage' = [stage EXCEPT ![<<r, 0>>] = "preparing"]
      BY <1>1, Reserves
  <2>2. generation' = generation /\ UNCHANGED <<live, stops, handle>>
      BY <1>1 DEF PumpReserves, ReserveNext
  <2>3. \A s \in Run : stage'[<<s, 0>>] \in {stage[<<s, 0>>], "preparing"}
      BY <2>1, Names DEF CoordinatorTypeOK
  <2>4. \A d \in Dispatches : stage'[d] # "none" => stage[d] # "none" \/ d[2] = 0
      BY <2>1, Names DEF CoordinatorTypeOK
  <2>5. \A d \in Dispatches : 0 <= generation[d[1]]
      BY Names, LimitAssumption
  <2> QED
      BY <2>2, <2>3, <2>4, <2>5 DEF NamesAreOld, Named, Owner
<1>2. ASSUME NEW r \in Run, ClaimDispatch(r)
      PROVE  NamesAreOld'
  <2> DEFINE c == <<r, generation[r] + 1>>
  <2>1. /\ c \in Claims /\ generation' = [generation EXCEPT ![r] = generation[r] + 1]
        /\ stage' = [stage EXCEPT ![<<r, 0>>] = "none", ![c] = "claimed"]
        /\ UNCHANGED <<live, stops, handle>>
      BY <1>2, ClaimsOne DEF ClaimDispatch
  <2>2. \A s \in Run : /\ generation[s] \in Nat /\ generation'[s] \in Nat
                       /\ generation[s] <= generation'[s]
      BY <2>1, LimitAssumption
  <2>3. \A s \in Run : stage'[<<s, 0>>] \in {stage[<<s, 0>>], "none"}
      BY <2>1, Names DEF CoordinatorTypeOK
  <2>4. \A d \in Dispatches : Named(d)' => Named(d) \/ d = c
      BY <2>1 DEF CoordinatorTypeOK, Named, Owner
  <2>5. \A d \in Dispatches : d[1] \in Run /\ d[2] \in Nat
      BY Names, LimitAssumption
  <2>6. ASSUME NEW d \in Dispatches, Named(d)'
        PROVE  d[2] <= generation'[d[1]]
    <3>1. CASE d = c
        BY <2>1, <3>1
    <3>2. CASE d # c
      <4>1. d[2] <= generation[d[1]]
          BY <2>4, <2>6, <3>2 DEF NamesAreOld
      <4> QED
          BY <2>2, <2>5, <4>1
    <3> QED
        BY <3>1, <3>2
  <2> QED
      BY <2>3, <2>6 DEF NamesAreOld
<1>3. CASE ~PumpReserves /\ ~\E r \in Run : ClaimDispatch(r)
  <2>1. NoNewNames
      BY <1>3, OtherStepsNameNothing
  <2>2. generation' = generation
      BY <1>3, CoordinatorEases, EasyStepEases DEF Eases
  <2>3. \A d \in Dispatches : Named(d)' => Named(d) \/ d[2] = 0
    <3> SUFFICES ASSUME NEW d \in Dispatches, d[2] # 0, Named(d)'
                 PROVE  Named(d)
        OBVIOUS
    <3> QED
        BY <2>1, Names DEF NoNewNames
  <2>4. \A d \in Dispatches : d[2] = 0 => d[2] <= generation[d[1]]
      BY Names, LimitAssumption
  <2> QED
      BY <2>1, <2>2, <2>3, <2>4 DEF NamesAreOld, NoNewNames
<1> QED
    BY <1>1, <1>2, <1>3

-----------------------------------------------------------------------------
(* One runner for a Project.                                               *)

InStartUp(c) == stage[c] \in {"claimed", "clearing", "starting", "attaching"}

CancelsStay == \A r \in Run : cancel[r] # "none" => cancel'[r] # "none"

(* A step that starts, attaches and ends no process, drops none that runs, *)
(* and asks to stop none that is started up but for a cancellation.        *)
StartsNoProcess ==
    /\ UNCHANGED <<live, control, replaced>>
    /\ \A p \in Project : /\ handle'[p] \subseteq handle[p]
                          /\ \A c \in handle[p] : c \in handle'[p] \/ c \notin live
    /\ \A c \in Claims : \/ stage'[c] = stage[c]
                         \/ stage[c] = "claimed" /\ stage'[c] = "clearing"
                         \/ /\ ~InStartUp(c)'
                            /\ stage[c] \notin {"starting", "attaching"}
    /\ \A c \in stops' : \/ c \in stops \/ ~InStartUp(c) \/ c \in handle[Owner(c)]
                         \/ control[c[1]] = c[2] /\ cancel'[c[1]] # "none"

LEMMA BystandersKeepRunners ==
    ASSUME CoordinatorTypeOK, OneRunner, CancelsStay, StartsNoProcess
    PROVE  OneRunner'
<1>1. \A c \in Claims :
          /\ stage'[c] = "starting" <=> stage[c] = "starting"
          /\ stage'[c] = "attaching" <=> stage[c] = "attaching"
          /\ stage'[c] \in {"claimed", "clearing"} => stage[c] \in {"claimed", "clearing"}
    BY DEF StartsNoProcess, InStartUp
<1>2. \A c \in Claims : c[1] \in Run /\ Owner(c) \in Project
    BY Names
<1>3. \A c \in Claims : InStartUp(c) => c \notin handle[Owner(c)]
    BY DEF InStartUp, OneRunner
<1>4. \A c \in Claims : stage'[c] \in {"claimed", "clearing", "starting"} =>
          c \notin stops' /\ c \notin handle'[Owner(c)] /\ control'[c[1]] # c[2]
    BY <1>1, <1>2, <1>3 DEF OneRunner, StartsNoProcess, InStartUp
<1>5. \A c \in Claims : stage'[c] = "attaching" =>
          /\ c \notin handle'[Owner(c)]
          /\ c \in live' \ stops' \/ cancel'[c[1]] # "none"
    BY <1>1, <1>2, <1>3 DEF OneRunner, StartsNoProcess, InStartUp, CancelsStay
<1>6. \A c \in live' : \/ stage'[c] \in {"starting", "attaching"}
                       \/ c \in handle'[Owner(c)] \cup replaced'
    BY <1>1, <1>2 DEF OneRunner, StartsNoProcess, CoordinatorTypeOK
<1>7. \A p \in Project : \A c \in handle'[p] :
          Owner(c) = p /\ (c \in live' \/ cancel'[c[1]] # "none")
    BY <1>2 DEF OneRunner, StartsNoProcess, CancelsStay, CoordinatorTypeOK
<1> QED
    BY <1>1, <1>4, <1>5, <1>6, <1>7 DEF OneRunner, StartsNoProcess, Owner

LEMMA StopControlsStopsAttached ==
    ASSUME NEW r \in Run, NEW T \in SUBSET Run, StopControls(r, T)
    PROVE  \A c \in stops' : c \in stops \/ (c[1] \in T /\ control[c[1]] = c[2])
    BY DEF StopControls

LEMMA HandlesAreOwned ==
    ASSUME OneRunner, NEW p \in Project
    PROVE  \A c \in handle[p] : Owner(c) = p
    BY DEF OneRunner

LEMMA StopRunnerStopsAttached ==
    ASSUME CoordinatorTypeOK, OneRunner, NEW p \in Project, StopRunner(p)
    PROVE  /\ \A q \in Project : /\ handle'[q] \subseteq handle[q]
                                 /\ \A c \in handle[q] : c \in handle'[q] \/ c \notin live
           /\ \A c \in stops' : c \in stops \/ c \in handle[Owner(c)]
    BY HandlesAreOwned DEF CoordinatorTypeOK, StopRunner

(* Who is stopped by a cancellation has it on record.                      *)
LEMMA RequestedRunsAreCancelled ==
    /\ \A r \in Run : RunInv /\ RequestCancellation(r) => cancel'[r] # "none"
    /\ \A w \in Workflow : RunInv /\ ForceStop(w) =>
          \A r \in ForceStopTargets(w) : cancel'[r] # "none"
<1>1. ASSUME NEW r \in Run, RunInv, RequestCancellation(r)
      PROVE  cancel'[r] # "none"
    BY <1>1 DEF RequestCancellation, RunInv, ClaimInv, CancelInv
<1>2. ASSUME NEW w \in Workflow, RunInv, ForceStop(w), NEW r \in ForceStopTargets(w)
      PROVE  cancel'[r] # "none"
    BY <1>2 DEF ForceStop, ForceStopTargets, RunInv, ClaimInv, CancelInv
<1> QED
    BY <1>1, <1>2

LEMMA RequestRunners ==
    ASSUME RunInv, RequestStep
    PROVE  StartsNoProcess
<1>1. CASE \/ \E r \in Run, g \in Graph : Start(r, g)
           \/ \E r \in Run, k \in Gate : Answer(r, k)
           \/ \E p \in Project : RepairProject(p)
           \/ \E w \in Workflow : StopWorkflow(w)
    BY <1>1 DEF Start, Answer, RepairProject, StopWorkflow, StartsNoProcess
<1>2. ASSUME NEW r \in Run, CancelRun(r)
      PROVE  StartsNoProcess
  <2>1. cancel'[r] # "none"
      BY <1>2, RequestedRunsAreCancelled DEF CancelRun
  <2>2. \A c \in stops' : c \in stops \/ (c[1] \in {r} /\ control[c[1]] = c[2])
      BY <1>2, StopControlsStopsAttached DEF CancelRun
  <2> QED
      BY <1>2, <2>1, <2>2 DEF CancelRun, StartsNoProcess
<1>3. ASSUME NEW w \in Workflow, ForceStopWorkflow(w)
      PROVE  StartsNoProcess
  <2>1. \A r \in ForceStopTargets(w) : cancel'[r] # "none"
      BY <1>3, RequestedRunsAreCancelled DEF ForceStopWorkflow
  <2>2. ForceStopTargets(w) \in SUBSET Run
      BY DEF ForceStopTargets
  <2>3. \A c \in stops' : \/ c \in stops
                          \/ c[1] \in ForceStopTargets(w) /\ control[c[1]] = c[2]
      BY <1>3, <2>2, StopControlsStopsAttached DEF ForceStopWorkflow
  <2> QED
      BY <1>3, <2>1, <2>3 DEF ForceStopWorkflow, StartsNoProcess
<1> QED
    BY <1>1, <1>2, <1>3 DEF RequestStep

(* The claim has a generation that no process has.                         *)
LEMMA ClaimRunners ==
    ASSUME CoordinatorInv, NEW r \in Run, ClaimDispatch(r)
    PROVE  OneRunner'
<1> USE DEF CoordinatorInv, StoreInv, RunInv, ClaimInv, CancelInv
<1> DEFINE c == <<r, generation[r] + 1>>
<1>1. /\ c \in Claims /\ c[1] = r /\ c[2] = generation[r] + 1
      /\ stage' = [stage EXCEPT ![<<r, 0>>] = "none", ![c] = "claimed"]
      /\ UNCHANGED <<processVars, cancel>>
    BY ClaimsOne DEF ClaimDispatch
<1>2. \A d \in Claims : /\ d # c => stage'[d] = stage[d]
                        /\ stage'[c] = "claimed"
    BY <1>1, Names DEF CoordinatorTypeOK
<1>3. generation[r] \in Nat /\ c \in Dispatches
    BY <1>1, Names, LimitAssumption
<1>4. c \notin live \cup stops /\ stage[c] = "none" /\ c \notin handle[Owner(c)]
    BY <1>1, <1>3 DEF NamesAreOld, Named
<1>5. control[r] # generation[r] + 1
    BY <1>1, <1>3, <1>4, Names DEF OneRunner
<1>6. OneRunner /\ live \subseteq Claims
    BY DEF CoordinatorTypeOK
<1> HIDE DEF CoordinatorInv, StoreInv, RunInv, ClaimInv, CancelInv, c
<1>7. \A d \in Claims : stage'[d] \in {"claimed", "clearing", "starting"} =>
          d \notin stops' /\ d \notin handle'[Owner(d)] /\ control'[d[1]] # d[2]
    BY <1>1, <1>2, <1>4, <1>5, <1>6 DEF OneRunner
<1>8. \A d \in live' : \/ stage'[d] \in {"starting", "attaching"}
                       \/ d \in handle'[Owner(d)] \cup replaced'
    BY <1>1, <1>2, <1>4, <1>6 DEF OneRunner
<1>9. /\ \A d \in Claims : stage'[d] = "starting" => d \in live'
      /\ \A d \in Claims : stage'[d] = "attaching" =>
            /\ d \notin handle'[Owner(d)]
            /\ d \in live' \ stops' \/ cancel'[d[1]] # "none"
    BY <1>1, <1>2, <1>6 DEF OneRunner
<1> QED
    BY <1>1, <1>6, <1>7, <1>8, <1>9 DEF OneRunner, Owner

LEMMA PumpRunners ==
    ASSUME CoordinatorInv, PumpStep, ~\E r \in Run : ClaimDispatch(r)
    PROVE  StartsNoProcess
<1> USE DEF CoordinatorInv
<1>1. CASE PumpReserves
  <2>1. PICK r \in Run : stage' = [stage EXCEPT ![<<r, 0>>] = "preparing"]
      BY <1>1, Reserves
  <2>2. \A c \in Claims : stage'[c] = stage[c]
      BY <2>1, Names DEF CoordinatorTypeOK
  <2> QED
      BY <1>1, <2>2 DEF PumpReserves, StartsNoProcess
<1>2. CASE PumpRests
    BY <1>2 DEF PumpRests, StartsNoProcess
<1>3. ASSUME NEW r \in Run, PrepareFails(r)
      PROVE  StartsNoProcess
  <2>1. \A c \in Claims : stage'[c] = stage[c]
      BY <1>3, Names DEF CoordinatorTypeOK, PrepareFails, Move
  <2> QED
      BY <1>3, <2>1 DEF PrepareFails, StartsNoProcess
<1>4. ASSUME NEW r \in Run, TakeTurn(r)
      PROVE  StartsNoProcess
  <2>1. \A c \in Claims : stage'[c] = stage[c]
      BY <1>4, Names DEF CoordinatorTypeOK, TakeTurn, Move
  <2>2. \A c \in stops' : c \in stops \/ c \in handle[ProjectOf[r]]
      BY <1>4 DEF TakeTurn
  <2>3. \A p \in Project : /\ handle'[p] \subseteq handle[p]
                           /\ \A c \in handle[p] : c \in handle'[p] \/ c \notin live
      BY <1>4 DEF TakeTurn, CoordinatorTypeOK
  <2>4. \A c \in stops' : c \in stops \/ c \in handle[Owner(c)]
      BY <2>2, HandlesAreOwned, RunAssumption
  <2> QED
      BY <1>4, <2>1, <2>3, <2>4 DEF TakeTurn, StartsNoProcess
<1>5. ASSUME NEW d \in Dispatches, Settle(d) \/ EndDispatch(d)
      PROVE  StartsNoProcess
    BY <1>5, Names DEF CoordinatorTypeOK, Settle, EndDispatch, Move, StartsNoProcess,
       InStartUp
<1> QED
    BY <1>1, <1>2, <1>3, <1>4, <1>5 DEF PumpStep

LEMMA SpawnRunners ==
    ASSUME CoordinatorTypeOK, OneRunner, NEW c \in Claims, Spawn(c)
    PROVE  OneRunner'
<1>1. \A d \in Claims : stage'[d] = IF d = c THEN "starting" ELSE stage[d]
    BY Names DEF CoordinatorTypeOK, Spawn, Move
<1>2. /\ live' = live \cup {c} /\ UNCHANGED <<stops, handle, control, replaced, cancel>>
      /\ stage[c] = "clearing"
    BY DEF Spawn, vars
<1>3. \A d \in Claims : stage'[d] \in {"claimed", "clearing", "starting"} =>
          d \notin stops' /\ d \notin handle'[Owner(d)] /\ control'[d[1]] # d[2]
    BY <1>1, <1>2 DEF OneRunner
<1>4. \A d \in live' : \/ stage'[d] \in {"starting", "attaching"}
                       \/ d \in handle'[Owner(d)] \cup replaced'
    BY <1>1, <1>2 DEF OneRunner, CoordinatorTypeOK
<1>5. \A d \in Claims : stage'[d] = "starting" => d \in live'
    BY <1>1, <1>2 DEF OneRunner
<1>6. \A d \in Claims : stage'[d] = "attaching" =>
          d \notin handle'[Owner(d)] /\ (d \in live' \ stops' \/ cancel'[d[1]] # "none")
    BY <1>1, <1>2 DEF OneRunner
<1> QED
    BY <1>2, <1>3, <1>4, <1>5, <1>6 DEF OneRunner, Owner

LEMMA StartFailsRunners ==
    ASSUME CoordinatorTypeOK, OneRunner, NEW c \in Claims, StartFails(c)
    PROVE  OneRunner'
<1>1. /\ \A d \in Claims : d # c => stage'[d] = stage[d]
      /\ stage'[c] \in {"failed", "lost"}
    BY Names DEF CoordinatorTypeOK, StartFails, Move
<1>2. /\ live' = live \ {c} /\ UNCHANGED <<stops, handle, replaced, cancel>>
      /\ stage[c] = "starting"
      /\ \A r \in Run : control'[r] = IF r = c[1] THEN 0 ELSE control[r]
    BY DEF CoordinatorTypeOK, StartFails, Unregister, vars
<1>3. \A p \in Project : c \notin handle[p]
    BY <1>2, HandlesAreOwned DEF OneRunner
<1>4. \A r \in Run : control'[r] # 0 => control'[r] = control[r] /\ <<r, control[r]>> # c
    BY <1>2, Names
<1>5. \A d \in Claims : stage'[d] \in {"claimed", "clearing", "starting"} =>
          d \notin stops' /\ d \notin handle'[Owner(d)] /\ control'[d[1]] # d[2]
    BY <1>1, <1>2, Names DEF OneRunner
<1>6. /\ \A d \in live' : \/ stage'[d] \in {"starting", "attaching"}
                          \/ d \in handle'[Owner(d)] \cup replaced'
      /\ \A d \in Claims : stage'[d] = "starting" => d \in live'
    BY <1>1, <1>2 DEF OneRunner, CoordinatorTypeOK
<1>7. \A d \in Claims : stage'[d] = "attaching" =>
          d \notin handle'[Owner(d)] /\ (d \in live' \ stops' \/ cancel'[d[1]] # "none")
    BY <1>1, <1>2 DEF OneRunner
<1>8. /\ \A r \in Run : control'[r] # 0 => <<r, control'[r]>> \in live'
      /\ \A p \in Project : \A d \in handle'[p] :
            Owner(d) = p /\ (d \in live' \/ cancel'[d[1]] # "none")
    BY <1>2, <1>3, <1>4 DEF OneRunner
<1> QED
    BY <1>2, <1>5, <1>6, <1>7, <1>8 DEF OneRunner, Owner

LEMMA AttachRunners ==
    ASSUME CoordinatorTypeOK, OneRunner, NEW c \in Claims, Attach(c)
    PROVE  OneRunner'
<1>1. \A d \in Claims : stage'[d] = IF d = c THEN "attaching" ELSE stage[d]
    BY Names DEF CoordinatorTypeOK, Attach, Move
<1>2. /\ UNCHANGED <<live, handle, replaced, cancel>>
      /\ stops' \subseteq stops \cup handle[Owner(c)] /\ stage[c] = "starting"
      /\ \A r \in Run : control'[r] = IF r = c[1] THEN c[2] ELSE control[r]
    BY DEF CoordinatorTypeOK, Attach, vars
<1>3. c \in live /\ <<c[1], c[2]>> = c /\ Owner(c) \in Project
    BY <1>2, Names DEF OneRunner
<1>4. \A d \in handle[Owner(c)] : Owner(d) = Owner(c)
    BY <1>3, HandlesAreOwned
<1>5. \A d \in stops' : d \in stops \/ d \in handle[Owner(d)]
    BY <1>2, <1>4
<1>6. \A d \in Claims : stage'[d] \in {"claimed", "clearing", "starting"} =>
          d \notin stops' /\ d \notin handle'[Owner(d)] /\ control'[d[1]] # d[2]
    BY <1>1, <1>2, <1>5, Names DEF OneRunner
<1>7. \A r \in Run : control'[r] # 0 => <<r, control'[r]>> \in live'
    BY <1>2, <1>3 DEF OneRunner
<1>8. /\ \A d \in live' : \/ stage'[d] \in {"starting", "attaching"}
                          \/ d \in handle'[Owner(d)] \cup replaced'
      /\ \A d \in Claims : stage'[d] = "starting" => d \in live'
    BY <1>1, <1>2 DEF OneRunner, CoordinatorTypeOK
<1>9. \A d \in Claims : stage'[d] = "attaching" =>
          d \notin handle'[Owner(d)] /\ (d \in live' \ stops' \/ cancel'[d[1]] # "none")
    BY <1>1, <1>2, <1>3, <1>5 DEF OneRunner
<1> QED
    BY <1>2, <1>6, <1>7, <1>8, <1>9 DEF OneRunner, Owner

LEMMA AttachedRunners ==
    ASSUME CoordinatorTypeOK, OneRunner, NEW c \in Claims, Attached(c)
    PROVE  OneRunner'
<1>1. /\ \A d \in Claims : d # c => stage'[d] = stage[d]
      /\ stage'[c] \in {"cancelling", "running", "lost"}
    BY Names DEF CoordinatorTypeOK, Attached, Move
<1>2. /\ UNCHANGED <<live, control, cancel>> /\ stage[c] = "attaching"
      /\ stops' \subseteq stops \cup {c}
      /\ \A p \in Project : handle'[p] = IF p = Owner(c) THEN {c} ELSE handle[p]
      /\ replaced' = replaced \cup (handle[Owner(c)] \cap live)
    BY DEF CoordinatorTypeOK, Attached, vars
<1>3. Owner(c) \in Project /\ (c \in live \/ cancel[c[1]] # "none")
    BY <1>2, Names DEF OneRunner
<1>4. \A d \in Claims : Owner(d) \in Project
    BY Names
<1>5. /\ \A d \in Claims : stage'[d] \in {"claimed", "clearing", "starting"} =>
            d \notin stops' /\ d \notin handle'[Owner(d)] /\ control'[d[1]] # d[2]
      /\ \A d \in Claims : stage'[d] = "attaching" =>
            /\ d \notin handle'[Owner(d)]
            /\ d \in live' \ stops' \/ cancel'[d[1]] # "none"
    BY <1>1, <1>2, <1>4 DEF OneRunner
<1>6. \A p \in Project : \A d \in handle'[p] :
          Owner(d) = p /\ (d \in live' \/ cancel'[d[1]] # "none")
    BY <1>2, <1>3 DEF OneRunner
<1>7. \A p \in Project : \A d, e \in handle'[p] : d = e
    BY <1>2 DEF OneRunner
<1>8. ASSUME NEW d \in live'
      PROVE  stage'[d] \in {"starting", "attaching"} \/ d \in handle'[Owner(d)] \cup replaced'
  <2>1. d \in live /\ d \in Claims /\ Owner(d) \in Project
      BY <1>2, <1>4, <1>8 DEF CoordinatorTypeOK
  <2>2. CASE d = c
      BY <1>2, <2>1, <2>2
  <2>3. CASE d # c
      BY <1>1, <1>2, <2>1, <2>3 DEF OneRunner
  <2> QED
      BY <2>2, <2>3
<1>9. /\ \A d \in Claims : stage'[d] = "starting" => d \in live'
      /\ \A r \in Run : control'[r] # 0 => <<r, control'[r]>> \in live'
    BY <1>1, <1>2 DEF OneRunner
<1> QED
    BY <1>5, <1>6, <1>7, <1>8, <1>9 DEF OneRunner, Owner

LEMMA StopDoneRunners ==
    ASSUME CoordinatorTypeOK, OneRunner, NEW c \in Claims, StopDone(c)
    PROVE  OneRunner'
<1>1. stage[c] \notin {"claimed", "clearing", "starting"}
    BY DEF OneRunner, StopDone
<1>2. /\ \A d \in Claims : d # c => stage'[d] = stage[d]
      /\ stage'[c] \in {stage[c], "failed", "lost"}
    BY Names DEF CoordinatorTypeOK, StopDone
<1>3. /\ live' = live \ {c} /\ stops' = stops \ {c} /\ replaced' = replaced \ {c}
      /\ cancel' = cancel /\ c \in stops
      /\ \A r \in Run : control'[r] = IF r = c[1] THEN 0 ELSE control[r]
      /\ \A p \in Project : handle'[p] = IF p = Owner(c) THEN handle[p] \ {c} ELSE handle[p]
    BY DEF CoordinatorTypeOK, StopDone, Unregister, vars
<1>4. \A p \in Project : c \notin handle'[p] /\ handle'[p] \subseteq handle[p]
    BY <1>3, HandlesAreOwned
<1>5. \A r \in Run : control'[r] # 0 => control'[r] = control[r] /\ <<r, control[r]>> # c
    BY <1>3
<1>6. \A d \in live' : d \in live /\ d # c /\ d \in Claims
    BY <1>3 DEF CoordinatorTypeOK
<1>7. \A d \in live' : \/ stage'[d] \in {"starting", "attaching"}
                       \/ d \in handle'[Owner(d)] \cup replaced'
    BY <1>2, <1>3, <1>6, Names DEF OneRunner
<1>8. \A d \in Claims : stage'[d] \in {"claimed", "clearing", "starting"} =>
          d \notin stops' /\ d \notin handle'[Owner(d)] /\ control'[d[1]] # d[2]
    BY <1>1, <1>2, <1>3, <1>4, Names DEF OneRunner
<1>9. \A d \in Claims : stage'[d] = "starting" => d \in live'
    BY <1>1, <1>2, <1>3 DEF OneRunner
<1>10. /\ \A r \in Run : control'[r] # 0 => <<r, control'[r]>> \in live'
       /\ \A p \in Project : \A d \in handle'[p] :
             Owner(d) = p /\ (d \in live' \/ cancel'[d[1]] # "none")
    BY <1>3, <1>4, <1>5 DEF OneRunner
<1>11. \A d \in Claims : stage'[d] = "attaching" =>
          d \notin handle'[Owner(d)] /\ (d \in live' \ stops' \/ cancel'[d[1]] # "none")
  <2> SUFFICES ASSUME NEW d \in Claims, stage'[d] = "attaching"
               PROVE  /\ d \notin handle'[Owner(d)]
                      /\ d \in live' \ stops' \/ cancel'[d[1]] # "none"
      OBVIOUS
  <2>1. stage[d] = "attaching" /\ Owner(d) \in Project
      BY <1>2, Names
  <2>2. d \notin handle[Owner(d)] /\ (d \in live \ stops \/ cancel[d[1]] # "none")
      BY <2>1 DEF OneRunner
  <2> QED
      BY <1>3, <1>4, <2>1, <2>2
<1> QED
    BY <1>4, <1>7, <1>8, <1>9, <1>10, <1>11 DEF OneRunner, Owner

LEMMA ProcessRunners ==
    ASSUME CoordinatorTypeOK, OneRunner, CancelsStay, ProcessStep
    PROVE  OneRunner'
<1>1. PICK c \in Claims : \/ StopCurrent(c) \/ Spawn(c) \/ StartFails(c)
                          \/ Attach(c) \/ Attached(c) \/ ConfirmCancelled(c)
                          \/ Finish(c) \/ Break(c) \/ IdleStop(c) \/ StopDone(c)
    BY DEF ProcessStep
<1>2. CASE ConfirmCancelled(c) \/ Finish(c) \/ Break(c) \/ IdleStop(c)
  <2>1. UNCHANGED <<live, handle, control, replaced>>
      BY <1>2 DEF ConfirmCancelled, Finish, Break, IdleStop
  <2>2. \A d \in Claims : \/ stage'[d] = stage[d]
                          \/ ~InStartUp(d)' /\ ~InStartUp(d)
      BY <1>2, Names DEF CoordinatorTypeOK, ConfirmCancelled, Finish, Break, IdleStop, Move,
         InStartUp
  <2>3. stops' \subseteq stops \cup {c} /\ (c \in stops \/ c \notin stops' \/ ~InStartUp(c))
      BY <1>2 DEF ConfirmCancelled, Finish, Break, IdleStop, InStartUp
  <2>4. StartsNoProcess
      BY <2>1, <2>2, <2>3 DEF StartsNoProcess, InStartUp
  <2> QED
      BY <2>4, BystandersKeepRunners
<1>3. CASE StopCurrent(c)
  <2>1. /\ UNCHANGED <<live, control, replaced>> /\ StopRunner(Owner(c))
        /\ \A d \in Claims : \/ stage'[d] = stage[d]
                             \/ stage[d] = "claimed" /\ stage'[d] = "clearing"
      BY <1>3, Names DEF CoordinatorTypeOK, StopCurrent, Move
  <2>2. Owner(c) \in Project
      BY Names
  <2>3. StartsNoProcess
      BY <2>1, <2>2, StopRunnerStopsAttached DEF StartsNoProcess
  <2> QED
      BY <2>3, BystandersKeepRunners
<1> QED
    BY <1>1, <1>2, <1>3, SpawnRunners, StartFailsRunners, AttachRunners, AttachedRunners,
       StopDoneRunners

LEMMA DispatchRunners ==
    ASSUME CoordinatorTypeOK, OneRunner, CommitStep \/ LossStep
    PROVE  StartsNoProcess
<1>1. ASSUME NEW c \in Claims,
             \/ \E k \in Gate : ApplyWakeup(c, k) \/ CommitSuspension(c, k)
             \/ \E outcome \in Outcomes : CommitCompletion(c, outcome)
             \/ CommitRefused(c) \/ FailRun(c) \/ Reconcile(c)
      PROVE  StartsNoProcess
  <2>1. \/ UNCHANGED stage
        \/ /\ stage[c] \in {"finished", "failed", "reconciling"}
           /\ \E to \in {"ending", "failed", "reconciling"} : stage' = [stage EXCEPT ![c] = to]
      BY <1>1 DEF ApplyWakeup, CommitSuspension, Committable, CommitCompletion,
         CommitRefused, FailRun, Reconcile, Move
  <2>2. UNCHANGED processVars
      BY <1>1 DEF ApplyWakeup, CommitSuspension, CommitCompletion, CommitRefused, FailRun,
         Reconcile
  <2>3. \A d \in Claims : stage'[d] = stage[d] \/ (~InStartUp(d)' /\ ~InStartUp(d))
      BY <2>1, Names DEF CoordinatorTypeOK, InStartUp
  <2> QED
      BY <2>2, <2>3 DEF StartsNoProcess, InStartUp
<1>2. ASSUME NEW c \in Claims, RecordLoss(c) \/ JudgeLoss(c) \/ DelayOver(c)
      PROVE  StartsNoProcess
  <2>1. \A d \in Claims : stage'[d] = stage[d] \/ (~InStartUp(d)' /\ ~InStartUp(d))
      BY <1>2, Names DEF CoordinatorTypeOK, RecordLoss, JudgeLoss, DelayOver, Move, InStartUp
  <2>2. UNCHANGED <<live, control, replaced>>
      BY <1>2 DEF RecordLoss, JudgeLoss, DelayOver
  <2>3. StopRunner(Owner(c)) \/ UNCHANGED <<stops, handle>>
      BY <1>2 DEF RecordLoss, JudgeLoss, DelayOver
  <2> QED
      BY <2>1, <2>2, <2>3, Names, StopRunnerStopsAttached DEF StartsNoProcess, InStartUp
<1> QED
    BY <1>1, <1>2 DEF CommitStep, LossStep

LEMMA CancellerRunners ==
    ASSUME CoordinatorTypeOK, CancellersHaveTheirCancellation, CancelsStay, CancellerStep
    PROVE  StartsNoProcess
<1>1. ASSUME NEW r \in Run, FindControls(r)
      PROVE  StartsNoProcess
  <2>1. targets[r] \in SUBSET Run
      BY DEF CoordinatorTypeOK
  <2>2. \A c \in stops' : c \in stops \/ (c[1] \in targets[r] /\ control[c[1]] = c[2])
      BY <1>1, <2>1, StopControlsStopsAttached DEF FindControls
  <2>3. \A s \in targets[r] : cancel'[s] # "none"
      BY <2>1 DEF CancellersHaveTheirCancellation, CancelsStay
  <2> QED
      BY <1>1, <2>2, <2>3 DEF FindControls, StartsNoProcess
<1>2. ASSUME NEW r \in Run, GiveUp(r) \/ ConfirmStopped(r) \/ Report(r)
      PROVE  StartsNoProcess
    BY <1>2 DEF GiveUp, ConfirmStopped, Report, StartsNoProcess
<1> QED
    BY <1>1, <1>2 DEF CancellerStep

LEMMA DaemonRunners ==
    ASSUME CoordinatorTypeOK, OneRunner, CancelsStay, DaemonStep
    PROVE  OneRunner'
<1>1. CASE ShutdownEnds \/ Crash
  <2>1. Down
      BY <1>1 DEF ShutdownEnds, Crash
  <2>2. \A c \in Claims : stage'[c] = "none"
      BY <2>1, Names DEF Down
  <2> QED
      BY <2>1, <2>2 DEF Down, OneRunner
<1>2. ASSUME ForceDrain \/ Shutdown
      PROVE  StartsNoProcess
  <2>1. UNCHANGED <<stage, live, control, replaced>> /\ StopRunners
      BY <1>2 DEF ForceDrain, Shutdown
  <2>2. \A c \in stops' : c \in stops \/ c \in handle[Owner(c)]
      BY <2>1, HandlesAreOwned DEF StopRunners
  <2>3. \A p \in Project : /\ handle'[p] \subseteq handle[p]
                           /\ \A c \in handle[p] : c \in handle'[p] \/ c \notin live
      BY <2>1 DEF StopRunners
  <2> QED
      BY <2>1, <2>2, <2>3 DEF StartsNoProcess
<1>3. ASSUME HoldDispatch \/ ReleaseDispatch \/ ForceDrainEnds \/ Restart
      PROVE  StartsNoProcess
    BY <1>3 DEF HoldDispatch, ReleaseDispatch, ForceDrainEnds, Restart, StartsNoProcess
<1>4. ASSUME NEW p \in Project, Resume(p) \/ ResumePersisted(p)
      PROVE  StartsNoProcess
    BY <1>4 DEF Resume, ResumePending, ResumeDelayed, ResumeAtOnce, ResumeHeld,
       ResumePersisted, StartsNoProcess
<1> QED
    BY <1>1, <1>2, <1>3, <1>4, BystandersKeepRunners DEF DaemonStep

LEMMA LocationRunners ==
    ASSUME CoordinatorTypeOK, OneRunner, LocationStep
    PROVE  StartsNoProcess
<1>1. ASSUME NEW p \in Project, StopDrained(p)
      PROVE  StartsNoProcess
    BY <1>1, StopRunnerStopsAttached DEF StopDrained, StartsNoProcess
<1>2. ASSUME NEW p \in Project, BeginLocationChange(p) \/ DrainSettles(p) \/ CommitLocation(p)
      PROVE  StartsNoProcess
    BY <1>2 DEF BeginLocationChange, DrainSettles, CommitLocation, StartsNoProcess
<1> QED
    BY <1>1, <1>2 DEF LocationStep

LEMMA OneRunnerKept ==
    ASSUME CoordinatorInv, CoordinatorNext
    PROVE  OneRunner'
<1>1. /\ StoreInv /\ RunInv /\ CoordinatorTypeOK /\ OneRunner
      /\ CancellersHaveTheirCancellation
    BY DEF CoordinatorInv, StoreInv
<1>2. CASE PumpReserves /\ ~\E r \in Run : ClaimDispatch(r)
  <2>1. CancelsStay
      BY <1>1, <1>2, Reserves DEF CancelsStay
  <2> QED
      BY <1>1, <1>2, <2>1, PumpRunners, BystandersKeepRunners DEF PumpStep
<1>3. CASE ~PumpReserves /\ ~\E r \in Run : ClaimDispatch(r)
  <2>1. CancelsStay
      BY <1>1, <1>3, CoordinatorEases, EasyStepEases DEF Eases, CancelsStay
  <2> QED
      BY <1>1, <1>3, <2>1, BystandersKeepRunners, RequestRunners, PumpRunners,
         ProcessRunners, DispatchRunners, CancellerRunners, DaemonRunners, LocationRunners
         DEF CoordinatorNext
<1> QED
    BY <1>2, <1>3, ClaimRunners

-----------------------------------------------------------------------------
(* Cancellations.                                                          *)

(* No dispatch begins to be cancelled and nobody gets a target.            *)
CancelsNothing ==
    /\ \A c \in Claims : stage'[c] = "cancelling" => stage[c] = "cancelling"
    /\ \A r \in Run : targets'[r] \subseteq targets[r]

LEMMA CancelsNothingKeeps ==
    ASSUME CoordinatorTypeOK, CancellersHaveTheirCancellation, CancelsNothing, CancelsStay
    PROVE  CancellersHaveTheirCancellation'
    BY Names DEF CoordinatorTypeOK, CancellersHaveTheirCancellation, CancelsNothing,
       CancelsStay

LEMMA StoppedRunsAreCancelled ==
    ASSUME CoordinatorTypeOK, CancellersHaveTheirCancellation, CancelsStay, UNCHANGED stage,
           NEW r \in Run, NEW T \in SUBSET Run, StopControls(r, T),
           \A s \in T : cancel'[s] # "none" /\ ProjectOf[s] = ProjectOf[r]
    PROVE  CancellersHaveTheirCancellation'
<1>1. \A s \in Run : targets'[s] = IF s = r THEN T ELSE targets[s]
    BY DEF CoordinatorTypeOK, StopControls
<1> QED
    BY <1>1, Names DEF CoordinatorTypeOK, CancellersHaveTheirCancellation, CancelsStay

LEMMA RequestCancels ==
    ASSUME RunInv, CoordinatorTypeOK, CancellersHaveTheirCancellation, CancelsStay,
           RequestStep
    PROVE  CancellersHaveTheirCancellation'
<1>1. CASE \/ \E r \in Run, g \in Graph : Start(r, g)
           \/ \E r \in Run, k \in Gate : Answer(r, k)
           \/ \E p \in Project : RepairProject(p)
           \/ \E w \in Workflow : StopWorkflow(w)
  <2>1. CancelsNothing
      BY <1>1 DEF Start, Answer, RepairProject, StopWorkflow, CancelsNothing
  <2> QED
      BY <2>1, CancelsNothingKeeps
<1>2. ASSUME NEW r \in Run, CancelRun(r)
      PROVE  CancellersHaveTheirCancellation'
  <2>1. cancel'[r] # "none" /\ UNCHANGED stage
      BY <1>2, RequestedRunsAreCancelled DEF CancelRun
  <2>2. StopControls(r, {r}) \/ UNCHANGED targets
      BY <1>2 DEF CancelRun
  <2> QED
      BY <2>1, <2>2, StoppedRunsAreCancelled, CancelsNothingKeeps DEF CancelsNothing
<1>3. ASSUME NEW w \in Workflow, ForceStopWorkflow(w)
      PROVE  CancellersHaveTheirCancellation'
  <2>1. UNCHANGED stage /\ \A s \in ForceStopTargets(w) : cancel'[s] # "none"
      BY <1>3, RequestedRunsAreCancelled DEF ForceStopWorkflow
  <2>2. /\ ForceStopTargets(w) \in SUBSET Run
        /\ \A r, s \in ForceStopTargets(w) : ProjectOf[s] = ProjectOf[r]
      BY RunAssumption DEF ForceStopTargets
  <2>3. CASE UNCHANGED targets
      BY <2>1, <2>3, CancelsNothingKeeps DEF CancelsNothing
  <2>4. CASE \E r \in ForceStopTargets(w) : StopControls(r, ForceStopTargets(w))
      BY <2>1, <2>2, <2>4, StoppedRunsAreCancelled
  <2> QED
      BY <1>3, <2>3, <2>4 DEF ForceStopWorkflow
<1> QED
    BY <1>1, <1>2, <1>3 DEF RequestStep

LEMMA PumpCancels ==
    ASSUME CoordinatorTypeOK, RunInv, PumpStep
    PROVE  CancelsNothing
<1>1. CASE PumpReserves
  <2>1. \E r \in Run : stage' = [stage EXCEPT ![<<r, 0>>] = "preparing"]
      BY <1>1, Reserves
  <2> QED
      BY <1>1, <2>1, Names DEF CoordinatorTypeOK, PumpReserves, CancelsNothing
<1>2. ASSUME NEW r \in Run, ClaimDispatch(r)
      PROVE  CancelsNothing
    BY <1>2, Names DEF CoordinatorTypeOK, ClaimDispatch, CancelsNothing
<1>3. ASSUME NEW r \in Run, TakeTurn(r) \/ PrepareFails(r)
      PROVE  CancelsNothing
    BY <1>3, Names DEF CoordinatorTypeOK, TakeTurn, PrepareFails, Move, CancelsNothing
<1>4. ASSUME NEW d \in Dispatches, Settle(d) \/ EndDispatch(d)
      PROVE  CancelsNothing
    BY <1>4, Names DEF CoordinatorTypeOK, Settle, EndDispatch, Move, CancelsNothing
<1>5. CASE PumpRests
    BY <1>5 DEF PumpRests, CancelsNothing
<1> QED
    BY <1>1, <1>2, <1>3, <1>4, <1>5 DEF PumpStep

LEMMA ProcessCancels ==
    ASSUME CoordinatorTypeOK, CancellersHaveTheirCancellation, CancelsStay, ProcessStep
    PROVE  CancellersHaveTheirCancellation'
<1>1. PICK c \in Claims : \/ StopCurrent(c) \/ Spawn(c) \/ StartFails(c)
                          \/ Attach(c) \/ Attached(c) \/ ConfirmCancelled(c)
                          \/ Finish(c) \/ Break(c) \/ IdleStop(c) \/ StopDone(c)
    BY DEF ProcessStep
<1>2. UNCHANGED targets
    BY <1>1 DEF StopCurrent, Spawn, StartFails, Attach, Attached, ConfirmCancelled, Finish,
       Break, IdleStop, StopDone
<1>3. CASE ~Attached(c)
  <2>1. \A d \in Claims : stage'[d] = "cancelling" => stage[d] = "cancelling"
      BY <1>1, <1>3, Names DEF CoordinatorTypeOK, StopCurrent, Spawn, StartFails, Attach,
         ConfirmCancelled, Finish, Break, IdleStop, StopDone, Move
  <2> QED
      BY <1>2, <2>1, CancelsNothingKeeps DEF CancelsNothing
<1>4. CASE Attached(c)
  <2>1. \A d \in Claims : stage'[d] = "cancelling" =>
            stage[d] = "cancelling" \/ cancel[d[1]] # "none"
      BY <1>4, Names DEF CoordinatorTypeOK, Attached, Move
  <2> QED
      BY <1>2, <2>1, Names DEF CoordinatorTypeOK, CancellersHaveTheirCancellation, CancelsStay
<1> QED
    BY <1>3, <1>4

LEMMA CancellerCancels ==
    ASSUME CoordinatorTypeOK, CancellersHaveTheirCancellation, CancelsStay, CancellerStep
    PROVE  CancellersHaveTheirCancellation'
<1>1. ASSUME NEW r \in Run, FindControls(r)
      PROVE  CancellersHaveTheirCancellation'
  <2>1. targets[r] \in SUBSET Run
      BY DEF CoordinatorTypeOK
  <2>2. \A s \in targets[r] : cancel'[s] # "none" /\ ProjectOf[s] = ProjectOf[r]
      BY <2>1 DEF CancellersHaveTheirCancellation, CancelsStay
  <2> QED
      BY <1>1, <2>1, <2>2, StoppedRunsAreCancelled DEF FindControls
<1>2. ASSUME NEW r \in Run, GiveUp(r) \/ ConfirmStopped(r) \/ Report(r)
      PROVE  CancellersHaveTheirCancellation'
  <2>1. CancelsNothing
      BY <1>2 DEF CoordinatorTypeOK, GiveUp, ConfirmStopped, Report, CancelsNothing
  <2> QED
      BY <2>1, CancelsNothingKeeps
<1> QED
    BY <1>1, <1>2 DEF CancellerStep

LEMMA OtherCancels ==
    ASSUME CoordinatorTypeOK, CommitStep \/ LossStep \/ DaemonStep \/ LocationStep
    PROVE  CancelsNothing
<1>1. ASSUME NEW c \in Claims,
             \/ \E k \in Gate : ApplyWakeup(c, k) \/ CommitSuspension(c, k)
             \/ \E outcome \in Outcomes : CommitCompletion(c, outcome)
             \/ CommitRefused(c) \/ FailRun(c) \/ Reconcile(c)
             \/ RecordLoss(c) \/ JudgeLoss(c) \/ DelayOver(c)
      PROVE  CancelsNothing
  <2>1. \/ UNCHANGED stage
        \/ \E to \in Stages \ {"cancelling"} : stage' = [stage EXCEPT ![c] = to]
      BY <1>1 DEF ApplyWakeup, CommitSuspension, Committable, CommitCompletion,
         CommitRefused, FailRun, Reconcile, RecordLoss, JudgeLoss, DelayOver, Move, Stages,
         Unbroken
  <2>2. UNCHANGED targets
      BY <1>1 DEF ApplyWakeup, CommitSuspension, CommitCompletion, CommitRefused, FailRun,
         Reconcile, RecordLoss, JudgeLoss, DelayOver
  <2> QED
      BY <2>1, <2>2, Names DEF CoordinatorTypeOK, CancelsNothing
<1>2. CASE DaemonStep
    BY <1>2, Names DEF DaemonStep, HoldDispatch, ReleaseDispatch, ForceDrain,
       ForceDrainEnds, Shutdown, ShutdownEnds, Crash, Down, Restart, Resume, ResumePending,
       ResumeDelayed, ResumeAtOnce, ResumeHeld, ResumePersisted, CancelsNothing
<1>3. CASE LocationStep
    BY <1>3 DEF LocationStep, BeginLocationChange, StopDrained, DrainSettles,
       CommitLocation, CancelsNothing
<1> QED
    BY <1>1, <1>2, <1>3 DEF CommitStep, LossStep

LEMMA CancellationsAreOnRecord ==
    ASSUME CoordinatorInv, CoordinatorNext
    PROVE  CancellersHaveTheirCancellation'
<1>1. StoreInv /\ RunInv /\ CoordinatorTypeOK /\ CancellersHaveTheirCancellation
    BY DEF CoordinatorInv, StoreInv
<1>2. CancelsStay
  <2>1. CASE PumpReserves \/ \E r \in Run : ClaimDispatch(r)
      BY <1>1, <2>1, Reserves, ClaimsOne DEF CancelsStay
  <2>2. CASE ~PumpReserves /\ ~\E r \in Run : ClaimDispatch(r)
      BY <1>1, <2>2, CoordinatorEases, EasyStepEases DEF Eases, CancelsStay
  <2> QED
      BY <2>1, <2>2
<1> QED
    BY <1>1, <1>2, CancelsNothingKeeps, RequestCancels, PumpCancels, ProcessCancels,
       CancellerCancels, OtherCancels DEF CoordinatorNext

-----------------------------------------------------------------------------
(* Draining.                                                               *)

(* A step that neither drains a Project nor opens it, nor attaches a runner. *)
LeavesDrains ==
    /\ UNCHANGED <<drain, up, closed>>
    /\ resuming' \subseteq resuming
    /\ \A p \in Project : handle'[p] \subseteq handle[p]

LEMMA LeavesDrainsKeeps ==
    ASSUME DrainIsClosed, LeavesDrains, NoNewNames
    PROVE  DrainIsClosed'
    BY DEF DrainIsClosed, LeavesDrains, NoNewNames, Owner

LEMMA EarlyStepsLeaveDrains ==
    ASSUME CoordinatorTypeOK,
           RequestStep \/ PumpStep \/ CommitStep \/ LossStep \/ CancellerStep
    PROVE  LeavesDrains
<1>1. CASE RequestStep
    BY <1>1 DEF RequestStep, CancelRun, Start, Answer, RepairProject, StopWorkflow,
       ForceStopWorkflow, LeavesDrains
<1>2. CASE PumpStep
  <2>1. ASSUME NEW r \in Run, TakeTurn(r)
        PROVE  LeavesDrains
      BY <2>1 DEF TakeTurn, CoordinatorTypeOK, LeavesDrains
  <2> QED
      BY <1>2, <2>1 DEF PumpStep, PumpReserves, PumpRests, ClaimDispatch, PrepareFails,
         Settle, EndDispatch, LeavesDrains
<1>3. CASE CommitStep
    BY <1>3 DEF CommitStep, ApplyWakeup, CommitSuspension, CommitCompletion, CommitRefused,
       FailRun, Reconcile, LeavesDrains
<1>4. CASE LossStep
    BY <1>4 DEF LossStep, RecordLoss, StopRunner, JudgeLoss, DelayOver, CoordinatorTypeOK,
       LeavesDrains
<1>5. CASE CancellerStep
    BY <1>5 DEF CancellerStep, FindControls, GiveUp, ConfirmStopped, Report, LeavesDrains
<1> QED
    BY <1>1, <1>2, <1>3, <1>4, <1>5

LEMMA ProcessDrains ==
    ASSUME CoordinatorTypeOK, DrainIsClosed, NoNewNames, ProcessStep
    PROVE  DrainIsClosed'
<1>1. PICK c \in Claims : \/ StopCurrent(c) \/ Spawn(c) \/ StartFails(c)
                          \/ Attach(c) \/ Attached(c) \/ ConfirmCancelled(c)
                          \/ Finish(c) \/ Break(c) \/ IdleStop(c) \/ StopDone(c)
    BY DEF ProcessStep
<1>2. CASE Attached(c)
  <2>1. /\ UNCHANGED <<drain, up, closed, resuming>> /\ stage[c] = "attaching"
        /\ \A p \in Project : p # Owner(c) => handle'[p] = handle[p]
      BY <1>2 DEF CoordinatorTypeOK, Attached
  <2>2. drain[Owner(c)] # "drained"
      BY <2>1, Names DEF DrainIsClosed
  <2> QED
      BY <2>1, <2>2 DEF DrainIsClosed, NoNewNames, Owner
<1>3. CASE ~Attached(c)
  <2>1. Owner(c) \in Project
      BY Names
  <2>2. LeavesDrains
      BY <1>1, <1>3, <2>1 DEF StopCurrent, StopRunner, Spawn, StartFails, Attach,
         ConfirmCancelled, Finish, Break, IdleStop, StopDone, CoordinatorTypeOK,
         LeavesDrains
  <2> QED
      BY <2>2, LeavesDrainsKeeps
<1> QED
    BY <1>2, <1>3

LEMMA DaemonDrains ==
    ASSUME CoordinatorTypeOK, DrainIsClosed, NoNewNames, DaemonStep
    PROVE  DrainIsClosed'
<1>1. CASE HoldDispatch \/ ReleaseDispatch \/ ForceDrain \/ Shutdown \/ ForceDrainEnds
  <2>1. LeavesDrains
      BY <1>1 DEF HoldDispatch, ReleaseDispatch, ForceDrain, Shutdown, StopRunners,
         ForceDrainEnds, LeavesDrains
  <2> QED
      BY <2>1, LeavesDrainsKeeps
<1>2. CASE ShutdownEnds \/ Crash
    BY <1>2 DEF ShutdownEnds, Crash, Down, DrainIsClosed
<1>3. CASE Restart
    BY <1>3 DEF Restart, DrainIsClosed
<1>4. ASSUME NEW p \in Project, Resume(p) \/ ResumePersisted(p)
      PROVE  LeavesDrains
    BY <1>4 DEF Resume, ResumePending, ResumeDelayed, ResumeAtOnce, ResumeHeld,
       ResumePersisted, LeavesDrains
<1> QED
    BY <1>1, <1>2, <1>3, <1>4, LeavesDrainsKeeps DEF DaemonStep

LEMMA LocationDrains ==
    ASSUME CoordinatorTypeOK, DrainIsClosed, NoNewNames, LocationStep
    PROVE  DrainIsClosed'
<1> USE DEF DrainIsClosed, NoNewNames, CoordinatorTypeOK, Owner
<1>1. ASSUME NEW p \in Project, BeginLocationChange(p)
      PROVE  DrainIsClosed'
    BY <1>1 DEF BeginLocationChange, Event, Quiet
<1>2. ASSUME NEW p \in Project, StopDrained(p)
      PROVE  DrainIsClosed'
    BY <1>2 DEF StopDrained, StopRunner, Event, Quiet, IsIdle
<1>3. ASSUME NEW p \in Project, DrainSettles(p)
      PROVE  DrainIsClosed'
    BY <1>3 DEF DrainSettles
<1>4. ASSUME NEW p \in Project, CommitLocation(p)
      PROVE  DrainIsClosed'
    BY <1>4 DEF CommitLocation
<1> QED
    BY <1>1, <1>2, <1>3, <1>4 DEF LocationStep

LEMMA DrainsStayClosed ==
    ASSUME CoordinatorInv, CoordinatorNext
    PROVE  DrainIsClosed'
<1>1. RunInv /\ CoordinatorTypeOK /\ DrainIsClosed /\ OneRunner
    BY DEF CoordinatorInv, StoreInv
<1>2. CASE PumpReserves
  <2>1. PICK r \in Run : /\ ProjectOf[r] \in Project \ Blocked
                         /\ stage' = [stage EXCEPT ![<<r, 0>>] = "preparing"]
      BY <1>1, <1>2, Reserves
  <2>2. \A d \in Dispatches : stage'[d] # "none" => stage[d] # "none" \/ Owner(d) \notin closed
      BY <1>1, <2>1, Names DEF CoordinatorTypeOK, Blocked, Owner
  <2>3. UNCHANGED <<drain, up, closed, resuming, handle>>
      BY <1>2 DEF PumpReserves
  <2> QED
      BY <1>1, <2>2, <2>3 DEF DrainIsClosed, Owner
<1>3. ASSUME NEW r \in Run, ClaimDispatch(r)
      PROVE  DrainIsClosed'
  <2>1. /\ stage[<<r, 0>>] = "loading"
        /\ stage' = [stage EXCEPT ![<<r, 0>>] = "none",
                                  ![<<r, generation[r] + 1>>] = "claimed"]
        /\ UNCHANGED <<drain, up, closed, resuming, handle>>
      BY <1>1, <1>3, ClaimsOne DEF ClaimDispatch
  <2>2. \A d \in Dispatches : stage'[d] # "none" => \/ stage[d] # "none"
                                                    \/ Owner(d) = ProjectOf[r]
      BY <1>1, <2>1, Names DEF CoordinatorTypeOK, Owner
  <2>3. drain[ProjectOf[r]] \notin {"stopping", "drained"}
      BY <1>1, <2>1, Names, RunAssumption DEF DrainIsClosed, Owner
  <2> QED
      BY <1>1, <2>1, <2>2, <2>3 DEF DrainIsClosed, Owner
<1>4. CASE ~PumpReserves /\ ~\E r \in Run : ClaimDispatch(r)
  <2>1. NoNewNames
      BY <1>1, <1>4, OtherStepsNameNothing
  <2> QED
      BY <1>1, <2>1, EarlyStepsLeaveDrains, LeavesDrainsKeeps, ProcessDrains, DaemonDrains,
         LocationDrains DEF CoordinatorNext
<1> QED
    BY <1>2, <1>3, <1>4

-----------------------------------------------------------------------------
(* Turns.                                                                  *)

LeavesLine ==
    /\ ahead' = ahead /\ forgot \subseteq forgot'
    /\ \A r \in Run : /\ Prepares(r)' <=> Prepares(r)
                      /\ stage'[<<r, 0>>] = "loading" =>
                            stage[<<r, 0>>] = "loading" \/ ahead[r] = {}

LEMMA GraphsOfWaitingRuns ==
    ASSUME RunInv, WaitingRunsExist, Eases
    PROVE  /\ \A r \in Run : Prepares(r) => graph'[r] = graph[r]
           /\ Slots' \subseteq Slots
           /\ \A r \in Slots' : graph'[r] = graph[r]
<1>1. \A r \in Run : slot'[r] # 0 => slot[r] # 0 /\ state[r] = "executing"
    BY DEF Eases, RunInv, ClaimInv, CancelInv, SlotInv, ExecutingRunsHoldTheSlots
<1> QED
    BY <1>1 DEF Eases, WaitingRunsExist, Slots

LEMMA LeavesLineKeeps ==
    ASSUME RunInv, CoordinatorTypeOK, TurnsAreInLine, WaitingRunsExist, Eases, LeavesLine
    PROVE  TurnsAreInLine' /\ WaitingRunsExist'
<1>1. /\ \A r \in Run : Prepares(r) => graph'[r] = graph[r]
      /\ Slots' \subseteq Slots
      /\ \A r \in Slots' : graph'[r] = graph[r]
    BY GraphsOfWaitingRuns
<1>2. /\ \A r \in Run : \A s \in ahead'[r] :
            Prepares(r)' /\ Prepares(s)' /\ ProjectOf[s] = ProjectOf[r]
      /\ \A r \in Run : stage'[<<r, 0>>] = "loading" => ahead'[r] = {}
      /\ \A r, s \in Run : Prepares(r)' /\ Prepares(s)' /\ ProjectOf[s] = ProjectOf[r] =>
            r = s \/ r \in ahead'[s] \/ s \in ahead'[r] \/ ProjectOf[r] \in forgot'
    BY DEF TurnsAreInLine, LeavesLine, CoordinatorTypeOK
<1>3. \A r \in Run : \A s \in ahead'[r] \cap reserved' : graph'[s] = graph'[r]
    BY <1>1 DEF TurnsAreInLine, LeavesLine, Eases, CoordinatorTypeOK
<1>4. \A r \in Run, s \in Slots' : Prepares(r)' /\ ProjectOf[s] = ProjectOf[r] =>
          graph'[s] = graph'[r] \/ ProjectOf[r] \in forgot'
    BY <1>1 DEF TurnsAreInLine, LeavesLine
<1>5. WaitingRunsExist'
    BY DEF WaitingRunsExist, LeavesLine, Eases
<1> QED
    BY <1>2, <1>3, <1>4, <1>5 DEF TurnsAreInLine

LEMMA MovingAClaim ==
    ASSUME CoordinatorTypeOK, UNCHANGED turnVars, NEW c \in Claims, NEW to,
           UNCHANGED stage \/ stage' = [stage EXCEPT ![c] = to]
    PROVE  LeavesLine
    BY Names DEF CoordinatorTypeOK, LeavesLine, Prepares

LEMMA ClaimedStepsLeaveLine ==
    ASSUME CoordinatorTypeOK, ProcessStep \/ CommitStep \/ LossStep
    PROVE  LeavesLine
<1>1. PICK c \in Claims :
        \/ StopCurrent(c) \/ Spawn(c) \/ StartFails(c)
        \/ Attach(c) \/ Attached(c) \/ ConfirmCancelled(c)
        \/ Finish(c) \/ Break(c) \/ IdleStop(c) \/ StopDone(c)
        \/ \E k \in Gate : ApplyWakeup(c, k) \/ CommitSuspension(c, k)
        \/ \E outcome \in Outcomes : CommitCompletion(c, outcome)
        \/ CommitRefused(c) \/ FailRun(c) \/ Reconcile(c)
        \/ RecordLoss(c) \/ JudgeLoss(c) \/ DelayOver(c)
    BY DEF ProcessStep, CommitStep, LossStep
<1>2. UNCHANGED turnVars /\ (UNCHANGED stage \/ \E to : stage' = [stage EXCEPT ![c] = to])
    BY <1>1 DEF StopCurrent, Spawn, StartFails, Attach, Attached, ConfirmCancelled, Finish,
       Break, IdleStop, StopDone, ApplyWakeup, CommitSuspension, CommitCompletion,
       CommitRefused, FailRun, Reconcile, RecordLoss, JudgeLoss, DelayOver, Move
<1> QED
    BY <1>2, MovingAClaim

(* A turn that is over: a Project with nothing else to prepare has nothing *)
(* forgotten.                                                              *)
LEMMA TurnEnds ==
    ASSUME CoordinatorTypeOK, TurnsAreInLine, NEW r \in Run, TurnOver(r),
           \A s \in Run : /\ Prepares(s)' <=> Prepares(s) /\ s # r
                          /\ stage'[<<s, 0>>] = "loading" => stage[<<s, 0>>] = "loading"
    PROVE  /\ \A t \in Run : \A s \in ahead'[t] :
                 Prepares(t)' /\ Prepares(s)' /\ ProjectOf[s] = ProjectOf[t]
           /\ \A t \in Run : stage'[<<t, 0>>] = "loading" => ahead'[t] = {}
           /\ \A t, s \in Run : Prepares(t)' /\ Prepares(s)' /\ ProjectOf[s] = ProjectOf[t] =>
                 t = s \/ t \in ahead'[s] \/ s \in ahead'[t] \/ ProjectOf[t] \in forgot'
           /\ \A t \in Run : Prepares(t)' /\ ProjectOf[t] \in forgot => ProjectOf[t] \in forgot'
           /\ \A t \in Run : ahead'[t] \subseteq ahead[t] \cap Run
<1>1. \A s \in Run : /\ ahead'[s] \subseteq ahead[s] /\ ahead[s] \subseteq Run
                     /\ \A t \in ahead[s] : t \in ahead'[s] <=> s # r /\ t # r
    BY DEF TurnOver, CoordinatorTypeOK
<1>2. \A t \in Run : Prepares(t)' /\ ProjectOf[t] \in forgot => ProjectOf[t] \in forgot'
    BY DEF TurnOver, InProject
<1>3. \A t \in Run : \A s \in ahead'[t] :
          Prepares(t)' /\ Prepares(s)' /\ ProjectOf[s] = ProjectOf[t]
    BY <1>1 DEF TurnsAreInLine
<1>4. \A t \in Run : stage'[<<t, 0>>] = "loading" => ahead'[t] = {}
    BY <1>1 DEF TurnsAreInLine
<1>5. \A t, s \in Run : Prepares(t)' /\ Prepares(s)' /\ ProjectOf[s] = ProjectOf[t] =>
          t = s \/ t \in ahead'[s] \/ s \in ahead'[t] \/ ProjectOf[t] \in forgot'
  <2> SUFFICES ASSUME NEW t \in Run, NEW s \in Run, Prepares(t)', Prepares(s)',
                      ProjectOf[s] = ProjectOf[t], ProjectOf[t] \notin forgot'
               PROVE  t = s \/ t \in ahead'[s] \/ s \in ahead'[t]
      OBVIOUS
  <2>1. Prepares(t) /\ t # r /\ Prepares(s) /\ s # r
      OBVIOUS
  <2>2. t = s \/ t \in ahead[s] \/ s \in ahead[t]
      BY <1>2, <2>1 DEF TurnsAreInLine
  <2> QED
      BY <1>1, <2>1, <2>2
<1> QED
    BY <1>1, <1>2, <1>3, <1>4, <1>5

LEMMA PrepareFailsTurns ==
    ASSUME RunInv, CoordinatorTypeOK, TurnsAreInLine, WaitingRunsExist, Eases,
           NEW r \in Run, PrepareFails(r)
    PROVE  TurnsAreInLine' /\ WaitingRunsExist'
<1>1. ASSUME NEW s \in Run
      PROVE  /\ Prepares(s)' <=> Prepares(s) /\ s # r
             /\ stage'[<<s, 0>>] = "loading" => stage[<<s, 0>>] = "loading"
  <2>1. \A d \in Dispatches : stage'[d] = IF d = <<r, 0>> THEN "ending" ELSE stage[d]
      BY DEF CoordinatorTypeOK, PrepareFails, Move
  <2>2. <<s, 0>> \in Dispatches
      BY Names
  <2> QED
      BY <2>1, <2>2 DEF Prepares
<1>2. TurnOver(r)
    BY DEF PrepareFails
<1>3. /\ \A s \in Run : Prepares(s) => graph'[s] = graph[s]
      /\ Slots' \subseteq Slots
      /\ \A s \in Slots' : graph'[s] = graph[s]
    BY GraphsOfWaitingRuns
<1>4. \A t \in Run : \A s \in ahead'[t] \cap reserved' : graph'[s] = graph'[t]
  <2>1. \A t \in Run : ahead'[t] \subseteq ahead[t] \cap Run
      BY <1>1, <1>2, TurnEnds
  <2> QED
      BY <1>3, <2>1 DEF TurnsAreInLine, Eases
<1>5. \A t \in Run, s \in Slots' : Prepares(t)' /\ ProjectOf[s] = ProjectOf[t] =>
          graph'[s] = graph'[t] \/ ProjectOf[t] \in forgot'
  <2>1. \A t \in Run : Prepares(t)' /\ ProjectOf[t] \in forgot => ProjectOf[t] \in forgot'
      BY <1>1, <1>2, TurnEnds
  <2> QED
      BY <1>1, <1>3, <2>1 DEF TurnsAreInLine
<1>6. WaitingRunsExist'
    BY <1>1 DEF WaitingRunsExist, Eases
<1> QED
    BY <1>1, <1>2, <1>4, <1>5, <1>6, TurnEnds DEF TurnsAreInLine

LEMMA TakeTurnLeavesLine ==
    ASSUME CoordinatorTypeOK, NEW r \in Run, TakeTurn(r)
    PROVE  LeavesLine
<1>1. /\ stage[<<r, 0>>] = "preparing" /\ ahead[r] = {} /\ ahead' = ahead
      /\ stage' = [stage EXCEPT ![<<r, 0>>] = "loading"]
      /\ forgot \subseteq forgot'
    BY DEF TakeTurn, HasTurn, Move
<1> QED
    BY <1>1, Names DEF CoordinatorTypeOK, LeavesLine, Prepares

LEMMA OthersLeaveLine ==
    ASSUME CoordinatorTypeOK, CoordinatorNext, ~PumpReserves, ~ShutdownEnds, ~Crash,
           ~\E r \in Run : ClaimDispatch(r) \/ PrepareFails(r)
    PROVE  LeavesLine
<1>1. ASSUME NEW d \in Dispatches, Settle(d) \/ EndDispatch(d)
      PROVE  LeavesLine
    BY <1>1, Names DEF CoordinatorTypeOK, Settle, EndDispatch, Move, LeavesLine, Prepares
<1>2. ASSUME RequestStep \/ PumpRests \/ CancellerStep \/ LocationStep
      PROVE  LeavesLine
    BY <1>2 DEF RequestStep, CancelRun, Start, Answer, RepairProject, StopWorkflow,
       ForceStopWorkflow, PumpRests, CancellerStep, FindControls, GiveUp, ConfirmStopped,
       Report, LocationStep, BeginLocationChange, StopDrained, DrainSettles,
       CommitLocation, LeavesLine, Prepares
<1>3. ASSUME DaemonStep
      PROVE  LeavesLine
    BY <1>3 DEF DaemonStep, HoldDispatch, ReleaseDispatch, ForceDrain, ForceDrainEnds,
       Shutdown, Restart, Resume, ResumePending, ResumeDelayed, ResumeAtOnce, ResumeHeld,
       ResumePersisted, LeavesLine, Prepares
<1> QED
    BY <1>1, <1>2, <1>3, ClaimedStepsLeaveLine, TakeTurnLeavesLine
       DEF CoordinatorNext, PumpStep

LEMMA OtherTurns ==
    ASSUME RunInv, CoordinatorTypeOK, TurnsAreInLine, WaitingRunsExist, Eases,
           CoordinatorNext, ~PumpReserves, ~\E r \in Run : ClaimDispatch(r)
    PROVE  TurnsAreInLine' /\ WaitingRunsExist'
<1>1. CASE ShutdownEnds \/ Crash
  <2>1. Down
      BY <1>1 DEF ShutdownEnds, Crash
  <2>2. \A d \in Dispatches : stage'[d] = "none"
      BY <2>1 DEF Down
  <2>3. ASSUME NEW r \in Run
        PROVE  ~Prepares(r)' /\ ahead'[r] = {} /\ stage'[<<r, 0>>] # "loading"
    <3>1. <<r, 0>> \in Dispatches
        BY Names
    <3> QED
        BY <2>1, <2>2, <3>1 DEF Down, Prepares
  <2> QED
      BY <2>3 DEF TurnsAreInLine, WaitingRunsExist, Eases
<1> QED
    BY <1>1, OthersLeaveLine, LeavesLineKeeps, PrepareFailsTurns

LEMMA ReserveTurns ==
    ASSUME RunInv, CoordinatorTypeOK, TurnsAreInLine, WaitingRunsExist, PumpReserves
    PROVE  TurnsAreInLine' /\ WaitingRunsExist'
<1>1. PICK r \in Run :
         /\ r \notin reserved /\ reserved' = reserved \cup {r}
         /\ queue[r] # "none" /\ SameGraph(r, Slots \cup reserved)
         /\ ~Prepares(r)
         /\ \E turns \in SUBSET {s \in Run : ProjectOf[s] = ProjectOf[r] /\ Prepares(s)} :
               /\ \/ turns = {s \in Run : ProjectOf[s] = ProjectOf[r] /\ Prepares(s)}
                  \/ ProjectOf[r] \in forgot
               /\ ahead' = [ahead EXCEPT ![r] = turns]
         /\ forgot \subseteq forgot'
         /\ stage' = [stage EXCEPT ![<<r, 0>>] = "preparing"]
         /\ UNCHANGED <<state, graph, queue, claimVars, cancelVars>>
    BY Reserves
<1>2. /\ \A s \in Run : Prepares(s)' <=> Prepares(s) \/ s = r
      /\ \A s \in Run : stage'[<<s, 0>>] = "loading" =>
            stage[<<s, 0>>] = "loading" /\ s # r
  <2>1. \A d \in Dispatches : stage'[d] = IF d = <<r, 0>> THEN "preparing" ELSE stage[d]
      BY <1>1 DEF CoordinatorTypeOK
  <2> SUFFICES ASSUME NEW s \in Run
               PROVE  /\ Prepares(s)' <=> Prepares(s) \/ s = r
                      /\ stage'[<<s, 0>>] = "loading" => stage[<<s, 0>>] = "loading" /\ s # r
      OBVIOUS
  <2>2. <<s, 0>> \in Dispatches
      BY Names
  <2> QED
      BY <2>1, <2>2 DEF Prepares
<1>3. /\ \A s \in Run : ahead'[s] \subseteq Run /\ (s # r => ahead'[s] = ahead[s])
      /\ \A t \in ahead'[r] : ProjectOf[t] = ProjectOf[r] /\ Prepares(t)
      /\ \A t \in Run : ProjectOf[t] = ProjectOf[r] /\ Prepares(t) =>
            t \in ahead'[r] \/ ProjectOf[r] \in forgot
    BY <1>1 DEF CoordinatorTypeOK
<1>4. Slots' = Slots /\ graph' = graph /\ state' = state /\ queue' = queue
    BY <1>1 DEF Slots
<1>5. \A t \in Run : \A s \in ahead'[t] :
          Prepares(t)' /\ Prepares(s)' /\ ProjectOf[s] = ProjectOf[t]
    BY <1>1, <1>2, <1>3 DEF TurnsAreInLine
<1>5a. \A t, s \in Run : Prepares(t)' /\ Prepares(s)' /\ ProjectOf[s] = ProjectOf[t] =>
          t = s \/ t \in ahead'[s] \/ s \in ahead'[t] \/ ProjectOf[t] \in forgot'
    BY <1>1, <1>2, <1>3 DEF TurnsAreInLine
<1>5b. \A t \in Run : stage'[<<t, 0>>] = "loading" => ahead'[t] = {}
    BY <1>2, <1>3 DEF TurnsAreInLine
<1>6. \A t \in Run : \A s \in ahead'[t] \cap reserved' : graph'[s] = graph'[t]
  <2> SUFFICES ASSUME NEW t \in Run, NEW s \in ahead'[t] \cap reserved'
               PROVE  graph[s] = graph[t]
      BY <1>4
  <2>1. CASE t = r
    <3>1. s \in Run /\ s # r /\ s \in reserved /\ ProjectOf[s] = ProjectOf[r]
        BY <1>1, <1>3, <2>1
    <3> QED
        BY <1>1, <2>1, <3>1 DEF SameGraph
  <2>2. CASE t # r
    <3>1. s \in ahead[t] /\ s # r /\ s \in reserved
        BY <1>1, <1>3, <2>2 DEF TurnsAreInLine
    <3> QED
        BY <3>1 DEF TurnsAreInLine
  <2> QED
      BY <2>1, <2>2
<1>7. \A t \in Run, s \in Slots' : Prepares(t)' /\ ProjectOf[s] = ProjectOf[t] =>
          graph'[s] = graph'[t] \/ ProjectOf[t] \in forgot'
    BY <1>1, <1>2, <1>4 DEF TurnsAreInLine, SameGraph
<1>8. WaitingRunsExist'
    BY <1>1, <1>2, <1>4 DEF WaitingRunsExist
<1> QED
    BY <1>5, <1>5a, <1>5b, <1>6, <1>7, <1>8 DEF TurnsAreInLine

(* The Run that claims has its turn, so the others of its Project wait for *)
(* it and load its graph.                                                  *)
LEMMA ClaimTurns ==
    ASSUME RunInv, CoordinatorTypeOK, TurnsAreInLine, WaitingRunsExist,
           NEW r \in Run, ClaimDispatch(r)
    PROVE  TurnsAreInLine' /\ WaitingRunsExist'
<1>1. /\ stage[<<r, 0>>] = "loading" /\ r \in reserved /\ reserved' = reserved \ {r}
      /\ <<r, generation[r] + 1>> \in Claims
      /\ slot' = [slot EXCEPT ![r] = generation[r] + 1]
      /\ state' = [state EXCEPT ![r] = "executing"]
      /\ queue' = [queue EXCEPT ![r] = "none"]
      /\ stage' = [stage EXCEPT ![<<r, 0>>] = "none",
                                ![<<r, generation[r] + 1>>] = "claimed"]
      /\ TurnOver(r)
      /\ graph' = graph
    BY ClaimsOne
<1>2. ASSUME NEW s \in Run
      PROVE  /\ Prepares(s)' <=> Prepares(s) /\ s # r
             /\ stage'[<<s, 0>>] = "loading" => stage[<<s, 0>>] = "loading"
  <2>1. <<s, 0>> \in Dispatches /\ <<s, 0>> # <<r, generation[r] + 1>>
      BY <1>1, Names
  <2>2. stage'[<<s, 0>>] = IF s = r THEN "none" ELSE stage[<<s, 0>>]
      BY <1>1, <2>1 DEF CoordinatorTypeOK
  <2> QED
      BY <2>2 DEF Prepares
<1>3. Slots' \subseteq Slots \cup {r}
    BY <1>1 DEF RunInv, ClaimInv, CancelInv, Slots
<1>4. ahead[r] = {} /\ Prepares(r)
    BY <1>1 DEF TurnsAreInLine, Prepares
<1>5. \A t \in Run : \A s \in ahead'[t] \cap reserved' : graph'[s] = graph'[t]
    BY <1>1, <1>2, TurnEnds DEF TurnsAreInLine
<1>6. \A t \in Run, s \in Slots' : Prepares(t)' /\ ProjectOf[s] = ProjectOf[t] =>
          graph'[s] = graph'[t] \/ ProjectOf[t] \in forgot'
  <2> SUFFICES ASSUME NEW t \in Run, NEW s \in Slots', Prepares(t)',
                      ProjectOf[s] = ProjectOf[t], ProjectOf[t] \notin forgot'
               PROVE  graph[s] = graph[t]
      BY <1>1
  <2>1. Prepares(t) /\ t # r /\ ProjectOf[t] \notin forgot
      BY <1>1, <1>2, TurnEnds
  <2>2. CASE s = r
    <3>1. r \in ahead[t]
        BY <1>4, <2>1, <2>2 DEF TurnsAreInLine
    <3> QED
        BY <1>1, <2>2, <3>1 DEF TurnsAreInLine
  <2>3. CASE s \in Slots
      BY <2>1, <2>3 DEF TurnsAreInLine
  <2> QED
      BY <1>3, <2>2, <2>3
<1>7. WaitingRunsExist'
    BY <1>1, <1>2 DEF WaitingRunsExist, RunInv, ClaimInv, CancelInv
<1> QED
    BY <1>1, <1>2, <1>5, <1>6, <1>7, TurnEnds DEF TurnsAreInLine

LEMMA TurnsStayInLine ==
    ASSUME CoordinatorInv, CoordinatorNext
    PROVE  TurnsAreInLine' /\ WaitingRunsExist'
<1>1. /\ StoreInv /\ RunInv /\ CoordinatorTypeOK /\ TurnsAreInLine /\ WaitingRunsExist
      /\ CancellersHaveTheirCancellation
    BY DEF CoordinatorInv, StoreInv
<1>2. CASE ~PumpReserves /\ ~\E r \in Run : ClaimDispatch(r)
  <2>1. Eases
      BY <1>1, <1>2, CoordinatorEases, EasyStepEases
  <2> QED
      BY <1>1, <1>2, <2>1, OtherTurns
<1> QED
    BY <1>1, <1>2, ReserveTurns, ClaimTurns

-----------------------------------------------------------------------------
(* Taken places.                                                           *)

Attended(r) ==
    \/ stage[<<r, slot[r]>>] \notin {"none", "reconciling", "ending", "restoring"}
    \/ ProjectOf[r] \in resuming \cup timers

LEMMA SlotNames ==
    ASSUME RunInv, NEW r \in Run
    PROVE  <<r, slot[r]>> \in Dispatches
    BY DEF RunInv, ClaimInv, CancelInv, Dispatches

LEMMA AuthorisedByItsSlot ==
    ASSUME RunInv, NEW r \in Run, state[r] = "executing"
    PROVE  /\ slot[r] # 0 /\ slot[r] \in Generations /\ Authorised(r, slot[r])
           /\ <<r, slot[r]>> \in Claims
<1>1. slot[r] # 0 /\ slot[r] \in 0 .. MaxGeneration
    BY DEF RunInv, ClaimInv, CancelInv, SlotInv, ExecutingRunsHoldTheSlots
<1>2. slot[r] \in Generations
    BY <1>1, LimitAssumption DEF Generations
<1>3. claim[r] = slot[r]
    BY <1>1 DEF RunInv, ClaimInv, CancelInv, SlotInv, SlotNamesTheNewestClaim
<1> QED
    BY <1>1, <1>2, <1>3 DEF Authorised, Claims

(* Only the Daemon's own steps change its mode.                            *)
LEMMA ModesAreTheDaemons ==
    ASSUME CoordinatorNext, ~DaemonStep
    PROVE  UNCHANGED modeVars
<1>1. CASE RequestStep \/ CancellerStep \/ LocationStep
    BY <1>1 DEF RequestStep, CancelRun, Start, Answer, RepairProject, StopWorkflow,
       ForceStopWorkflow, CancellerStep, FindControls, GiveUp, ConfirmStopped, Report,
       LocationStep, BeginLocationChange, StopDrained, DrainSettles, CommitLocation
<1>2. CASE PumpStep
    BY <1>2 DEF PumpStep, PumpReserves, PumpRests, TakeTurn, ClaimDispatch, PrepareFails,
       Settle, EndDispatch
<1>3. CASE ProcessStep
    BY <1>3 DEF ProcessStep, StopCurrent, Spawn, StartFails, Attach, Attached,
       ConfirmCancelled, Finish, Break, IdleStop, StopDone
<1>4. CASE CommitStep \/ LossStep
    BY <1>4 DEF CommitStep, ApplyWakeup, CommitSuspension, CommitCompletion, CommitRefused,
       FailRun, Reconcile, LossStep, RecordLoss, JudgeLoss, DelayOver
<1> QED
    BY <1>1, <1>2, <1>3, <1>4 DEF CoordinatorNext

LEMMA ReservedRunsPrepare ==
    ASSUME RunInv, CoordinatorTypeOK, Eases, CoordinatorNext,
           ~PumpReserves, ~\E r \in Run : ClaimDispatch(r),
           up => \A r \in reserved : Prepares(r)
    PROVE  up' => \A r \in reserved' : Prepares(r)'
<1>1. CASE ShutdownEnds \/ Crash
    BY <1>1 DEF ShutdownEnds, Crash, Down
<1>2. ASSUME NEW r \in Run, PrepareFails(r)
      PROVE  up' => \A s \in reserved' : Prepares(s)'
  <2>1. r \notin reserved'
      BY <1>2 DEF PrepareFails, HoldReserved, ReleaseReservation, vars
  <2>2. ASSUME NEW s \in Run, s # r, Prepares(s)
        PROVE  Prepares(s)'
    <3>1. <<s, 0>> \in Dispatches /\ <<s, 0>> # <<r, 0>>
        BY <2>2, Names
    <3> QED
        BY <1>2, <2>2, <3>1 DEF CoordinatorTypeOK, PrepareFails, Move, Prepares
  <2>3. up' = up /\ reserved' \subseteq reserved /\ reserved \subseteq Run
      BY <1>2 DEF PrepareFails, Eases, RunInv, ClaimInv, CancelInv
  <2> QED
      BY <2>1, <2>2, <2>3
<1>3. CASE Restart
    BY <1>3 DEF Restart, RecoverInterrupted
<1>4. CASE /\ ~ShutdownEnds /\ ~Crash /\ ~Restart
           /\ ~\E r \in Run : PrepareFails(r)
  <2>1. \A r \in Run : Prepares(r)' <=> Prepares(r)
      BY <1>4, OthersLeaveLine DEF LeavesLine
  <2>2. up' = up
    <3>1. CASE DaemonStep
        BY <1>4, <3>1 DEF DaemonStep, HoldDispatch, ReleaseDispatch, ForceDrain,
           ForceDrainEnds, Shutdown, Resume, ResumePending, ResumeDelayed, ResumeAtOnce,
           ResumeHeld, ResumePersisted
    <3> QED
        BY <3>1, ModesAreTheDaemons
  <2>3. reserved' \subseteq reserved /\ reserved \subseteq Run
      BY DEF Eases, RunInv, ClaimInv, CancelInv
  <2> QED
      BY <2>1, <2>2, <2>3
<1> QED
    BY <1>1, <1>2, <1>3, <1>4

LEMMA QuietStepsAttend ==
    ASSUME CoordinatorTypeOK, RunInv,
           RequestStep \/ CancellerStep \/ LocationStep \/ PumpStep,
           ~PumpReserves, ~\E r \in Run : ClaimDispatch(r),
           NEW r \in Run, Attended(r), slot[r] # 0, slot'[r] = slot[r]
    PROVE  Attended(r)'
<1>1. CASE RequestStep \/ CancellerStep \/ LocationStep \/ PumpRests
    BY <1>1 DEF RequestStep, CancelRun, Start, Answer, RepairProject, StopWorkflow,
       ForceStopWorkflow, CancellerStep, FindControls, GiveUp, ConfirmStopped, Report,
       LocationStep, BeginLocationChange, StopDrained, DrainSettles, CommitLocation,
       PumpRests, Attended
<1>2. \A s \in Run : <<s, 0>> # <<r, slot[r]>>
    OBVIOUS
<1>3. <<r, slot[r]>> \in Dispatches
    BY SlotNames
<1>4. ASSUME NEW s \in Run, TakeTurn(s) \/ PrepareFails(s)
      PROVE  Attended(r)'
    BY <1>2, <1>3, <1>4 DEF CoordinatorTypeOK, TakeTurn, PrepareFails, Move, Attended
<1>5. ASSUME NEW d \in Dispatches, Settle(d) \/ EndDispatch(d)
      PROVE  Attended(r)'
    BY <1>3, <1>5 DEF CoordinatorTypeOK, Settle, EndDispatch, Move, Attended
<1> QED
    BY <1>1, <1>4, <1>5 DEF PumpStep

LEMMA ProcessesAttend ==
    ASSUME CoordinatorTypeOK, RunInv, ProcessStep,
           NEW r \in Run, Attended(r), slot'[r] = slot[r]
    PROVE  Attended(r)'
<1>1. PICK c \in Claims : \/ StopCurrent(c) \/ Spawn(c) \/ StartFails(c)
                          \/ Attach(c) \/ Attached(c) \/ ConfirmCancelled(c)
                          \/ Finish(c) \/ Break(c) \/ IdleStop(c) \/ StopDone(c)
    BY DEF ProcessStep
<1>2. <<r, slot[r]>> \in Dispatches
    BY SlotNames
<1>3. UNCHANGED <<resuming, timers>>
    BY <1>1 DEF StopCurrent, Spawn, StartFails, Attach, Attached, ConfirmCancelled, Finish,
       Break, IdleStop, StopDone
<1>4. CASE StopCurrent(c) \/ Spawn(c) \/ StartFails(c) \/ Attach(c) \/ Attached(c)
    BY <1>2, <1>3, <1>4 DEF CoordinatorTypeOK, StopCurrent, Spawn, StartFails, Attach,
       Attached, Move, Attended
<1>5. CASE ConfirmCancelled(c) \/ Finish(c) \/ Break(c) \/ IdleStop(c)
    BY <1>2, <1>3, <1>5 DEF CoordinatorTypeOK, ConfirmCancelled, Finish, Break, IdleStop,
       Move, Attended
<1>6. CASE StopDone(c)
    BY <1>2, <1>3, <1>6 DEF CoordinatorTypeOK, StopDone, Attended
<1> QED
    BY <1>1, <1>4, <1>5, <1>6

LEMMA CommitsAttend ==
    ASSUME CoordinatorTypeOK, RunInv, CommitStep,
           NEW r \in Run, Attended(r), slot'[r] = slot[r],
           state[r] = "executing", state'[r] = "executing", cancel[r] = "none"
    PROVE  Attended(r)'
<1>1. PICK c \in Claims : \/ \E k \in Gate : ApplyWakeup(c, k) \/ CommitSuspension(c, k)
                          \/ \E outcome \in Outcomes : CommitCompletion(c, outcome)
                          \/ CommitRefused(c) \/ FailRun(c) \/ Reconcile(c)
    BY DEF CommitStep
<1> DEFINE d == <<r, slot[r]>>
<1>2. /\ d \in Dispatches /\ slot[r] # 0 /\ Authorised(r, slot[r])
      /\ c[1] \in Run /\ (c = d <=> c[1] = r /\ c[2] = slot[r])
    BY AuthorisedByItsSlot, Names
<1>3. UNCHANGED <<resuming, timers>>
    BY <1>1 DEF ApplyWakeup, CommitSuspension, CommitCompletion, CommitRefused, FailRun,
       Reconcile
<1>4. stage'[d] = stage[d] \/ c = d
    BY <1>1, <1>2 DEF CoordinatorTypeOK, ApplyWakeup, CommitSuspension, CommitCompletion,
       CommitRefused, FailRun, Reconcile, Move
<1>5. ASSUME NEW k \in Gate, ApplyWakeup(c, k)
      PROVE  Attended(r)'
    BY <1>3, <1>5 DEF ApplyWakeup, Attended
<1>6. ASSUME NEW k \in Gate, CommitSuspension(c, k)
      PROVE  c # d
    BY <1>2, <1>6 DEF CommitSuspension, CreateAskingAndSuspend, RunInv, ClaimInv, CancelInv
<1>7. ASSUME NEW outcome \in Outcomes, CommitCompletion(c, outcome)
      PROVE  c # d
    BY <1>2, <1>7 DEF CommitCompletion, CompleteRun, RunInv, ClaimInv, CancelInv
<1>8. CASE CommitRefused(c)
    BY <1>2, <1>3, <1>8 DEF CoordinatorTypeOK, CommitRefused, Move, Attended
<1>9. ASSUME FailRun(c)
      PROVE  c # d
    BY <1>2, <1>9 DEF FailRun, CompleteRun, RunInv, ClaimInv, CancelInv
<1>10. CASE Reconcile(c)
    BY <1>2, <1>3, <1>10 DEF CoordinatorTypeOK, Reconcile, Move, Attended
<1>11. CASE c # d
    BY <1>3, <1>4, <1>11 DEF Attended
<1> QED
    BY <1>1, <1>5, <1>6, <1>7, <1>8, <1>9, <1>10, <1>11

LEMMA LossesAttend ==
    ASSUME CoordinatorTypeOK, RunInv, LossStep, stopping = "no",
           NEW r \in Run, Attended(r), slot'[r] = slot[r],
           state[r] = "executing", state'[r] = "executing", cancel[r] = "none"
    PROVE  Attended(r)'
<1>1. PICK c \in Claims : RecordLoss(c) \/ JudgeLoss(c) \/ DelayOver(c)
    BY DEF LossStep
<1> DEFINE d == <<r, slot[r]>>
<1>2. /\ d \in Dispatches /\ slot[r] # 0 /\ Authorised(r, slot[r])
      /\ c[1] \in Run /\ (c = d <=> c[1] = r /\ c[2] = slot[r])
    BY AuthorisedByItsSlot, Names
<1>3. UNCHANGED <<resuming, timers>>
    BY <1>1 DEF RecordLoss, JudgeLoss, DelayOver
<1>4. stage'[d] = stage[d] \/ c = d
    BY <1>1, <1>2 DEF CoordinatorTypeOK, RecordLoss, JudgeLoss, DelayOver, Move
<1>5. CASE RecordLoss(c)
    BY <1>2, <1>3, <1>5 DEF CoordinatorTypeOK, RecordLoss, Move, Attended
<1>6. ASSUME JudgeLoss(c), c = d
      PROVE  Attended(r)'
  <2>1. CASE HoldAfterRestart(Owner(c))
      BY <1>2, <1>6, <2>1 DEF HoldAfterRestart, Assign, InProject, Owner, RunInv,
         ClaimInv, CancelInv
  <2>2. CASE Move(c, "delayed")
      BY <1>2, <1>3, <1>6, <2>2 DEF CoordinatorTypeOK, Move, Attended
  <2> QED
      BY <1>6, <2>1, <2>2 DEF JudgeLoss
<1>7. ASSUME DelayOver(c)
      PROVE  c # d
    BY <1>2, <1>7 DEF DelayOver, RecoverRunnerFailure, Requeue, Assign, RunInv, ClaimInv,
       CancelInv
<1>8. CASE c # d
    BY <1>3, <1>4, <1>8 DEF Attended
<1> QED
    BY <1>1, <1>5, <1>6, <1>7, <1>8

LEMMA DaemonAttends ==
    ASSUME CoordinatorTypeOK, RunInv, DaemonStep, up', stopping' = "no",
           NEW r \in Run, up /\ stopping = "no" => Attended(r), slot'[r] = slot[r],
           state[r] = "executing", state'[r] = "executing", cancel[r] = "none"
    PROVE  Attended(r)'
<1>1. CASE HoldDispatch \/ ReleaseDispatch
    BY <1>1 DEF HoldDispatch, ReleaseDispatch, Attended
<1>2. ~ForceDrain /\ ~Shutdown /\ ~ShutdownEnds /\ ~Crash
    BY DEF ForceDrain, Shutdown, ShutdownEnds, Crash, Down
<1>3. ~ForceDrainEnds
  <2> SUFFICES ASSUME ForceDrainEnds
               PROVE  state'[r] = "queued"
      OBVIOUS
  <2> QED
      BY DEF ForceDrainEnds, RecoverInterrupted, Requeue, Assign, RunInv, ClaimInv,
         CancelInv
<1>4. ASSUME Restart
      PROVE  Attended(r)'
  <2> SUFFICES ASSUME ProjectOf[r] \notin resuming'
               PROVE  state'[r] = "queued"
      BY DEF Attended
  <2> QED
      BY <1>4 DEF Restart, RecoverInterrupted, Requeue, Assign, RunInv, ClaimInv, CancelInv
<1>5. ASSUME NEW p \in Project, Resume(p)
      PROVE  Attended(r)'
  <2>1. Attended(r) /\ stage' = stage
      BY <1>5 DEF Resume, ResumePending, ResumeDelayed, ResumeAtOnce, ResumeHeld
  <2>2. resuming' = resuming \ {p} /\ timers \subseteq timers'
      BY <1>5 DEF Resume, ResumePending, ResumeDelayed, ResumeAtOnce, ResumeHeld
  <2>3. \/ p \in timers'
        \/ RecoverAfterRestart(p)
        \/ HoldAfterRestart(p)
      BY <1>5 DEF Resume, ResumePending, ResumeDelayed, ResumeAtOnce, ResumeHeld
  <2>4. p \in timers' \/ ProjectOf[r] # p
      BY <2>3 DEF RecoverAfterRestart, HoldAfterRestart, Requeue, Assign, Executing,
         InProject, RunInv, ClaimInv, CancelInv
  <2> QED
      BY <2>1, <2>2, <2>4 DEF Attended
<1>6. ASSUME NEW p \in Project, ResumePersisted(p)
      PROVE  Attended(r)'
  <2>1. Attended(r) /\ stage' = stage /\ resuming' = resuming /\ timers' = timers \ {p}
      BY <1>6 DEF ResumePersisted
  <2>2. RecoverAfterRestart(p)
      BY <1>6 DEF ResumePersisted
  <2>3. ProjectOf[r] # p
      BY <2>2 DEF RecoverAfterRestart, Requeue, Assign, Executing, InProject, RunInv,
         ClaimInv, CancelInv
  <2> QED
      BY <2>1, <2>3 DEF Attended
<1> QED
    BY <1>1, <1>2, <1>3, <1>4, <1>5, <1>6 DEF DaemonStep

(* Between a reservation and a claim, and in the step of each, somebody is *)
(* at work on the Run.                                                     *)
LEMMA ReserveAttends ==
    ASSUME CoordinatorTypeOK, RunInv, TakenPlacesAreAttended, PumpReserves
    PROVE  TakenPlacesAreAttended'
<1>1. PICK r \in Run :
          /\ reserved' = reserved \cup {r}
          /\ stage' = [stage EXCEPT ![<<r, 0>>] = "preparing"]
          /\ UNCHANGED <<state, claimVars, cancelVars>>
    BY Reserves
<1>2. UNCHANGED modeVars
    BY DEF PumpReserves
<1>3. \A s \in Run : state[s] = "executing" =>
          stage'[<<s, slot[s]>>] = stage[<<s, slot[s]>>]
    BY <1>1, Names, SlotNames, AuthorisedByItsSlot DEF CoordinatorTypeOK
<1>4. \A s \in Run : stage'[<<s, 0>>] \in {stage[<<s, 0>>], "preparing"}
    BY <1>1, Names DEF CoordinatorTypeOK
<1>5. stage'[<<r, 0>>] = "preparing" /\ reserved \subseteq Run
    BY <1>1, Names DEF CoordinatorTypeOK, RunInv, ClaimInv, CancelInv
<1> QED
    BY <1>1, <1>2, <1>3, <1>4, <1>5 DEF TakenPlacesAreAttended, Prepares

LEMMA ClaimAttends ==
    ASSUME CoordinatorTypeOK, RunInv, TakenPlacesAreAttended, NEW r \in Run,
           ClaimDispatch(r)
    PROVE  TakenPlacesAreAttended'
<1> DEFINE c == <<r, generation[r] + 1>>
<1>1. /\ reserved' = reserved \ {r} /\ c \in Claims
      /\ slot' = [slot EXCEPT ![r] = generation[r] + 1]
      /\ state' = [state EXCEPT ![r] = "executing"]
      /\ stage' = [stage EXCEPT ![<<r, 0>>] = "none", ![c] = "claimed"]
      /\ UNCHANGED cancelVars
    BY ClaimsOne
<1>2. UNCHANGED modeVars
    BY DEF ClaimDispatch
<1>3. \A s \in Run : s # r =>
          /\ stage'[<<s, 0>>] = stage[<<s, 0>>]
          /\ stage'[<<s, slot[s]>>] = stage[<<s, slot[s]>>]
          /\ slot'[s] = slot[s] /\ state'[s] = state[s]
    BY <1>1, Names, SlotNames DEF CoordinatorTypeOK, RunInv, ClaimInv, CancelInv
<1>4. stage'[<<r, slot'[r]>>] = "claimed"
  <2>1. slot'[r] = generation[r] + 1
      BY <1>1 DEF RunInv, ClaimInv, CancelInv
  <2>2. stage'[c] = "claimed"
      BY <1>1, Names DEF CoordinatorTypeOK
  <2> QED
      BY <2>1, <2>2
<1>5. reserved \subseteq Run
    BY DEF RunInv, ClaimInv, CancelInv
<1> QED
    BY <1>1, <1>2, <1>3, <1>4, <1>5 DEF TakenPlacesAreAttended, Prepares

LEMMA PlacesStayTaken ==
    ASSUME CoordinatorInv, CoordinatorNext
    PROVE  TakenPlacesAreAttended'
<1>1. /\ StoreInv /\ RunInv /\ CoordinatorTypeOK /\ CancellersHaveTheirCancellation
      /\ TakenPlacesAreAttended
    BY DEF CoordinatorInv, StoreInv
<1>2. CASE PumpReserves \/ \E r \in Run : ClaimDispatch(r)
    BY <1>1, <1>2, ReserveAttends, ClaimAttends
<1>3. CASE ~PumpReserves /\ ~\E r \in Run : ClaimDispatch(r)
  <2>1. Eases
      BY <1>1, <1>3, CoordinatorEases, EasyStepEases
  <2>2. up' => \A r \in reserved' : Prepares(r)'
      BY <1>1, <1>3, <2>1, ReservedRunsPrepare DEF TakenPlacesAreAttended
  <2>3. ASSUME up', stopping' = "no",
               NEW r \in Run, state'[r] = "executing", cancel'[r] = "none"
        PROVE  Attended(r)'
    <3>1. state[r] = "executing" /\ slot'[r] = slot[r] /\ cancel[r] = "none"
        BY <2>1, <2>3 DEF Eases
    <3>2. slot[r] # 0
        BY <1>1, <3>1, AuthorisedByItsSlot
    <3>3. up /\ stopping = "no" => Attended(r)
        BY <1>1, <3>1 DEF TakenPlacesAreAttended, Attended
    <3>4. ~DaemonStep => Attended(r) /\ stopping = "no"
        BY <2>3, <3>3, ModesAreTheDaemons
    <3>5. CASE DaemonStep
        BY <1>1, <2>3, <3>1, <3>3, <3>5, DaemonAttends
    <3>6. CASE RequestStep \/ CancellerStep \/ LocationStep \/ PumpStep
        BY <1>1, <1>3, <3>1, <3>2, <3>4, <3>5, <3>6, QuietStepsAttend
    <3>7. CASE ProcessStep
        BY <1>1, <3>1, <3>4, <3>5, <3>7, ProcessesAttend
    <3>8. CASE CommitStep
        BY <1>1, <2>3, <3>1, <3>4, <3>5, <3>8, CommitsAttend
    <3>9. CASE LossStep
        BY <1>1, <2>3, <3>1, <3>4, <3>5, <3>9, LossesAttend
    <3> QED
        BY <3>5, <3>6, <3>7, <3>8, <3>9 DEF CoordinatorNext
  <2> QED
      BY <2>2, <2>3 DEF TakenPlacesAreAttended, Attended
<1> QED
    BY <1>2, <1>3

-----------------------------------------------------------------------------
(* The pump.                                                               *)

LEMMA LeastNatural ==
    ASSUME NEW S \in SUBSET Nat, S # {}
    PROVE  \E n \in S : \A m \in S : n <= m
<1> DEFINE less == {ss \in Nat \X Nat : ss[1] < ss[2]}
<1>1. IsWellFoundedOn(less, Nat)
    BY NatLessThanWellFounded DEF OpToRel
<1>2. PICK n \in S : \A m \in S : <<m, n>> \notin less
    BY <1>1, WFMin
<1>3. \A m \in S : ~ (m < n)
    BY <1>2
<1> QED
    BY <1>3

(* Some Project is in turn, and none that is in turn has nothing to run,   *)
(* unless slots and reservations stand in its way.                         *)
LEMMA SomebodyIsInTurn ==
    ASSUME RunInv, NEW S \in SUBSET Project, S # {}
    PROVE  InTurn(S) # {}
<1>1. S \subseteq Nat /\ lastProject \in Nat
    BY ProjectAssumption DEF RunInv, ClaimInv, CancelInv
<1> DEFINE A == {p \in S : p > lastProject}
<1>2. CASE A = {}
  <2>1. PICK p \in S : \A q \in S : p <= q
      BY <1>1, LeastNatural
  <2>2. \A q \in S : ~(q > lastProject)
      BY <1>2
  <2>3. p \in InTurn(S)
      BY <1>1, <2>1, <2>2 DEF InTurn
  <2> QED
      BY <2>3
<1>3. CASE A # {}
  <2>1. A \in SUBSET Nat
      BY <1>1
  <2>2. PICK p \in A : \A q \in A : p <= q
      BY <1>3, <2>1, LeastNatural
  <2>3. \A q \in S : q <= lastProject \/ p <= q
      BY <1>1, <2>2
  <2>4. p \in InTurn(S)
      BY <1>1, <2>2, <2>3 DEF InTurn
  <2> QED
      BY <2>4
<1> QED
    BY <1>2, <1>3

LEMMA WaitingRunCanRun ==
    ASSUME RunInv, CoordinatorTypeOK, Slots = {}, reserved = {},
           NEW r \in Run, queue[r] # "none", ProjectOf[r] \notin Blocked
    PROVE  CanReserve
<1>1. Cardinality({}) = 0
    BY FS_EmptySet
<1>2. daemonLimit \in Nat \ {0} /\ \A p \in Project : projectLimit[p] \in Nat \ {0}
    BY LimitAssumption DEF RunInv, ClaimInv, CancelInv
<1>3. \A p \in Project : ProjectUse(p) = 0
  <2>1. \A p \in Project : Slots \cap InProject(p) = {} /\ reserved \cap InProject(p) = {}
      OBVIOUS
  <2> QED
      BY <1>1, <2>1 DEF ProjectUse
<1>4. ProjectOf[r] \in Candidates(Blocked)
    BY <1>2, <1>3, RunAssumption DEF Candidates, InProject
<1>5. Candidates(Blocked) \in SUBSET Project
    BY DEF Candidates
<1>6. PICK p \in InTurn(Candidates(Blocked)) : TRUE
    BY <1>4, <1>5, SomebodyIsInTurn
<1>7. PICK s \in InProject(p) : queue[s] # "none"
    BY <1>6 DEF InTurn, Candidates
<1>8. s \in Selectable(p, queue[s]) /\ queue[s] \in {"new", "continuation"}
  <2>1. s \in Run
      BY <1>7 DEF InProject
  <2> QED
      BY <1>7, <2>1 DEF Selectable, SameGraph, RunInv, ClaimInv, CancelInv
<1>9. Preferred(p) # {}
    BY <1>8 DEF Preferred
<1>10. Cardinality(Slots) + Cardinality(reserved) < daemonLimit
    BY <1>1, <1>2
<1> QED
    BY <1>6, <1>9, <1>10 DEF CanReserve

(* A step that leaves everything at rest has found it at rest, and neither *)
(* let a Run wait nor opened a Project.                                    *)
LeavesAtRest ==
    /\ AtRest
    /\ \A r \in Run : queue'[r] # "none" => queue[r] # "none"
    /\ Blocked \subseteq Blocked'

LEMMA RequestsLeaveAtRest ==
    ASSUME StoreInv, CoordinatorTypeOK, RequestStep, AtRest'
    PROVE  LeavesAtRest
<1>1. \A r \in Run : state[r] = "executing" <=> slot[r] # 0
    BY DEF StoreInv, RunInv, ClaimInv, CancelInv, SlotInv, ExecutingRunsHoldTheSlots
<1>2. ASSUME NEW r \in Run, CancelRun(r)
      PROVE  LeavesAtRest
  <2>1. RequestCancellation(r) /\ UNCHANGED <<pump, stage, modeVars, recovery, closed>>
      BY <1>2 DEF CancelRun
  <2>2. \A s \in Run : slot'[s] = slot[s]
      BY <1>1, <2>1 DEF RequestCancellation, CancelNow, ReleaseSlot, Assign, StoreInv,
         RunInv, ClaimInv, CancelInv
  <2>3. \A s \in Run : queue'[s] # "none" => queue[s] # "none"
      BY <2>1 DEF RequestCancellation, CancelNow, Assign, StoreInv, RunInv, ClaimInv,
         CancelInv
  <2> QED
      BY <2>1, <2>2, <2>3 DEF LeavesAtRest, AtRest, Slots, Blocked
<1>3. ASSUME NEW w \in Workflow, ForceStopWorkflow(w)
      PROVE  LeavesAtRest
  <2>1. ForceStop(w) /\ UNCHANGED <<pump, stage, modeVars, recovery, closed>>
      BY <1>3 DEF ForceStopWorkflow
  <2>2. \A s \in Run : slot'[s] = slot[s]
      BY <1>1, <2>1 DEF ForceStop, CancelNow, ReleaseSlot, Assign, StoreInv, RunInv,
         ClaimInv, CancelInv
  <2>3. \A s \in Run : queue'[s] # "none" => queue[s] # "none"
      BY <2>1 DEF ForceStop, CancelNow, Assign, StoreInv, RunInv, ClaimInv, CancelInv
  <2> QED
      BY <2>1, <2>2, <2>3 DEF LeavesAtRest, AtRest, Slots, Blocked
<1>4. ASSUME NEW r \in Run, NEW k \in Gate, Answer(r, k)
      PROVE  LeavesAtRest
  <2>1. /\ RecordVerdict(r, k) /\ pump' = (pump \/ state'[r] = "queued")
        /\ UNCHANGED <<stage, modeVars, recovery, closed, slot>>
      BY <1>4 DEF Answer, RecordVerdict
  <2>2. ~pump' /\ state'[r] # "queued"
      BY <2>1 DEF AtRest, CoordinatorTypeOK
  <2>3. state[r] \in {"suspended", "cancelled"}
      BY <2>1 DEF StoreInv, GateInv, UnansweredAskingsBlockTheirRun, RecordVerdict
  <2>4. queue' = queue
      BY <2>1, <2>2, <2>3 DEF RecordVerdict, Schedule, StoreInv, RunInv, ClaimInv, CancelInv
  <2> QED
      BY <2>1, <2>4 DEF LeavesAtRest, AtRest, Slots, Blocked, CoordinatorTypeOK
<1>5. ASSUME \/ \E r \in Run, g \in Graph : Start(r, g)
             \/ \E p \in Project : RepairProject(p)
             \/ \E w \in Workflow : StopWorkflow(w)
      PROVE  FALSE
    BY <1>5 DEF Start, RepairProject, StopWorkflow, AtRest
<1> QED
    BY <1>2, <1>3, <1>4, <1>5 DEF RequestStep

(* What a dispatch does it does before it is over.                         *)
LEMMA DispatchesAreNotAtRest ==
    ASSUME RunInv, CoordinatorTypeOK, CommitStep \/ LossStep \/ PumpStep, ~PumpRests,
           AtRest'
    PROVE  FALSE
<1>1. ASSUME NEW c \in Claims,
             \/ \E k \in Gate : ApplyWakeup(c, k) \/ CommitSuspension(c, k)
             \/ \E outcome \in Outcomes : CommitCompletion(c, outcome)
             \/ CommitRefused(c) \/ FailRun(c) \/ Reconcile(c)
             \/ RecordLoss(c) \/ JudgeLoss(c) \/ DelayOver(c)
      PROVE  FALSE
  <2>1. stage'[c] # "none" /\ c \in Dispatches
      BY <1>1, Names DEF CoordinatorTypeOK, ApplyWakeup, CommitSuspension, CommitCompletion,
         CommitRefused, FailRun, Reconcile, RecordLoss, JudgeLoss, DelayOver, Move
  <2> QED
      BY <2>1 DEF AtRest
<1>2. ASSUME NEW r \in Run, TakeTurn(r) \/ ClaimDispatch(r) \/ PrepareFails(r)
      PROVE  FALSE
  <2>1. CASE ClaimDispatch(r)
    <3>1. PICK c \in Claims : stage' = [stage EXCEPT ![<<r, 0>>] = "none", ![c] = "claimed"]
        BY <2>1, ClaimsOne
    <3>2. c \in Dispatches /\ stage'[c] = "claimed"
        BY <3>1, Names DEF CoordinatorTypeOK
    <3> QED
        BY <3>2 DEF AtRest
  <2>2. CASE TakeTurn(r) \/ PrepareFails(r)
    <3>1. <<r, 0>> \in Dispatches
        BY Names
    <3>2. stage'[<<r, 0>>] \in {"loading", "ending"}
        BY <2>2, <3>1 DEF CoordinatorTypeOK, TakeTurn, PrepareFails, Move
    <3> QED
        BY <3>1, <3>2 DEF AtRest
  <2> QED
      BY <1>2, <2>1, <2>2
<1>3. ASSUME NEW d \in Dispatches, Settle(d) \/ EndDispatch(d)
      PROVE  FALSE
  <2>1. pump' \/ stage'[d] # "none"
      BY <1>3 DEF CoordinatorTypeOK, Settle, EndDispatch, Move
  <2> QED
      BY <2>1 DEF AtRest
<1>4. ~PumpReserves
  <2> SUFFICES ASSUME PumpReserves
               PROVE  FALSE
      OBVIOUS
  <2>1. PICK r \in Run : stage' = [stage EXCEPT ![<<r, 0>>] = "preparing"]
      BY Reserves
  <2>2. <<r, 0>> \in Dispatches /\ stage'[<<r, 0>>] = "preparing"
      BY <2>1, Names DEF CoordinatorTypeOK
  <2> QED
      BY <2>2 DEF AtRest
<1> QED
    BY <1>1, <1>2, <1>3, <1>4 DEF CommitStep, LossStep, PumpStep

LEMMA ProcessesLeaveAtRest ==
    ASSUME StoreInv, CoordinatorTypeOK, ProcessStep, AtRest'
    PROVE  LeavesAtRest
<1>1. PICK c \in Claims : \/ StopCurrent(c) \/ Spawn(c) \/ StartFails(c)
                          \/ Attach(c) \/ Attached(c) \/ ConfirmCancelled(c)
                          \/ Finish(c) \/ Break(c) \/ IdleStop(c) \/ StopDone(c)
    BY DEF ProcessStep
<1>2. c \in Dispatches
    BY Names
<1>3. ASSUME \/ StopCurrent(c) \/ Spawn(c) \/ StartFails(c) \/ Attach(c) \/ Attached(c)
             \/ ConfirmCancelled(c) \/ Finish(c) \/ Break(c)
      PROVE  FALSE
  <2>1. stage'[c] # "none"
      BY <1>2, <1>3 DEF CoordinatorTypeOK, StopCurrent, Spawn, StartFails, Attach, Attached,
         ConfirmCancelled, Finish, Break, Move
  <2> QED
      BY <1>2, <2>1 DEF AtRest
<1>4. CASE IdleStop(c)
    BY <1>4 DEF IdleStop, LeavesAtRest, AtRest, Slots, Blocked, vars
<1>5. CASE StopDone(c)
  <2>1. stage'[c] = "none" /\ UNCHANGED <<slot, queue, pump, modeVars, recovery, closed>>
      BY <1>2, <1>5 DEF StopDone, AtRest, vars
  <2>2. stage' = stage
      BY <1>2, <1>5, <2>1 DEF StopDone, CoordinatorTypeOK
  <2> QED
      BY <2>1, <2>2 DEF LeavesAtRest, AtRest, Slots, Blocked
<1> QED
    BY <1>1, <1>3, <1>4, <1>5

LEMMA OthersLeaveAtRest ==
    ASSUME CoordinatorTypeOK, PumpIsCalled, AtRest',
           CancellerStep \/ LocationStep \/ DaemonStep
    PROVE  LeavesAtRest
<1>1. CASE CancellerStep
  <2>1. ~pump'
      BY DEF AtRest
  <2>2. UNCHANGED <<slot, queue, pump, stage, modeVars, recovery, closed>>
      BY <1>1, <2>1 DEF CancellerStep, FindControls, GiveUp, ConfirmStopped,
         RecordCleanupFault, Report, ReconcileTerminalInabilities, vars
  <2> QED
      BY <2>2 DEF LeavesAtRest, AtRest, Slots, Blocked
<1>2. ASSUME NEW p \in Project, \/ BeginLocationChange(p) \/ StopDrained(p)
                                \/ DrainSettles(p) \/ CommitLocation(p)
      PROVE  LeavesAtRest
  <2>1. /\ UNCHANGED <<slot, queue, stage, modeVars, recovery>>
        /\ pump' = pump /\ closed \subseteq closed'
      BY <1>2 DEF BeginLocationChange, DeactivateProject, StopDrained, DrainSettles,
         CommitLocation, AtRest, vars
  <2> QED
      BY <2>1 DEF LeavesAtRest, AtRest, Slots, Blocked
<1>3. CASE DaemonStep
  <2>1. /\ ~HoldDispatch /\ ~ReleaseDispatch /\ ~ForceDrain /\ ~Shutdown /\ ~ShutdownEnds
        /\ ~Crash /\ ~Restart
      BY DEF HoldDispatch, ReleaseDispatch, ForceDrain, Shutdown, ShutdownEnds, Crash, Down,
         Restart, AtRest
  <2>a. /\ ~held' /\ ~pump' /\ {held, pump} \subseteq BOOLEAN
        /\ up /\ resuming # {} => pump
        /\ stopping = "forced" => held
      BY DEF CoordinatorTypeOK, PumpIsCalled, AtRest
  <2>2. ~ForceDrainEnds
      BY <2>a DEF ForceDrainEnds
  <2>3. \A p \in Project : ~Resume(p)
      BY <2>a DEF Resume, ResumePending, ResumeDelayed, ResumeAtOnce, ResumeHeld
  <2>4. \A p \in Project : ~ResumePersisted(p)
      BY DEF ResumePersisted, AtRest
  <2> QED
      BY <1>3, <2>1, <2>2, <2>3, <2>4 DEF DaemonStep
<1> QED
    BY <1>1, <1>2, <1>3 DEF LocationStep

LEMMA PumpStaysCalled ==
    ASSUME CoordinatorTypeOK, CoordinatorNext, ~PumpRests, ~Crash, ~ShutdownEnds, pump
    PROVE  pump'
<1>1. CASE RequestStep \/ CancellerStep \/ LocationStep
    BY <1>1 DEF RequestStep, CancelRun, Start, Answer, RepairProject, StopWorkflow,
       ForceStopWorkflow, CancellerStep, FindControls, GiveUp, ConfirmStopped, Report,
       LocationStep, BeginLocationChange, StopDrained, DrainSettles, CommitLocation,
       CoordinatorTypeOK
<1>2. CASE PumpStep
    BY <1>2 DEF PumpStep, PumpReserves, TakeTurn, ClaimDispatch, PrepareFails, Settle,
       EndDispatch
<1>3. CASE ProcessStep
    BY <1>3 DEF ProcessStep, StopCurrent, Spawn, StartFails, Attach, Attached,
       ConfirmCancelled, Finish, Break, IdleStop, StopDone
<1>4. CASE CommitStep \/ LossStep
    BY <1>4 DEF CommitStep, ApplyWakeup, CommitSuspension, CommitCompletion, CommitRefused,
       FailRun, Reconcile, LossStep, RecordLoss, JudgeLoss, DelayOver
<1>5. CASE DaemonStep
    BY <1>5 DEF DaemonStep, HoldDispatch, ReleaseDispatch, ForceDrain, ForceDrainEnds,
       Shutdown, Restart, Resume, ResumePending, ResumeDelayed, ResumeAtOnce, ResumeHeld,
       ResumePersisted
<1> QED
    BY <1>1, <1>2, <1>3, <1>4, <1>5 DEF CoordinatorNext

LEMMA PumpStays ==
    ASSUME CoordinatorInv, CoordinatorNext
    PROVE  PumpIsCalled'
<1>1. /\ StoreInv /\ RunInv /\ CoordinatorTypeOK /\ PumpIsCalled /\ TakenPlacesAreAttended
    BY DEF CoordinatorInv, StoreInv
<1>2. up' /\ resuming' # {} => pump'
  <2>1. CASE PumpRests
      BY <2>1 DEF PumpRests
  <2>2. CASE Crash \/ ShutdownEnds
      BY <2>2 DEF Crash, ShutdownEnds, Down
  <2>3. CASE Restart
      BY <2>3 DEF Restart
  <2>4. up' => Restart \/ up
      BY ModesAreTheDaemons DEF DaemonStep, HoldDispatch, ReleaseDispatch, ForceDrain,
         ForceDrainEnds, Shutdown, ShutdownEnds, Crash, Down, Resume, ResumePending,
         ResumeDelayed, ResumeAtOnce, ResumeHeld, ResumePersisted, Event
  <2>5. up' => Restart \/ resuming' \subseteq resuming
      BY ModesAreTheDaemons DEF DaemonStep, HoldDispatch, ReleaseDispatch, ForceDrain,
         ForceDrainEnds, Shutdown, ShutdownEnds, Crash, Down, Resume, ResumePending,
         ResumeDelayed, ResumeAtOnce, ResumeHeld, ResumePersisted
  <2> QED
      BY <1>1, <2>1, <2>2, <2>3, <2>4, <2>5, PumpStaysCalled DEF PumpIsCalled
<1>3. stopping' = "forced" => held'
  <2>1. CASE DaemonStep
      BY <1>1, <2>1 DEF DaemonStep, HoldDispatch, ReleaseDispatch, ForceDrain,
         ForceDrainEnds, Shutdown, ShutdownEnds, Crash, Down, Restart, Resume,
         ResumePending, ResumeDelayed, ResumeAtOnce, ResumeHeld, ResumePersisted,
         PumpIsCalled
  <2> QED
      BY <1>1, <2>1, ModesAreTheDaemons DEF PumpIsCalled
<1>4. ASSUME AtRest', NEW r \in Run, queue'[r] # "none"
      PROVE  ProjectOf[r] \in Blocked'
  <2>1. CASE PumpRests
    <3>1. UNCHANGED <<queue, Slots, reserved, stage, Blocked>> /\ up
        BY <2>1 DEF PumpRests, vars, Slots, Blocked
    <3>2. ~CanReserve
        BY <1>4, <2>1 DEF PumpRests, AtRest
    <3>a. ASSUME NEW s \in Run
          PROVE  ~Prepares(s)
      <4>1. <<s, 0>> \in Dispatches
          BY Names
      <4> QED
          BY <1>4, <3>1, <4>1 DEF AtRest, Prepares
    <3>3. reserved = {} /\ Slots = {}
        BY <1>1, <1>4, <3>1, <3>a DEF AtRest, TakenPlacesAreAttended, RunInv, ClaimInv,
           CancelInv
    <3> QED
        BY <1>1, <1>4, <3>1, <3>2, <3>3, WaitingRunCanRun
  <2>2. CASE ~PumpRests
    <3>1. LeavesAtRest
        BY <1>1, <1>4, <2>2, RequestsLeaveAtRest, DispatchesAreNotAtRest,
           ProcessesLeaveAtRest, OthersLeaveAtRest DEF CoordinatorNext
    <3> QED
        BY <1>1, <1>4, <3>1 DEF LeavesAtRest, PumpIsCalled, NobodyWaits
  <2> QED
      BY <2>1, <2>2
<1> QED
    BY <1>2, <1>3, <1>4 DEF PumpIsCalled, NobodyWaits

-----------------------------------------------------------------------------
(* The invariant.                                                          *)

LEMMA CoordinatorInvInit == CoordinatorInit => CoordinatorInv
<1> SUFFICES ASSUME CoordinatorInit
             PROVE  CoordinatorInv
    OBVIOUS
<1>1. StoreInv
    BY StoreInvInit DEF CoordinatorInit
<1>2. \A d \in Dispatches : stage[d] = "none"
    BY DEF CoordinatorInit
<1>3. ASSUME NEW r \in Run
      PROVE  /\ ~Prepares(r) /\ ahead[r] = {} /\ control[r] = 0
             /\ targets[r] = {} /\ queue[r] = "none" /\ slot[r] = 0
             /\ state[r] = "absent" /\ stage[<<r, 0>>] = "none"
  <2>1. <<r, 0>> \in Dispatches
      BY Names
  <2> QED
      BY <1>2, <2>1 DEF CoordinatorInit, Init, Prepares
<1>4. \A p \in Project : handle[p] = {} /\ drain[p] = "none"
    BY DEF CoordinatorInit
<1>5. live = {} /\ stops = {} /\ resuming = {} /\ reserved = {} /\ stopping = "no"
    BY DEF CoordinatorInit, Init
<1>6. CoordinatorTypeOK
  <2>1. /\ {up, pump, held} \subseteq BOOLEAN /\ stopping \in {"no", "forced", "shutdown"}
        /\ resuming \cup timers \cup closed \subseteq Project
      BY DEF CoordinatorInit
  <2>2. /\ stage \in [Dispatches -> Stages] /\ ahead \in [Run -> SUBSET Run]
        /\ forgot \subseteq Project
      BY DEF CoordinatorInit, Stages
  <2>3. /\ live \cup stops \cup replaced \subseteq Claims
        /\ handle \in [Project -> SUBSET Claims]
        /\ awaits \in [Dispatches -> SUBSET Claims]
        /\ targets \in [Run -> SUBSET Run] /\ controls \in [Run -> SUBSET Claims]
      BY DEF CoordinatorInit
  <2>4. control \in [Run -> 0 .. MaxGeneration]
      BY Generation DEF CoordinatorInit
  <2>5. /\ canceller \in [Run -> {"none", "looking", "stopping", "reporting"}]
        /\ drain \in [Project -> {"none", "waiting", "stopping", "drained"}]
        /\ recovery \in [Project -> {"healthy", "pending", "delayed", "retrying", "held",
                                     "uncertain"}]
      BY DEF CoordinatorInit
  <2> QED
      BY <2>1, <2>2, <2>3, <2>4, <2>5 DEF CoordinatorTypeOK
<1>7. NamesAreOld /\ OneRunner
    BY <1>2, <1>3, <1>4, <1>5, Names DEF NamesAreOld, Named, OneRunner
<1>8. CancellersHaveTheirCancellation /\ DrainIsClosed
    BY <1>2, <1>3, <1>4, Names DEF CancellersHaveTheirCancellation, DrainIsClosed
<1>9. PumpIsCalled
    BY <1>3, <1>5 DEF PumpIsCalled, NobodyWaits
<1>10. TurnsAreInLine /\ WaitingRunsExist /\ TakenPlacesAreAttended
    BY <1>3, <1>5 DEF TurnsAreInLine, WaitingRunsExist, TakenPlacesAreAttended
<1> QED
    BY <1>1, <1>6, <1>7, <1>8, <1>9, <1>10 DEF CoordinatorInv

LEMMA CoordinatorInvNext ==
    ASSUME CoordinatorInv, CoordinatorNext
    PROVE  CoordinatorInv'
<1>1. CoordinatorTypeOK'
    BY CoordinatorTypesKept DEF CoordinatorInv, StoreInv
<1> QED
    BY <1>1, StoresAreKept, NamesStayOld, OneRunnerKept, CancellationsAreOnRecord,
       DrainsStayClosed, PumpStays, TurnsStayInLine, PlacesStayTaken DEF CoordinatorInv

LEMMA CoordinatorInvStutter ==
    ASSUME CoordinatorInv, UNCHANGED coordinatorVars
    PROVE  CoordinatorInv'
<1>1. StoreInv'
    BY StoreInvStutter DEF CoordinatorInv, coordinatorVars
<1>2. /\ UNCHANGED <<vars, processVars, modeVars, callVars, recovery, locationVars>>
      /\ UNCHANGED <<Slots, Blocked>>
    BY DEF coordinatorVars, vars, Slots, Blocked
<1>3. CoordinatorTypeOK' /\ NamesAreOld' /\ OneRunner'
    BY <1>2 DEF CoordinatorInv, CoordinatorTypeOK, NamesAreOld, Named, OneRunner, vars
<1>4. CancellersHaveTheirCancellation' /\ DrainIsClosed' /\ PumpIsCalled'
    BY <1>2 DEF CoordinatorInv, CancellersHaveTheirCancellation, DrainIsClosed,
       PumpIsCalled, NobodyWaits, AtRest, vars
<1>5. TurnsAreInLine' /\ WaitingRunsExist' /\ TakenPlacesAreAttended'
    BY <1>2 DEF CoordinatorInv, TurnsAreInLine, WaitingRunsExist, TakenPlacesAreAttended,
       Prepares, vars
<1> QED
    BY <1>1, <1>3, <1>4, <1>5 DEF CoordinatorInv

(* What the theorems below rest on.                                        *)
THEOREM CoordinatorInvariant == CoordinatorSpec => []CoordinatorInv
<1>1. CoordinatorInv /\ [CoordinatorNext]_coordinatorVars => CoordinatorInv'
    BY CoordinatorInvNext, CoordinatorInvStutter
<1> QED
    BY CoordinatorInvInit, <1>1, PTL DEF CoordinatorSpec

-----------------------------------------------------------------------------
(* What the run checks on small instances, for every instance.             *)

(* Types of the coordinator's own variables.                               *)
THEOREM CoordinatorTypes == CoordinatorSpec => []CoordinatorTypeOK
    BY CoordinatorInvariant, PTL DEF CoordinatorInv

(* No reservation and no execution keeps its place with nobody at work on  *)
(* it, whatever is lost, cancelled, stopped, drained or restarted          *)
(* (RunCoordinator.#dispatch, recoverRunnerLoss).                          *)
THEOREM PlacesAreAttended == CoordinatorSpec => []TakenPlacesAreAttended
    BY CoordinatorInvariant, PTL DEF CoordinatorInv

LEMMA RestingMeansNothingToDo ==
    ASSUME CoordinatorInv
    PROVE  WaitingRunsAreNoticed
<1> SUFFICES ASSUME up, ~held, stopping = "no", CanReserve, ~pump,
                    \A d \in Dispatches : stage[d] = "none"
             PROVE  \E r \in Slots : cancel[r] # "none" \/ ProjectOf[r] \in timers
    BY DEF WaitingRunsAreNoticed
<1>1. resuming = {}
    BY DEF CoordinatorInv, PumpIsCalled
<1>2. Slots # {}
  <2>1. PICK p \in InTurn(Candidates(Blocked)) : TRUE
      BY DEF CanReserve
  <2>2. PICK r \in InProject(p) : p \notin Blocked /\ queue[r] # "none"
      BY <2>1 DEF InTurn, Candidates
  <2>3. r \in Run /\ ProjectOf[r] \notin Blocked
      BY <2>2 DEF InProject
  <2>4. ~AtRest
      BY <2>2, <2>3 DEF CoordinatorInv, PumpIsCalled, NobodyWaits
  <2> QED
      BY <2>4 DEF AtRest
<1>3. PICK r \in Slots : TRUE
    BY <1>2
<1>4. r \in Run /\ state[r] = "executing" /\ <<r, slot[r]>> \in Dispatches
    BY <1>3, SlotNames DEF Slots, CoordinatorInv, StoreInv, RunInv, ClaimInv, CancelInv,
       SlotInv, ExecutingRunsHoldTheSlots
<1>5. cancel[r] = "none" => ProjectOf[r] \in resuming \cup timers
    BY <1>4 DEF CoordinatorInv, TakenPlacesAreAttended
<1> QED
    BY <1>1, <1>3, <1>5

(* No wake-up of the pump is lost (#pump and its callers).                 *)
THEOREM WakeUpsAreNotLost == CoordinatorSpec => []WaitingRunsAreNoticed
    BY RestingMeansNothingToDo, CoordinatorInvariant, PTL

LEMMA RunnersAreOwned ==
    ASSUME CoordinatorInv
    PROVE  ProcessesAreOwned
<1>1. ASSUME NEW p \in Project, drain[p] = "drained", NEW c \in live, Owner(c) = p
      PROVE  c \in replaced
  <2>1. c \in Dispatches /\ handle[p] = {} /\ stage[c] = "none"
      BY <1>1, Names DEF CoordinatorInv, CoordinatorTypeOK, DrainIsClosed
  <2> QED
      BY <1>1, <2>1 DEF CoordinatorInv, OneRunner
<1>2. ASSUME NEW p \in Project, drain[p] = "drained", NEW r \in InProject(p)
      PROVE  /\ r \notin reserved
             /\ state[r] = "executing" =>
                   cancel[r] # "none" \/ p \in timers \/ stopping # "no"
  <2>1. r \in Run /\ ProjectOf[r] = p /\ up /\ resuming = {}
      BY <1>2 DEF InProject, CoordinatorInv, DrainIsClosed
  <2>2. \A d \in Dispatches : d[1] = r => stage[d] = "none"
      BY <1>2, <2>1 DEF CoordinatorInv, DrainIsClosed, Owner
  <2>3. stage[<<r, 0>>] = "none" /\ stage[<<r, slot[r]>>] = "none"
    <3>1. <<r, 0>> \in Dispatches /\ <<r, slot[r]>> \in Dispatches
        BY <2>1, Names, SlotNames DEF CoordinatorInv, StoreInv
    <3> QED
        BY <2>2, <3>1
  <2> QED
      BY <2>1, <2>3 DEF CoordinatorInv, TakenPlacesAreAttended, Prepares
<1> QED
    BY <1>1, <1>2 DEF ProcessesAreOwned, CoordinatorInv, OneRunner

(* Runner processes do not leak: the supervisor knows each that runs but   *)
(* those that attach overwrote, what it takes for the runner of a Project  *)
(* runs unless its Run was cancelled, and nothing else of a Project is at  *)
(* work when its location changes (ProjectRunnerSupervisor, drainProject). *)
THEOREM ProcessesHaveTheirOwner == CoordinatorSpec => []ProcessesAreOwned
    BY RunnersAreOwned, CoordinatorInvariant, PTL

(* A step that stops a runner that executes comes from a Daemon that       *)
(* stops, from another claim of the Project or from a forgotten turn.      *)
Excused(c) ==
    \/ stopping' # "no"
    \/ \E r \in Slots : r # c[1] /\ ProjectOf[r] = Owner(c)
    \/ \E d \in Claims : Owner(d) = Owner(c) /\ Dispossessed(d)
    \/ Owner(c) \in forgot

LEMMA OtherClaimsExcuse ==
    ASSUME CoordinatorInv, NEW c \in Claims, stage[c] = "running", slot[c[1]] = c[2],
           NEW d \in Claims, stage[d] \in {"claimed", "starting", "lost"},
           c \in handle[Owner(d)]
    PROVE  Excused(c)
<1>1. Owner(c) = Owner(d)
    BY Names DEF CoordinatorInv, OneRunner
<1>2. CASE slot[d[1]] # d[2]
    BY <1>1, <1>2 DEF Excused, Dispossessed
<1>3. CASE slot[d[1]] = d[2]
  <2>1. d[1] \in Slots
      BY <1>3, Names DEF Slots
  <2>2. d[1] # c[1]
      BY <1>3, Names
  <2> QED
      BY <1>1, <2>1, <2>2 DEF Excused, Owner
<1> QED
    BY <1>2, <1>3

(* The runner of a slot is of another package graph only for a dispatch    *)
(* whose turn was not its own.                                             *)
LEMMA TurnsExcuse ==
    ASSUME CoordinatorInv, NEW c \in Claims, Interrupts(c), NEW r \in Run, TakeTurn(r)
    PROVE  Excused(c)
<1>1. /\ c \in handle[ProjectOf[r]] /\ graph[c[1]] # graph[r] /\ Prepares(r)
      /\ slot[c[1]] = c[2]
    BY DEF Interrupts, TakeTurn, HasTurn, Prepares
<1>2. ProjectOf[r] \in Project
    BY RunAssumption
<1>3. Owner(c) = ProjectOf[r]
    BY <1>1, <1>2 DEF CoordinatorInv, OneRunner
<1>4. c[1] \in Slots /\ ProjectOf[c[1]] = ProjectOf[r]
    BY <1>1, <1>3, Names DEF Slots, Owner
<1>5. ProjectOf[r] \in forgot
    BY <1>1, <1>4 DEF CoordinatorInv, TurnsAreInLine
<1> QED
    BY <1>3, <1>5 DEF Excused

LEMMA InterruptionsAreExcused ==
    ASSUME CoordinatorInv, CoordinatorNext, NEW c \in Claims, Interrupts(c)
    PROVE  Excused(c)
<1>1. /\ stage[c] = "running" /\ stage'[c] = "running" /\ cancel'[c[1]] = "none"
      /\ slot[c[1]] = c[2] /\ c \in stops' /\ c \notin stops
    BY DEF Interrupts
<1>2. c \in Dispatches /\ c[1] \in Run /\ Owner(c) \in Project
    BY Names
<1> USE DEF CoordinatorInv
<1>3. CASE RequestStep
  <2>1. ASSUME NEW r \in Run, CancelRun(r)
        PROVE  FALSE
    <3>1. cancel'[r] # "none"
        BY <2>1, RequestedRunsAreCancelled DEF CancelRun, StoreInv
    <3>2. c[1] \in {r}
        BY <1>1, <2>1, StopControlsStopsAttached DEF CancelRun
    <3> QED
        BY <1>1, <3>1, <3>2
  <2>2. ASSUME NEW w \in Workflow, ForceStopWorkflow(w)
        PROVE  FALSE
    <3>1. ForceStopTargets(w) \in SUBSET Run
        BY DEF ForceStopTargets
    <3>2. c[1] \in ForceStopTargets(w)
        BY <1>1, <2>2, <3>1, StopControlsStopsAttached DEF ForceStopWorkflow
    <3>3. cancel'[c[1]] # "none"
        BY <2>2, <3>2, RequestedRunsAreCancelled DEF ForceStopWorkflow, StoreInv
    <3> QED
        BY <1>1, <3>3
  <2> QED
      BY <1>1, <1>3, <2>1, <2>2 DEF RequestStep, Start, Answer, RepairProject, StopWorkflow
<1>4. CASE PumpStep
    BY <1>1, <1>4, TurnsExcuse DEF PumpStep, PumpReserves, PumpRests, ClaimDispatch,
       PrepareFails, Settle, EndDispatch
<1>5. CASE ProcessStep
  <2>1. PICK d \in Claims : \/ StopCurrent(d) \/ Spawn(d) \/ StartFails(d)
                            \/ Attach(d) \/ Attached(d) \/ ConfirmCancelled(d)
                            \/ Finish(d) \/ Break(d) \/ IdleStop(d) \/ StopDone(d)
      BY <1>5 DEF ProcessStep
  <2>2. StopCurrent(d) \/ Attach(d)
      BY <1>1, <1>2, <2>1, Names DEF Spawn, StartFails, Attached, ConfirmCancelled, Finish,
         Break, IdleStop, StopDone, Move, CoordinatorTypeOK
  <2>3. stage[d] \in {"claimed", "starting"} /\ c \in handle[Owner(d)]
      BY <1>1, <2>2 DEF StopCurrent, StopRunner, Attach
  <2> QED
      BY <1>1, <2>3, OtherClaimsExcuse
<1>6. CASE CommitStep
    BY <1>1, <1>6 DEF CommitStep, ApplyWakeup, CommitSuspension, CommitCompletion,
       CommitRefused, FailRun, Reconcile
<1>7. CASE LossStep
  <2>1. PICK d \in Claims : RecordLoss(d)
      BY <1>1, <1>7 DEF LossStep, JudgeLoss, DelayOver
  <2>2. stage[d] = "lost" /\ c \in handle[Owner(d)]
      BY <1>1, <2>1 DEF RecordLoss, StopRunner
  <2> QED
      BY <1>1, <2>2, OtherClaimsExcuse
<1>8. CASE CancellerStep
  <2>1. PICK r \in Run : FindControls(r)
      BY <1>1, <1>8 DEF CancellerStep, GiveUp, ConfirmStopped, Report
  <2>2. targets[r] \in SUBSET Run /\ cancel' = cancel
      BY <2>1 DEF CoordinatorTypeOK, FindControls, vars
  <2>3. c[1] \in targets[r]
      BY <1>1, <2>1, <2>2, StopControlsStopsAttached DEF FindControls
  <2> QED
      BY <1>1, <2>2, <2>3 DEF CancellersHaveTheirCancellation
<1>9. CASE DaemonStep
    BY <1>1, <1>9 DEF DaemonStep, HoldDispatch, ReleaseDispatch, ForceDrain, ForceDrainEnds,
       Shutdown, ShutdownEnds, Crash, Down, Restart, Resume, ResumePending, ResumeDelayed,
       ResumeAtOnce, ResumeHeld, ResumePersisted, Excused
<1>10. CASE LocationStep
  <2>1. PICK p \in Project : StopDrained(p)
      BY <1>1, <1>10 DEF LocationStep, BeginLocationChange, DrainSettles, CommitLocation
  <2>2. c \in handle[p] /\ IsIdle(p)
      BY <1>1, <2>1 DEF StopDrained, StopRunner
  <2>3. Owner(c) = p
      BY <2>2 DEF OneRunner
  <2> QED
      BY <1>1, <1>2, <2>2, <2>3 DEF IsIdle
<1> QED
    BY <1>3, <1>4, <1>5, <1>6, <1>7, <1>8, <1>9, <1>10 DEF CoordinatorNext

(* An execution that has its claim and was not cancelled is interrupted    *)
(* only by a Daemon that stops or drains, by the second slot of its        *)
(* Project, by the rest of a late recovery or by a dispatch whose turn     *)
(* attach forgot.                                                          *)
THEOREM ExecutionsAreNotInterrupted == CoordinatorSpec => RunsAreNotInterrupted
<1>1. ASSUME CoordinatorInv, [CoordinatorNext]_coordinatorVars
      PROVE  [\A c \in Claims : Interrupts(c) =>
                \/ stopping' # "no"
                \/ \E r \in Slots : r # c[1] /\ ProjectOf[r] = Owner(c)
                \/ \E d \in Claims : Owner(d) = Owner(c) /\ Dispossessed(d)
                \/ Owner(c) \in forgot]_coordinatorVars
    BY <1>1, InterruptionsAreExcused DEF Excused
<1> QED
    BY <1>1, CoordinatorInvariant, PTL DEF CoordinatorSpec, RunsAreNotInterrupted

(* Whatever the coordinator does to the Run and Gate repositories is one   *)
(* of their transactions, so that all of theirs holds of it as well.       *)
THEOREM CoordinatorImplementsStores == CoordinatorSpec => GateSpec
<1>1. CoordinatorInit => Init /\ GateInit
    BY DEF CoordinatorInit
<1>2. ASSUME CoordinatorInv, [CoordinatorNext]_coordinatorVars
      PROVE  [GateNext]_<<vars, gateVars>>
    BY <1>2, CoordinatorTransacts DEF CoordinatorInv, coordinatorVars
<1> QED
    BY <1>1, <1>2, CoordinatorInvariant, PTL DEF CoordinatorSpec, GateSpec

=============================================================================
