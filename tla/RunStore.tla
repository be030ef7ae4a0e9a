------------------------------ MODULE RunStore ------------------------------
(***************************************************************************)
(* The Daemon's durable Run store: SqliteRunRepository.  One action is one *)
(* SQLite transaction, so a step is atomic exactly where the code is.      *)
(*                                                                         *)
(* A Run is named by its Run ID, which the code derives from Project,      *)
(* Workflow and idempotency key; ProjectOf and WorkflowOf are therefore    *)
(* constants.  A runner instance ID is a fresh UUID for every claim, so a  *)
(* claim is identified by its Run and generation and the runner ID is left *)
(* out.  A reservation ID is fresh too: a call with a stale one changes    *)
(* nothing, so a reservation is membership in "reserved".                  *)
(*                                                                         *)
(* Every mutation carries a request ID and leaves a receipt.  A replayed   *)
(* request only reads its receipt and a request ID reused with other       *)
(* content is refused: neither changes anything, and a caller can always   *)
(* take a fresh ID, so receipts are left out.  (A replayed cancellation    *)
(* does run again; so does RequestCancellation here.)  The same holds for  *)
(* the event IDs of Trigger deliveries.                                    *)
(*                                                                         *)
(* Left out: timestamps, payloads, the operation ledger, the refusals of   *)
(* an ineligible Project or a stale review, the "interrupted sibling" note *)
(* and the displayed queue reason, none of which any transition reads.     *)
(*                                                                         *)
(* An operator named Faulty... is the operator below it with one plausible *)
(* mistake.  None is part of a specification: each shows that a property   *)
(* fails when the code makes that mistake.                                 *)
(***************************************************************************)
EXTENDS Naturals, FiniteSets

CONSTANTS
    Run, Project, Workflow, Graph, Phase,
    ProjectOf,            \* Run -> Project
    WorkflowOf,           \* Run -> Workflow
    TriggerWorkflow,      \* the Workflows whose source declares a Trigger
    NoGraph,
    DaemonLimits,         \* values limits.executingRuns of the Daemon takes
    ProjectLimits,        \* values limits.executingRuns of a Project takes
    NewStartQueue,        \* limits.newStartQueue of the Daemon
    ProjectNewStartQueue, \* limits.newStartQueue of every Project
    DefaultQueue,         \* DEFAULT_DAEMON_NEW_START_QUEUE
    ProjectDefaultQueue,  \* DEFAULT_PROJECT_NEW_START_QUEUE
    ContinuationBurst,    \* CONTINUATION_BURST
    MaxGeneration         \* bound of the checked instances: claims per Run

(* Project IDs are compared by the scheduler's round robin, so they are    *)
(* numbers; 0 is the absent last_project_id.                               *)
ASSUME ProjectAssumption ==
    /\ Project \subseteq Nat \ {0}
    /\ IsFiniteSet(Project)

ASSUME RunAssumption ==
    /\ IsFiniteSet(Run)
    /\ ProjectOf \in [Run -> Project]
    /\ WorkflowOf \in [Run -> Workflow]
    /\ \A r, s \in Run : WorkflowOf[r] = WorkflowOf[s] => ProjectOf[r] = ProjectOf[s]
    /\ TriggerWorkflow \subseteq Workflow

ASSUME AbsentAssumption == NoGraph \notin Graph

ASSUME LimitAssumption ==
    /\ DaemonLimits \subseteq Nat \ {0} /\ DaemonLimits # {}
    /\ ProjectLimits \subseteq Nat \ {0} /\ ProjectLimits # {}
    /\ {NewStartQueue, ProjectNewStartQueue, DefaultQueue, ProjectDefaultQueue} \subseteq Nat
    /\ ContinuationBurst \in Nat /\ MaxGeneration \in Nat

VARIABLES
    state,        \* workflow_runs.state, or "absent"
    graph,        \* workflow_runs.package_graph_id, fixed at admission
    sequence,     \* workflow_runs.admission_sequence, 0 when absent
    queue,        \* workflow_queue.queue_kind, or "none"
    reserved,     \* workflow_reservations
    lastProject,  \* workflow_scheduler_state.last_project_id
    streak,       \* workflow_project_scheduler_state.continuation_streak
    generation,   \* workflow_claim_generations
    claim,        \* workflow_claims.generation, 0 when there is no row
    slot,         \* workflow_slots.generation, 0 when there is no row
    result,       \* workflow_results: the generation that recorded it, or 0
    hold,         \* workflow_run_holds.code: "none", "content", "recovery"
    cancel,       \* workflow_cancellations: "none", "requested", "confirmed"
    cleanup,      \* workflow_run_cleanup.state, or "none"
    active,       \* project_workflows with activity = 'active'
    mode,         \* project_workflows.trigger_state, as the WorkflowMode it gives
    daemonLimit,  \* limits.executingRuns of the Daemon
    projectLimit  \* limits.executingRuns of each Project

schedulerVars == <<lastProject, streak>>
claimVars     == <<generation, claim, slot>>
cancelVars    == <<cancel, cleanup>>
activityVars  == <<active, mode>>
limitVars     == <<daemonLimit, projectLimit>>
pinnedVars    == <<graph, sequence>>

vars == <<state, pinnedVars, queue, reserved, schedulerVars, claimVars, result,
          hold, cancelVars, activityVars, limitVars>>

-----------------------------------------------------------------------------

RunStates == {"absent", "queued", "executing", "suspended", "held",
              "succeeded", "failed", "cancelled"}
Completed == {"succeeded", "failed"}
Terminal  == Completed \cup {"cancelled"}
Outcomes  == Completed

(* A function changed to value v on every element of S.                    *)
Assign(f, S, v) == [x \in DOMAIN f |-> IF x \in S THEN v ELSE f[x]]

InProject(p) == {r \in Run : ProjectOf[r] = p}
Executing(p) == {r \in InProject(p) : state[r] = "executing"}
Slots        == {r \in Run : slot[r] # 0}
Queued(kind) == {r \in Run : queue[r] = kind}

(* #assertAuthority: the claim row and the slot row both name the caller.  *)
Authorised(r, g) == g # 0 /\ claim[r] = g /\ slot[r] = g

Init ==
    /\ state = [r \in Run |-> "absent"]
    /\ graph = [r \in Run |-> NoGraph]
    /\ sequence = [r \in Run |-> 0]
    /\ queue = [r \in Run |-> "none"]
    /\ reserved = {}
    /\ lastProject = 0
    /\ streak = [p \in Project |-> 0]
    /\ generation = [r \in Run |-> 0]
    /\ claim = [r \in Run |-> 0]
    /\ slot = [r \in Run |-> 0]
    /\ result = [r \in Run |-> [f \in Phase |-> 0]]
    /\ hold = [r \in Run |-> "none"]
    /\ cancel = [r \in Run |-> "none"]
    /\ cleanup = [r \in Run |-> "none"]
    /\ active = {}
    /\ mode = [w \in Workflow |-> IF w \in TriggerWorkflow THEN "trigger" ELSE "no-trigger"]
    /\ daemonLimit \in DaemonLimits
    /\ projectLimit \in [Project -> ProjectLimits]

-----------------------------------------------------------------------------
(* Admission.                                                              *)

QueueHasRoom(p, limit, projectLimited) ==
    /\ Cardinality(Queued("new")) < limit
    /\ Cardinality(Queued("new") \cap InProject(p)) < projectLimited

(* COALESCE(MAX(admission_sequence), 0) + 1                                *)
IsNextSequence(n) ==
    /\ \A s \in Run : sequence[s] < n
    /\ n = 1 \/ \E s \in Run : sequence[s] + 1 = n

Insert(r, g) ==
    /\ state[r] = "absent"
    /\ \E n \in 1 .. Cardinality(Run) :
          /\ IsNextSequence(n)
          /\ sequence' = [sequence EXCEPT ![r] = n]
    /\ state' = [state EXCEPT ![r] = "queued"]
    /\ graph' = [graph EXCEPT ![r] = g]
    /\ queue' = [queue EXCEPT ![r] = "new"]

(* admitAndActivateWorkflow, the Start of a no-Trigger Workflow.  A second *)
(* Start for the same Run keeps the Run and its pinned graph.              *)
AdmitAndActivate(r, g) ==
    /\ mode[WorkflowOf[r]] = "no-trigger"
    /\ \/ /\ QueueHasRoom(ProjectOf[r], NewStartQueue, ProjectNewStartQueue)
          /\ Insert(r, g)
       \/ /\ state[r] # "absent"
          /\ UNCHANGED <<state, pinnedVars, queue>>
    /\ active' = active \cup {WorkflowOf[r]}
    /\ UNCHANGED <<reserved, schedulerVars, claimVars, result, hold, cancelVars, mode,
                   limitVars>>

(* A Trigger event is admitted against the default queue limits, whatever  *)
(* the configured ones are; a duplicate changes nothing.                   *)
DeliverTrigger(r, g) ==
    /\ WorkflowOf[r] \in active
    /\ mode[WorkflowOf[r]] = "trigger"
    /\ QueueHasRoom(ProjectOf[r], DefaultQueue, ProjectDefaultQueue)
    /\ Insert(r, g)
    /\ UNCHANGED <<reserved, schedulerVars, claimVars, result, hold, cancelVars,
                   activityVars, limitVars>>

-----------------------------------------------------------------------------
(* Workflow activity, kept by SqliteProjectRepository in the same database. *)

StartActivity(w) ==
    /\ mode[w] = "trigger"
    /\ active' = active \cup {w}
    /\ UNCHANGED <<state, pinnedVars, queue, reserved, schedulerVars, claimVars, result,
                   hold, cancelVars, mode, limitVars>>

StopActivity(w) ==
    /\ active' = active \ {w}
    /\ UNCHANGED <<state, pinnedVars, queue, reserved, schedulerVars, claimVars, result,
                   hold, cancelVars, mode, limitVars>>

WorkflowsOf(p) == {WorkflowOf[r] : r \in InProject(p)}

(* A location change that is accepted makes every Workflow of the Project  *)
(* inactive.                                                               *)
DeactivateProject(p) ==
    /\ active' = active \ WorkflowsOf(p)
    /\ UNCHANGED <<state, pinnedVars, queue, reserved, schedulerVars, claimVars, result,
                   hold, cancelVars, mode, limitVars>>

(* A dispatch that ends makes a no-Trigger Workflow without current Runs   *)
(* inactive.  A held Run does not count as current.                        *)
SettleManualActivity(w) ==
    /\ mode[w] = "no-trigger"
    /\ \A r \in Run : WorkflowOf[r] = w => state[r] \notin {"queued", "executing", "suspended"}
    /\ active' = active \ {w}
    /\ UNCHANGED <<state, pinnedVars, queue, reserved, schedulerVars, claimVars, result,
                   hold, cancelVars, mode, limitVars>>

-----------------------------------------------------------------------------
(* Scheduling.                                                             *)

(* No slot, and no reservation when others counts them, of the Project     *)
(* uses another package graph.                                             *)
SameGraph(r, others) ==
    \A s \in others : ProjectOf[s] = ProjectOf[r] => graph[s] = graph[r]

Selectable(p, kind) ==
    {r \in InProject(p) : /\ queue[r] = kind
                          /\ r \notin reserved
                          /\ SameGraph(r, Slots \cup reserved)}

(* A continuation is preferred until ContinuationBurst of them ran in a    *)
(* row while nothing new did.                                              *)
Preferred(p) ==
    LET first  == IF streak[p] >= ContinuationBurst THEN "new" ELSE "continuation"
        second == IF first = "new" THEN "continuation" ELSE "new"
    IN  IF Selectable(p, first) # {} THEN Selectable(p, first) ELSE Selectable(p, second)

Oldest(S) == {r \in S : \A s \in S : sequence[r] <= sequence[s]}

ProjectUse(p) == Cardinality(Slots \cap InProject(p)) + Cardinality(reserved \cap InProject(p))

Candidates(blocked) ==
    {p \in Project \ blocked : /\ \E r \in InProject(p) : queue[r] # "none"
                               /\ ProjectUse(p) < projectLimit[p]}

(* The first candidate after lastProject in ID order, else the first one.  *)
InTurn(S) ==
    {p \in S : \A q \in S : IF p > lastProject
                            THEN q <= lastProject \/ p <= q
                            ELSE q <= lastProject /\ p <= q}

(* The code counts on; only whether the count has reached the burst is     *)
(* read, so it saturates there.                                            *)
Advance(p, kind) ==
    /\ lastProject' = p
    /\ streak' = [streak EXCEPT ![p] =
                    IF kind # "continuation" THEN 0
                    ELSE IF streak[p] < ContinuationBurst THEN streak[p] + 1 ELSE streak[p]]

ReserveNext(blocked) ==
    /\ Cardinality(Slots) + Cardinality(reserved) < daemonLimit
    /\ \E p \in InTurn(Candidates(blocked)) :
         \E r \in Oldest(Preferred(p)) :
            /\ reserved' = reserved \cup {r}
            /\ Advance(p, queue[r])
    /\ UNCHANGED <<state, pinnedVars, queue, claimVars, result, hold, cancelVars,
                   activityVars, limitVars>>

FaultySlotFreeAnyGraph(r) ==
    /\ Cardinality(Slots) < daemonLimit
    /\ Cardinality(Slots \cap InProject(ProjectOf[r])) < projectLimit[ProjectOf[r]]

(* The limits and the graph are read again, for slots only.                *)
SlotFree(r) ==
    /\ Cardinality(Slots) < daemonLimit
    /\ Cardinality(Slots \cap InProject(ProjectOf[r])) < projectLimit[ProjectOf[r]]
    /\ SameGraph(r, Slots)

FaultyTakeSlot(r) ==
    LET g == IF generation[r] = 0 THEN 1 ELSE generation[r] IN
    /\ slot[r] = 0
    /\ generation' = [generation EXCEPT ![r] = g]
    /\ claim' = [claim EXCEPT ![r] = g]
    /\ slot' = [slot EXCEPT ![r] = g]
    /\ queue' = [queue EXCEPT ![r] = "none"]
    /\ state' = [state EXCEPT ![r] = "executing"]
    /\ UNCHANGED <<pinnedVars, result, hold, cancelVars, activityVars, limitVars>>

(* The claim upsert, the slot insert (a second slot row is an error), and  *)
(* the queue and reservation deletes that every claim ends with.           *)
TakeSlot(r) ==
    /\ generation[r] < MaxGeneration
    /\ slot[r] = 0
    /\ generation' = [generation EXCEPT ![r] = @ + 1]
    /\ claim' = [claim EXCEPT ![r] = generation[r] + 1]
    /\ slot' = [slot EXCEPT ![r] = generation[r] + 1]
    /\ queue' = [queue EXCEPT ![r] = "none"]
    /\ state' = [state EXCEPT ![r] = "executing"]
    /\ UNCHANGED <<pinnedVars, result, hold, cancelVars, activityVars, limitVars>>

ClaimReserved(r) ==
    /\ r \in reserved
    /\ queue[r] # "none"
    /\ state[r] = "queued"
    /\ SlotFree(r)
    /\ TakeSlot(r)
    /\ reserved' = reserved \ {r}
    /\ UNCHANGED schedulerVars

ReleaseReservation(r) ==
    /\ r \in reserved
    /\ reserved' = reserved \ {r}
    /\ UNCHANGED <<state, pinnedVars, queue, schedulerVars, claimVars, result, hold,
                   cancelVars, activityVars, limitVars>>

(* The plain INSERT of the hold row fails when the Run already has one.    *)
HoldReserved(r) ==
    /\ r \in reserved
    /\ hold[r] = "none"
    /\ hold' = [hold EXCEPT ![r] = "content"]
    /\ queue' = [queue EXCEPT ![r] = "none"]
    /\ reserved' = reserved \ {r}
    /\ UNCHANGED <<state, pinnedVars, schedulerVars, claimVars, result, cancelVars,
                   activityVars, limitVars>>

-----------------------------------------------------------------------------
(* Calls under a Run Claim.                                                *)

FaultyCompletePhase(r, g, f) ==
    /\ state[r] = "executing"
    /\ result' = [result EXCEPT ![r][f] = IF @ = 0 THEN g ELSE @]
    /\ UNCHANGED <<state, pinnedVars, queue, reserved, schedulerVars, claimVars, hold,
                   cancelVars, activityVars, limitVars>>

(* ON CONFLICT DO NOTHING: the first result of a Phase stays.              *)
CompletePhase(r, g, f) ==
    /\ Authorised(r, g)
    /\ result' = [result EXCEPT ![r][f] = IF @ = 0 THEN g ELSE @]
    /\ UNCHANGED <<state, pinnedVars, queue, reserved, schedulerVars, claimVars, hold,
                   cancelVars, activityVars, limitVars>>

ReleaseSlot(S) == slot' = Assign(slot, S, 0)
ReleaseClaim(S) == claim' = Assign(claim, S, 0)

CompleteRun(r, g, outcome) ==
    /\ Authorised(r, g)
    /\ cancel[r] = "none"
    /\ state' = [state EXCEPT ![r] = outcome]
    /\ ReleaseSlot({r}) /\ ReleaseClaim({r})
    /\ UNCHANGED <<pinnedVars, queue, reserved, schedulerVars, generation, result, hold,
                   cancelVars, activityVars, limitVars>>

(* hold: retained content found unusable after the claim.                  *)
Hold(r, g) ==
    /\ Authorised(r, g)
    /\ hold' = [hold EXCEPT ![r] = "content"]
    /\ state' = [state EXCEPT ![r] = "queued"]
    /\ queue' = [queue EXCEPT ![r] = "none"]
    /\ ReleaseSlot({r}) /\ ReleaseClaim({r})
    /\ UNCHANGED <<pinnedVars, reserved, schedulerVars, generation, result, cancelVars,
                   activityVars, limitVars>>

-----------------------------------------------------------------------------
(* Recovery.                                                               *)

FaultyRequeue(S) ==
    /\ slot' = slot
    /\ state' = Assign(state, S, "queued")
    /\ queue' = Assign(queue, S, "continuation")

(* Interrupted Runs go back to the queue; the claim row stays, so that the *)
(* next claim has a higher generation.                                     *)
Requeue(S) ==
    /\ ReleaseSlot(S)
    /\ state' = Assign(state, S, "queued")
    /\ queue' = Assign(queue, S, "continuation")

RecoverInterrupted(deferred) ==
    /\ Requeue({r \in Run : /\ state[r] = "executing"
                            /\ cancel[r] # "requested"
                            /\ ProjectOf[r] \notin deferred})
    /\ reserved' = {}
    /\ UNCHANGED <<pinnedVars, schedulerVars, generation, claim, result, hold, cancelVars,
                   activityVars, limitVars>>

RecoverAfterRestart(p) ==
    /\ Requeue(Executing(p))
    /\ UNCHANGED <<pinnedVars, reserved, schedulerVars, generation, claim, result, hold,
                   cancelVars, activityVars, limitVars>>

RecoverRunnerFailure(r, g) ==
    /\ Authorised(r, g)
    /\ Requeue({r})
    /\ UNCHANGED <<pinnedVars, reserved, schedulerVars, generation, claim, result, hold,
                   cancelVars, activityVars, limitVars>>

FaultyHoldAfterRestart(p) ==
    LET S == {r \in InProject(p) : state[r] \in {"executing", "queued", "suspended"}} IN
    /\ ReleaseSlot(S)
    /\ queue' = Assign(queue, S, "none")
    /\ state' = Assign(state, S, "held")
    /\ hold' = Assign(hold, S, "recovery")
    /\ UNCHANGED <<pinnedVars, reserved, schedulerVars, generation, claim, result,
                   cancelVars, activityVars, limitVars>>

HoldAfterRestart(p) ==
    LET S == {r \in InProject(p) : state[r] \in {"executing", "queued"}} IN
    /\ ReleaseSlot(S)
    /\ queue' = Assign(queue, S, "none")
    /\ state' = Assign(state, S, "held")
    /\ hold' = Assign(hold, S, "recovery")
    /\ UNCHANGED <<pinnedVars, reserved, schedulerVars, generation, claim, result,
                   cancelVars, activityVars, limitVars>>

(* Every Run with a recovery hold row is requeued, whatever its state.     *)
RepairHolds(p) ==
    LET S == {r \in InProject(p) : hold[r] = "recovery"} IN
    /\ hold' = Assign(hold, S, "none")
    /\ state' = Assign(state, S, "queued")
    /\ queue' = Assign(queue, S, "continuation")
    /\ UNCHANGED <<pinnedVars, reserved, schedulerVars, claimVars, result, cancelVars,
                   activityVars, limitVars>>

-----------------------------------------------------------------------------
(* Cancellation.                                                           *)

(* A Run that is not executing is cancelled at once; its hold row stays.   *)
CancelNow(S) ==
    /\ state' = Assign(state, S, "cancelled")
    /\ queue' = Assign(queue, S, "none")
    /\ reserved' = reserved \ S
    /\ ReleaseSlot(S) /\ ReleaseClaim(S)

RequestCancellation(r) ==
    /\ \/ /\ state[r] = "executing"
          /\ cancel' = [cancel EXCEPT ![r] = IF @ = "none" THEN "requested" ELSE @]
          /\ cleanup' = [cleanup EXCEPT ![r] = "pending"]
          /\ UNCHANGED <<state, queue, reserved, claim, slot>>
       \/ /\ state[r] \in {"queued", "suspended", "held"}
          /\ CancelNow({r})
          /\ cancel' = [cancel EXCEPT ![r] = "confirmed"]
          /\ cleanup' = [cleanup EXCEPT ![r] = "not-required"]
    /\ UNCHANGED <<pinnedVars, schedulerVars, generation, result, hold, activityVars,
                   limitVars>>

(* trigger_state becomes 'not-observed' for every Workflow, also for one   *)
(* that declares no Trigger, which reads as a Trigger Workflow from then   *)
(* on.  The targets are the Runs in these three states: a held Run is not  *)
(* among them.                                                             *)
ForceStopTargets(w) ==
    {r \in Run : WorkflowOf[r] = w /\ state[r] \in {"queued", "executing", "suspended"}}

ForceStop(w) ==
    LET T   == ForceStopTargets(w)
        now == {r \in T : state[r] # "executing"}
    IN
    /\ active' = active \ {w}
    /\ mode' = [mode EXCEPT ![w] = "trigger"]
    /\ CancelNow(now)
    /\ cancel' = [r \in Run |-> IF r \in now THEN "confirmed"
                                ELSE IF r \in T /\ cancel[r] = "none" THEN "requested"
                                ELSE cancel[r]]
    /\ cleanup' = [r \in Run |-> IF r \in now THEN "not-required"
                                 ELSE IF r \in T THEN "pending" ELSE cleanup[r]]
    /\ UNCHANGED <<pinnedVars, schedulerVars, generation, result, hold, limitVars>>

FaultyConfirmRunnerStopped(p, T, outcome) ==
    LET hit == Executing(p) \cap T IN
    /\ ReleaseSlot(Executing(p)) /\ ReleaseClaim(Executing(p))
    /\ state' = [r \in Run |-> IF r \in hit THEN "cancelled"
                               ELSE IF r \in Executing(p) THEN "queued" ELSE state[r]]
    /\ queue' = Assign(queue, {r \in Executing(p) \ T : queue[r] = "none"}, "continuation")
    /\ cleanup' = Assign(cleanup, hit, outcome)
    /\ UNCHANGED <<pinnedVars, reserved, schedulerVars, generation, result, hold, cancel,
                   activityVars, limitVars>>

(* One runner process serves a Project, so stopping it for the targets     *)
(* interrupts their siblings, which return to the queue.                   *)
ConfirmRunnerStopped(p, T, outcome) ==
    LET hit == Executing(p) \cap T IN
    /\ ReleaseSlot(Executing(p)) /\ ReleaseClaim(Executing(p))
    /\ state' = [r \in Run |-> IF r \in hit THEN "cancelled"
                               ELSE IF r \in Executing(p) THEN "queued" ELSE state[r]]
    /\ queue' = Assign(queue, {r \in Executing(p) \ T : queue[r] = "none"}, "continuation")
    /\ cancel' = Assign(cancel, {r \in hit : cancel[r] # "none"}, "confirmed")
    /\ cleanup' = Assign(cleanup, hit, outcome)
    /\ UNCHANGED <<pinnedVars, reserved, schedulerVars, generation, result, hold,
                   activityVars, limitVars>>

RecordCleanupFault(T) ==
    /\ cleanup' = Assign(cleanup, {r \in T : cancel[r] = "requested"}, "fault")
    /\ UNCHANGED <<state, pinnedVars, queue, reserved, schedulerVars, claimVars, result,
                   hold, cancel, activityVars, limitVars>>

(* daemonConfiguration().limits and projectConfiguration().limits are read *)
(* at every use: a change of a limit is effective at once.                 *)
ChangeDaemonLimit(n) ==
    /\ daemonLimit' = n
    /\ UNCHANGED <<state, pinnedVars, queue, reserved, schedulerVars, claimVars, result,
                   hold, cancelVars, activityVars, projectLimit>>

ChangeProjectLimit(p, n) ==
    /\ projectLimit' = [projectLimit EXCEPT ![p] = n]
    /\ UNCHANGED <<state, pinnedVars, queue, reserved, schedulerVars, claimVars, result,
                   hold, cancelVars, activityVars, daemonLimit>>

-----------------------------------------------------------------------------
(* Generations a caller may present: every one ever handed out.            *)
Generations == 1 .. MaxGeneration

(* The callers stop a runner only for Runs whose cancellation is on record. *)
CancelTargets(p) == {r \in InProject(p) : cancel[r] # "none"}

AdmissionStep ==
    \E r \in Run, g \in Graph : AdmitAndActivate(r, g) \/ DeliverTrigger(r, g)

ActivityStep ==
    \/ \E w \in Workflow : StartActivity(w) \/ StopActivity(w) \/ SettleManualActivity(w)
    \/ \E p \in Project : DeactivateProject(p)

DispatchStep ==
    \/ \E blocked \in SUBSET Project : ReserveNext(blocked)
    \/ \E r \in Run : ClaimReserved(r) \/ ReleaseReservation(r) \/ HoldReserved(r)

RunnerStep ==
    \E r \in Run, g \in Generations :
        \/ \E f \in Phase : CompletePhase(r, g, f)
        \/ \E outcome \in Outcomes : CompleteRun(r, g, outcome)
        \/ Hold(r, g)
        \/ RecoverRunnerFailure(r, g)

RecoveryStep ==
    \/ \E deferred \in SUBSET Project : RecoverInterrupted(deferred)
    \/ \E p \in Project : RecoverAfterRestart(p) \/ HoldAfterRestart(p) \/ RepairHolds(p)

CancelStep ==
    \/ \E r \in Run : RequestCancellation(r)
    \/ \E w \in Workflow : ForceStop(w)
    \/ \E p \in Project : \E T \in SUBSET CancelTargets(p) :
          \/ \E outcome \in {"confirmed", "fault"} : ConfirmRunnerStopped(p, T, outcome)
          \/ RecordCleanupFault(T)

ConfigurationStep ==
    \/ \E n \in DaemonLimits : ChangeDaemonLimit(n)
    \/ \E p \in Project, n \in ProjectLimits : ChangeProjectLimit(p, n)

Next ==
    \/ AdmissionStep
    \/ ActivityStep
    \/ DispatchStep
    \/ RunnerStep
    \/ RecoveryStep
    \/ CancelStep
    \/ ConfigurationStep

Spec == Init /\ [][Next]_vars

-----------------------------------------------------------------------------
(* Operations of the repository that no service calls: the Daemon claims   *)
(* through a reservation, suspends and continues a Run through its Gates   *)
(* and its external actions.  They share the repository's tables and are   *)
(* checked with them in DirectSpec.                                        *)

(* admit without activation.                                               *)
Admit(r, g) ==
    /\ QueueHasRoom(ProjectOf[r], NewStartQueue, ProjectNewStartQueue)
    /\ Insert(r, g)
    /\ UNCHANGED <<reserved, schedulerVars, claimVars, result, hold, cancelVars,
                   activityVars, limitVars>>

(* claim does not look at the queue, claimNext does not count the          *)
(* reservations.                                                           *)
Claim(r) ==
    /\ state[r] = "queued"
    /\ r \notin reserved
    /\ SlotFree(r)
    /\ TakeSlot(r)
    /\ UNCHANGED <<reserved, schedulerVars>>

ClaimNext ==
    LET candidates == {p \in Project : /\ \E r \in InProject(p) : queue[r] # "none"
                                       /\ Cardinality(Slots \cap InProject(p)) < projectLimit[p]}
    IN  /\ Cardinality(Slots) < daemonLimit
        /\ \E p \in InTurn(candidates) :
              \E r \in Oldest(Preferred(p)) : TakeSlot(r) /\ Advance(p, queue[r])
        /\ UNCHANGED reserved

Suspend(r, g) ==
    /\ Authorised(r, g)
    /\ state' = [state EXCEPT ![r] = "suspended"]
    /\ ReleaseSlot({r}) /\ ReleaseClaim({r})
    /\ UNCHANGED <<pinnedVars, queue, reserved, schedulerVars, generation, result, hold,
                   cancelVars, activityVars, limitVars>>

ContinueRun(r) ==
    /\ state[r] = "suspended"
    /\ queue[r] = "none"
    /\ state' = [state EXCEPT ![r] = "queued"]
    /\ queue' = [queue EXCEPT ![r] = "continuation"]
    /\ UNCHANGED <<pinnedVars, reserved, schedulerVars, claimVars, result, hold,
                   cancelVars, activityVars, limitVars>>

FailQueuedRun(r) ==
    /\ state[r] # "absent"
    /\ state' = [state EXCEPT ![r] = IF @ = "queued" THEN "failed" ELSE @]
    /\ queue' = [queue EXCEPT ![r] = "none"]
    /\ UNCHANGED <<pinnedVars, reserved, schedulerVars, claimVars, result, hold,
                   cancelVars, activityVars, limitVars>>

DirectStep ==
    \/ \E r \in Run : \/ \E g \in Graph : Admit(r, g)
                      \/ \E g \in Generations : Suspend(r, g)
                      \/ Claim(r) \/ ContinueRun(r) \/ FailQueuedRun(r)
    \/ ClaimNext

DirectSpec == Init /\ [][Next \/ DirectStep]_vars

-----------------------------------------------------------------------------
(* Properties.                                                             *)

TypeOK ==
    /\ state \in [Run -> RunStates]
    /\ graph \in [Run -> Graph \cup {NoGraph}]
    /\ sequence \in [Run -> Nat]
    /\ queue \in [Run -> {"none", "new", "continuation"}]
    /\ reserved \in SUBSET Run
    /\ lastProject \in Project \cup {0}
    /\ streak \in [Project -> 0 .. ContinuationBurst]
    /\ generation \in [Run -> 0 .. MaxGeneration]
    /\ claim \in [Run -> 0 .. MaxGeneration]
    /\ slot \in [Run -> 0 .. MaxGeneration]
    /\ result \in [Run -> [Phase -> 0 .. MaxGeneration]]
    /\ hold \in [Run -> {"none", "content", "recovery"}]
    /\ cancel \in [Run -> {"none", "requested", "confirmed"}]
    /\ cleanup \in [Run -> {"none", "not-required", "pending", "confirmed", "fault"}]
    /\ active \in SUBSET Workflow
    /\ mode \in [Workflow -> {"trigger", "no-trigger"}]
    /\ daemonLimit \in DaemonLimits
    /\ projectLimit \in [Project -> ProjectLimits]

(* A slot row names the newest claim handed out for its Run, and the claim *)
(* row agrees with it: however claims, interruptions and recoveries        *)
(* interleave, no older runner is still authorised beside a newer one.     *)
SlotNamesTheNewestClaim ==
    \A r \in Run : slot[r] # 0 => claim[r] = slot[r] /\ slot[r] = generation[r]

(* The slots, which count against the limits, are exactly the executing    *)
(* Runs, and such a Run is not also waiting to be dispatched a second time.*)
ExecutingRunsHoldTheSlots ==
    \A r \in Run : /\ state[r] = "executing" <=> slot[r] # 0
                   /\ slot[r] # 0 => queue[r] = "none" /\ r \notin reserved

(* Two Runs of one Project never execute with different package graphs:    *)
(* one Runner process serves a Project, and it loads one graph.            *)
OneGraphPerProject ==
    \A r, s \in Slots : ProjectOf[r] = ProjectOf[s] => graph[r] = graph[s]

(* Cancellation wins: a Run that completed never had a cancellation on     *)
(* record, neither before it completed nor after.                          *)
CompletedWasNotCancelled ==
    \A r \in Run : state[r] \in Completed => cancel[r] = "none"

(* A cancelled Run has its cancellation confirmed; one whose cancellation  *)
(* still waits for its runner to stop says so in its cleanup state and has *)
(* not ended otherwise, through suspension, requeueing and recovery.       *)
CancellationIsTracked ==
    \A r \in Run :
        /\ state[r] = "cancelled" => cancel[r] = "confirmed"
        /\ cancel[r] = "requested" => /\ cleanup[r] \in {"pending", "fault"}
                                     /\ state[r] \notin Terminal

(* A Run parked by an exhausted Project recovery is one that the Project's *)
(* repair will find, and repair finds no Run that is still at work.        *)
HeldRunsAreRepairable ==
    \A r \in Run : /\ state[r] = "held" => hold[r] = "recovery"
                   /\ hold[r] = "recovery" => state[r] \in {"held", "cancelled"}

(* Fencing: an authority that was handed out and has lost its slot never   *)
(* becomes valid again, so a delayed call of a lost runner is refused for  *)
(* ever, also when the same Run executes again.                            *)
FencedForever ==
    [][\A r \in Run : \A g \in 1 .. generation[r] : ~Authorised(r, g) => ~Authorised(r, g)']_vars

(* A completed Run stays as it completed, whatever recovery, repair,       *)
(* cancellation or forced stop comes later.                                *)
CompletedIsFinal ==
    [][\A r \in Run : state[r] \in Completed => state'[r] = state[r]]_vars

(* A Phase result is written once, while its Run executes, and by the      *)
(* newest claim of that Run: a replayed execution never mixes in a result  *)
(* of an execution that was fenced off.                                    *)
ResultsComeFromTheNewestClaim ==
    [][\A r \in Run, f \in Phase :
          result'[r][f] # result[r][f] => /\ result[r][f] = 0
                                          /\ result'[r][f] = generation[r]
                                          /\ state[r] = "executing"]_vars

(* A Run starts to execute only within the limits in force at that moment, *)
(* also when they were lowered after its reservation.                      *)
DispatchWithinLimits ==
    [][\A r \in Run : slot[r] = 0 /\ slot'[r] # 0 =>
          /\ Cardinality(Slots)' <= daemonLimit
          /\ Cardinality(Slots \cap InProject(ProjectOf[r]))' <= projectLimit[ProjectOf[r]]]_vars
=============================================================================
