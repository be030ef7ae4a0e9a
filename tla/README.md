# Kojo Daemon: TLA+ models

Kojo runs durable *Workflows* for a software *Project*.  A long-lived **Daemon**
keeps the durable state in SQLite, admits **Runs**, dispatches them to a
**Project runner** (a child process), and brings them through crashes of the
runner, restarts of the Daemon, cancellations, forced stops, human decisions
(**Gates**) and external actions whose outcome is unknown.  A **launcher**
supervises the Daemon, and commands on the Host stop, restart, upgrade and
remove it.

What has to be right is the *protocol* between those parts: which Run may
execute, under which authority, what happens to it when one of the parts
disappears between two transactions.  That protocol is what these modules
model.  All paths below are relative to `packages/kojo/src/contexts/` unless they
start with `packages/` or `docs/`.

## 1. Inventory

| Component | Source | State it keeps | Operations | Modelled |
|---|---|---|---|---|
| Run store | `workflow/adapters/SqliteRunRepository.ts` | Runs, queue, reservations, claims and their generations, slots, Phase results, recovery holds, cancellations, cleanup, scheduler position | admission, reservation, claim, completion, cancellation, forced stop, recovery, hold, repair | `RunStore` |
| Gate store | `gate/adapters/SqliteDaemonGateRepository.ts` | Askings, Verdicts, wake-ups, Deadlines | suspend at an Asking, record a Verdict, expire, apply, reconcile | `GateStore` |
| External action store | `workflow/adapters/SqliteExternalActionRepository.ts` | action intents, results, uncertainty, retry authority | begin, confirm, hold, settle, authorise | `ActionStore`, `WorkflowRuntime` |
| Workflow activity | `project/adapters/SqliteProjectRepository.ts` | activity, availability and Trigger mode of each Workflow | Start, Stop, forced Stop, settlement, Factory Refresh, location changes | `RunStore`, `ProjectRegistry` |
| Trigger admission | `trigger/adapters/SqliteTriggerRepository.ts` | deliveries, rejections | admit, reject | `RunStore`, `TriggerSupervisor` |
| Run coordinator | `workflow/services/RunCoordinator.ts` | active dispatches, Projects being stopped, dispatch holds, the pump | pump, dispatch, cancel, stop, force, drain, restore | `Coordinator` |
| Runner and channel | `workflow/services/ProjectRunnerTransport.ts`, `project/services/ProjectRunnerSupervisor.ts` | runner process, its socket, its executions | start, execute, cancel, stop, loss | `Coordinator`, `ProjectRecovery`, `WorkflowRuntime` |
| Workflow runtime | `packages/kojo-runtime/src` | an execution: where it stands, the results and answers it was given, its Askings | replay, perform, commit, suspend, end | `WorkflowRuntime` (not lanes, compensation, corrections, cancellation) |
| Project recovery | `project/services/ProjectRecoveryCoordinator.ts`, `project/adapters/SqliteProjectRecoveryRepository.ts` | recovery cycle, attempts, termination proofs, safety | loss, judgement, delayed restart, hold, repair | `ProjectRecovery`, `Coordinator` |
| Resource leases | `project/adapters/SqliteResourceLeaseRepository.ts`; `DaemonResourceLeaseClient`, `ProviderResourceRegistry`, `sandboxed` of `packages/kojo-runtime` | lease rows; the providers' registry, containers, worktrees | intent, acquired, release, reconcile | `ResourceLease`, `ProjectRecovery` |
| Trigger supervisor | `trigger/services/TriggerSupervisor.ts` | groups, registrations, pollers | start, stop, restore, recover, deliver, acknowledge | `TriggerSupervisor` |
| Project registry | `project/**` | Project rows, location history, requests | register, relocate, archive, restore, snapshot, refresh | `ProjectRegistry` |
| Revisions | `workflow/adapters/SqliteRevisionRepository.ts`, `project/services` | Revision rows, readers, grace, published files | capture, use, collect, repair | `RevisionStore` |
| Launcher and supervision | `daemon/adapters/ManagedDaemonSupervision.ts`, `packages/kojo/src/launcher/main.ts` | supervision file, restart streak | start, watch, restart, give up, repair | `DaemonSupervision` |
| Daemon lifecycle | `daemon/services/LifecycleController.ts`, `DaemonLifecycleApi.ts`, `daemon/adapters/FileLifecycleJournalRepository.ts` | lifecycle journal, lifecycle receipt, start gate | stop, restart, remove, enable, disable, drain, resume | `DaemonLifecycle` |
| Upgrade | `daemon/services/*Upgrade*.ts` | upgrade journal, receipt, selected release, data format | drain, check, migrate, activate, roll back | `UpgradeActivation` |
| Client mutations | `daemon/adapters/HostClientRequestRepository.ts`, `SqliteOperationRepository.ts`, `DaemonHttpApplication.ts` | the Host's request journal, operation receipts | prepare, send, retry, apply, report | `ClientRequests` |
| Retention, configuration | `daemon/adapters/SqliteRetentionRepository.ts`, `SqliteConfigurationRepository.ts` | limits, restart policy | change | the limits in `RunStore`, the policy in `DaemonSupervision`, retention in `RevisionStore` |
| Purge | `daemon/adapters/DaemonDataPurger.ts`, `PurgeSafetyRecovery.ts`, `SqlitePurgeSafetyRepository.ts` | sealed evidence, purge receipts, quarantine, start gate | seal, check, confirm, resume, repair | `Purge` |
| Agents, sandboxes, trace, artifacts, codecs, command line, console | | no state another component's transition reads | | no |

**How they interact.**  The repositories share one SQLite database, and every
repository method is one transaction: the interleaving of the services is the
interleaving of these transactions.  The Gate store and the external action
store do not call the Run store; they write `workflow_runs`, `workflow_queue`,
`workflow_slots` and `workflow_claims` themselves.  Three writers that never
call one another therefore have to keep one invariant about the same rows.
The Run coordinator drives them: its pump reserves a Run, materialises its
package graph, claims it and hands it to the runner; the runner calls back over
a socket with the authority (runner instance and claim generation) it was given.
Recovery, cancellation, forced stop and the Daemon's own lifecycle each
take that authority away from outside.  The Host's commands and the Daemon meet
in files (journals, the supervision state) and in the Daemon's receipts: neither
side sees the other's step and its own in one transaction.

**What is hard about it.**

* A runner whose Run was taken away keeps running for a while and calls
  back later.  Its authority must never be valid again (`ImplementsLease`), and
  what it still does outside Kojo must not be done again (`ActionsAreNotRepeated`).
* One runner process serves a Project, so stopping it for one Run interrupts
  the others, which return to the queue.
* A reservation is made in one transaction and claimed in another, after files
  were materialised; limits and the Project's graph may have changed meanwhile.
* Two facts can race for the same Run: completion and cancellation, a Verdict
  and its Deadline, a retry authorisation and the settlement of the lost runner.
* Recovery after a crash decides from rows alone what the lost process was doing.
* A Trigger's source delivers again what it was not told is admitted; a client
  sends again what it was not answered; a lifecycle command is resumed by another.
* Collection, location changes and removal delete or move what somebody may be
  about to use.

**What makes each component correct** is stated as the properties of section 4;
`hazards` in `PROJECT.json` lists where each can go wrong and which property
would show it.  A hazard without a property has a note: there the code does what
the hazard says, and section 4 describes it under *Observations*.

## 2. Modules

| Module | Extends | Stands for |
|---|---|---|
| `RunStore` | | `SqliteRunRepository` with the Workflow activity it shares a transaction with, and Trigger admission |
| `GateStore` | `RunStore` | `SqliteDaemonGateRepository` |
| `ActionStore` | `RunStore` | `SqliteExternalActionRepository` |
| `RunLease` | | abstract: what the stores promise about who may execute a Run |
| `Coordinator` | `GateStore` | the Run coordinator, the runner processes and what recovery says to them |
| `WorkflowRuntime` | `GateStore`, `ActionStore` | the engine in the runner, the dispatch that drives it, and the three stores |
| `ResourceLease` | | a runner's leases: its scopes, the frames, the Daemon's rows, the providers |
| `ProjectRecovery` | `ResourceLease` | losses and recoveries of a Project's runners, with their leases |
| `TriggerSupervisor` | | the Triggers of one Project from Start to acknowledgement |
| `ProjectRegistry` | | Projects, their locations, Workflow rows and Starts |
| `RevisionStore` | | retained Revisions, their files and their collection |
| `DaemonSupervision` | | the launcher, its file and the native service |
| `DaemonLifecycle` | `DaemonSupervision` | lifecycle operations over the supervised Daemon |
| `UpgradeActivation` | | an upgrade with migration and rollback |
| `ClientRequests` | | mutations from the Host's journal to the Daemon's receipt |
| `Purge` | | the end of a Daemon's data: evidence, plan, receipt, quarantine, repair |
| `StoreProofs` | `GateStore`, `TLAPS` | theorems of the Run store and the Gate store |
| `CoordinatorProofs` | `Coordinator`, `StoreProofs` | theorems of the coordinator, which stand on those of the stores |
| `WorkflowRuntimeProofs` | `WorkflowRuntime`, `TLAPS` | theorems of the execution |
| `RunnerProofs` | `TriggerSupervisor`, `ProjectRecovery`, `TLAPS` | theorems of both |
| `ProjectProofs` | `ProjectRegistry`, `RevisionStore`, `TLAPS` | theorems of both |
| `DaemonLifecycleProofs`, `UpgradeActivationProofs` | the module, `TLAPS` | theorems (the first has those of `DaemonSupervision` too) |
| `HostProofs` | `ClientRequests`, `Purge`, `TLAPS` | theorems of both |
| `MC...` | the module | constants of the checked instance (`ProjectRecovery` needs none); `MCHost` has `ClientRequests` and `Purge` |

**Steps.**  In the stores one action is one transaction, including every row it
writes.  In the services it is the code between two awaits whose result somebody
else can change, so that every other actor may come in between; a crash is possible
between any two.  The guard is what the code checks before it writes; a call the
code refuses is a call that changes nothing, so it is no step.  Values returned to
the caller are not modelled where no transition depends on them.

**State.**  A row that may be absent is a function with an "absent" value:
`slot[r] = 0`, `queue[r] = "none"`, `hold[r] = "none"`.  The correspondence is
written at each VARIABLE.  Three abstractions of data deserve a reason:

* *Identity.*  A Run ID is a hash of Project, Workflow and idempotency key, so
  Project and Workflow of a Run are constants.  A runner instance ID is a fresh
  UUID per claim, hence (Run, generation) names a claim.  A reservation ID is
  fresh, and a stale one matches no row.
* *Receipts.*  In the stores a request ID already seen only returns its receipt; no
  transition is lost by leaving receipts out, since a caller can take a fresh ID.
  `ClientRequests`, `ProjectRegistry`, `DaemonLifecycle` and `UpgradeActivation`, where
  receipts decide what happens, have them.
* *Time.*  Only whether a moment has passed is kept: the Deadline of an Asking
  (`due`), the delay of a recovery, the grace of a Revision.  It may pass at any
  moment after it was set.

`Faulty...` operators are no part of any specification.  Each is the operator
beside it with one plausible mistake, and shows that a property would notice it.

### The stores

**Two specifications of the Run store.**  `Spec` has the operations the
services call.  `DirectSpec` adds the operations of the repository's port that
no service calls today (`admit`, `claim`, `claimNext`, `suspend`, `continueRun`,
`failQueuedRun`): they write the same tables and are part of what the
repository promises.

**Callers.**  Any service may call any operation at any time, with any
generation that was ever handed out.  This is more than the coordinator does;
a safety property of the store that holds here holds under every coordinator.
Two inputs are restricted to what callers can present:
the targets of `ConfirmRunnerStopped` and `RecordCleanupFault` are Runs that
have a cancellation on record (`CancelTargets`), because both callers read the
targets from that table.

### The coordinator

The stores let any caller come at any time; `Coordinator` is what the callers
really do.  It extends the Gate store, so each of its transactions *is* an action
of `RunStore` or `GateStore`, conjoined with what the service does around it.

| Variable | Code |
|---|---|
| `up` | a Daemon process exists; everything below but `recovery` and `held` is its memory |
| `pump` | `#activePump` of `RunCoordinator` |
| `held` | `#daemonDispatchHeld`, restored from the lifecycle journal |
| `stopping` | `#stopping`, by shutdown or by the forced drain |
| `ahead[r]` | the dispatches before Run r in the `turn` of its Project in `ProjectRunnerSupervisor`: dispatches of a Project prepare one after another |
| `forgot` | Projects whose turn was written back, by an attach or by a `prepare` that drops a dead runner, so that a dispatch need not wait for those that prepare |
| `stage` | how far each call of `#dispatch` is |
| `live`, `stops`, `handle` | runner processes; those asked to stop; the runner that the supervisor knows of a Project, which may have ended |
| `awaits[d]` | the processes whose end the dispatch waits for, in `prepare`, `run`, `attach` or a recovery |
| `replaced` | history: living processes that a later attach overwrote as the runner of their Project |
| `control` | `#activeExecutions`: what `cancelRun` can stop |
| `canceller`, `targets`, `controls` | how far `#stopCancelledProject` for a Run or a forced Stop is, the Runs it confirms, and the processes whose end it waits for |
| `recovery` | state and safety of the recovery row, as `blockedProjectIds` and `restore` read them |
| `resuming`, `timers` | what `restore` has still to take up; recoveries it resumes after their delay |
| `closed`, `drain` | Projects with an accepted location change, or archived; how far `drainProject` is |

*A dispatch, step by step.*  `PumpReserves`; `TakeTurn`, which stops a runner of
another graph; when that has ended, `ClaimDispatch` or `PrepareFails`; `StopCurrent`
(`run` stops any runner of the Project), `Spawn`, `Attach` or `StartFails`; `Finish`
or `Break`; then `ApplyWakeup`, `CommitSuspension`,
`CommitCompletion` or `CommitRefused`; on a failure `FailRun` and `Reconcile`; on
a loss `RecordLoss`, `JudgeLoss`, `DelayOver`; last `Settle` and `EndDispatch`.

*Attaching is two steps.*  `Attach` registers the execution (`ProjectRunnerTransport.ts:920`)
and stops the runner that the Project has got meanwhile; until that one has ended
(`awaits`) every event can come in, a cancellation of this very Run included.
`Attached` then makes the process the runner of the Project without a look at what
happened (`ProjectRunnerSupervisor.ts:77`), and reads the cancellation (line 930).  A
stop, likewise, is asked for in one step and has happened in `StopDone`, which ends
every wait for it; what its caller does next belongs to the chain that then goes on.

*A cancellation.*  `CancelRun` and `ForceStopWorkflow` record it and look for executions
of all their targets at once (`StopControls`, `FindControls`, `GiveUp`); when those they
found have ended, `ConfirmStopped` confirms every target.

*A location change.*  `BeginLocationChange` closes the Project, `StopDrained` waits until
no dispatch of it is left and stops its runner, `DrainSettles` looks at recovery and
leases, `CommitLocation` changes the row.  A drain that fails or a crash leaves the Project
closed until the request is sent again.

*What a step is.*  The Daemon is one JavaScript event loop, and the SQLite store
answers synchronously: a chain of awaits on it runs to its end in microtasks
before the loop takes the next event (a request, a frame, an exit, a timer).
`Event` says so: an event waits until no dispatch is within such a chain.
Nothing stops a *crash* of the Daemon between two transactions of a chain, so
each transaction is a step of its own.  `PumpRests` closes the pump in the step
that finds nothing to reserve.  In the code a few microtasks lie between the two,
and a call of `#pump` in between would be lost; but an event cannot come there,
and a chain that is under way needs more hops from a transaction that frees a
slot or queues a Run to its own call of `#pump`.

*Left out* (the head of the module has the list): Trigger runners, changes of limits,
resource leases and external actions (whether cleanup after a runner is safe is a
choice), two losses of one Project that overlap, a shutdown during a forced drain,
process groups that survive a kill, two callers that stop one Run at a time.  Two things are
approximated: a dispatch that comes after a turn was written back may wait for any of
those that prepare (the code waits for the ones before the turn it finds), and a forced
drain ends when no runner that the supervisor then knows is being stopped (the code waits
for those it has stopped).  Whether a recovery still has attempts is a choice
as well.  `ProjectRecovery`, `TriggerSupervisor` and `WorkflowRuntime` have several of these.

### The execution of a Workflow

`WorkflowRuntime` composes the engine with the three stores.  `Program` is the
Workflow, a sequence of steps: a *phase* (an ordinary activity), an *action* (an
activity with a recovery policy, which asks the Daemon for permission), a
*request* (the activity that asks a Gate) and an *await* (its Verdict or expiry).

| Variable | Code |
|---|---|
| `runner[r][g]` | the execution of claim g of Run r in its process: `mode`, the step it stands `at`, the results `known` and `answers` it was started with, the Askings it `asked` (`askings` of `runner/main.ts`) |
| `dispatch[r]` | the dispatch of `RunCoordinator`: its stage, the claim it is of, the outcome it was returned, the wake-ups it applies |
| `recovery`, `restoring`, `resuming` | what the recovery row says about dispatching; what a restart has still to look at or to take up |
| `performed`, `authorised` | history: effects outside Kojo, retries somebody allowed |

`Replay`, `Begin`, `Perform`, `Commit` and `Return` are what `DaemonWorkflowEngine` does
with an activity; a frame and the transaction it asks for are one step, and a lost
reply is a runner that stops right after it.  A runner keeps going when its claim
or its Daemon is gone, until it finds its connection closed (`RunnerEnds`).  The
pump's reading of the recovery rows and its reservation are one step, by the argument
of the event loop above.

### Leases and recovery

`ResourceLease` has a runner's `script`: the mutations of its leases in the order
`sandboxed`, `acquireSandbox` and their releases make them.  Each is sent as a frame, up
to `MaxTries` times, while the Daemon reads the `frames` of a channel in order and
stops at the first it refuses.  `registry`, `box` and `tree` are the provider's
inspection files, the containers, and what Git says of the worktree; a provider may
fail at any step.  `ProjectRecovery` adds the recovery `row`, the termination
`proof`s, the one place for a runner (`handle`), and per runner how far its loss,
forced cancellation or recovery is (`stage`).  Runners of Runs and of Triggers take
that place from one another.

### Triggers

In `TriggerSupervisor` a `call` is one Start, restoreProject, recovery, Stop or stopProject
in progress, and steps at each await.  A *group* is a runner process for Triggers;
`current`, `place`, `key` and `reg` are the Daemon's maps that say which one polls for
whom, `fiber` is the runner's poller of a Workflow.  An event goes from its source
(`Offer`) to its Run (`Admit`) or a rejection, and back (`Acknowledge`); a source
offers it again until it was told.

### Projects and Revisions

`ProjectRegistry` has the rows of Projects and of their Workflow, the open records of
the location history, and the handlers of client requests: a location change is
accepted in one transaction, holds dispatch, drains, and commits in another.  The
snapshot, a Factory Refresh and a Start each read first and write later.
`RevisionStore` has the rows, readers and grace periods of retained Revisions and
the files: a capture publishes, a collection removes files *inside* its transaction,
and what it removed stays removed when the transaction is rolled back (`damaged`).

### The Daemon's life

`DaemonSupervision` is the launcher's file with its three writers, the service
manager (`native`), the Daemon process (`child`) and the policy.  `DaemonLifecycle`
puts lifecycle operations on top: a command (`ctl`) reads and writes its `journal`,
calls the Daemon, which keeps a `receipt` and a hold of its own, and drives the service
manager; a call's effect and the journal entry that records its answer are two steps.
Commands end, are resumed, and run twice.  `UpgradeActivation` has the same two owners
with a source and a candidate release, the data's format, the migration and the
rollback; supervision is reduced to a Daemon that may die and start at any time.

### Client requests

In `ClientRequests` a request is first kept in the Host's `journal`, then sent; a
handler (`call`) of the Daemon compares it, answers from a committed `receipt`
(`daemon_operations`), or runs the use case, whose transaction records effect and receipt
together; the answer is copied to the journal afterwards.  A Start, a Verdict or a
configuration is done in one transaction; a cancellation and a forced Stop are
accepted in one and confirmed in another.  `effects` and `told` are histories.

### The end of the data

In `Purge` a *lifetime* is one data identity.  The data root has the rows (`leased` is
all that matters of them), the lifecycle journal (`operations`) and the sealed `evidence`;
the receipts (`stub`, `recorded`) and the quarantines lie outside.  The evidence notes
whether rows and files are still as they were sealed.  `purge --confirm` is a `step` at a
time, one per file operation: gate, look, journal, receipt, check of the scope, rename,
receipt, node by node of the deletion, receipt.  It may die at each (`PurgeEnds`), also
inside the write of a receipt (`torn`), and any plan ever printed may be confirmed at any
time.  The launcher, the Daemon, enabling, disabling and a removal go on around it, and so
does `repair --purge-safety` with its plan, its child and the gate between them.

## 3. Bounds and why they are enough

| Run | Instance | Distinct states |
|---|---|---|
| `run_store` | 2 Runs, 2 graphs, Daemon limit 1 or 2, Project limit 2, one claim each | 0.6 million |
| `gate_store` | 1 Run, 2 Askings, 1 Phase, 3 claims | 90 thousand |
| `workflow` | 1 Run; unsafe action, Gate, ordinary Phase, safe action; 4 claims | 0.3 million |
| `coordinator` | 2 Runs; 1 slot with 2 graphs, 2 claims each, 2 disturbances; 2 slots with 1 graph, 1 claim each, 1 disturbance | 1.1 million |
| `coordinator_gate` | 1 Run, 1 Asking, 2 claims, 3 disturbances, with liveness | 0.2 million |
| `recovery` | one runner that executes and one that polls, 2 tries, 1 delay, 2 cycles, 1 crash, with liveness | 1.4 million |
| `trigger` | 1 Workflow, 2 events, 2 groups, 2 calls at once, a queue of 1 | 0.16 million |
| `project` | 2 Projects, 3 locations, 2 requests, 1 handler | 2.1 million |
| `revisions` | 2 Revisions of one Workflow that share an object, 2 Runs, 2 runners, 2 interruptions | 1.2 million |
| `lifecycle` | 2 operations of 6 kinds, 1 command at a time, 3 Daemon instances, policies of 1 and 2 delays | 2.9 million |
| `upgrade` | 2 upgrades among 3 releases, 1 command at a time, 6 Daemon instances | 1.2 million |
| `host` | 3 requests, one of each shape, 2 contents, 2 handlers at once; 2 lifetimes of the data, 2 seals, 3 operations | 1.6 million |

`MaxGeneration` (claims per Run, in the guard of `TakeSlot`), `MaxFaults`, `MaxInstance`,
`MaxCycle`, `MaxCrashes` and `MaxTries` bound behaviours; each is a guard of the action it
counts.  `TwoSlots` lowers them in `coordinator`, `FixedSpec` keeps `coordinator_gate` to
Projects that stay where they are, and there are no other bounds.

*Claims.*  With g claims a Run is interrupted and claimed again g - 1 times.  Two are
enough for a stale authority to meet a newer one; three let a stale one survive two
successors; with four, `workflow` loses the result of an action, holds it, has the
retry authorised, loses that one too, and still passes the Gate.

*Runs, Askings, actions.*  Two Runs are enough for every relation between the Runs of
a Project that the code looks at (siblings on one runner, slots counted against a
limit, a second graph).  The Askings of a Run meet in pairs only: the one it
waits for, and an older one that is answered or expired.  Actions meet in pairs as
well: a safe one and an unsafe one decide together whether a Run is requeued.

*Faults.*  `MaxFaults` of `Coordinator` counts failures and losses of a runner, failures
before a claim, cancellations, Stops, location changes, holds of dispatch, forced drains,
shutdowns and crashes of the Daemon: three with one Run let a cancellation and a loss meet a crash in every order,
two with two Runs let any disturbance of one meet any of the other.  In
`RevisionStore` it counts interrupted collections, interrupted repairs and crashes.

*Lifetimes.*  With two, a purge meets the data it was planned for and those made after it; with two seals, evidence
and a newer one; three operations are one that seals, a purge or recovery, and one more.

*Operations.*  Two lifecycle operations, or two upgrades, follow one another in every
combination, so that what the first leaves behind is what the second finds; three
releases are one that reads the old data, one that migrates them, and one that reads
both.  `MaxInstance` lets every operation have its replacement and a crash besides.
In `upgrade` nobody else starts the service while the controller has it stopped
(`StartsMeanwhile = FALSE`): the code does not notice when somebody does, see the
observations.  `lifecycle` has one command at a time, but any number of them one after
another; two that drive one operation at once are among the observations.

*Limits* exist in the code as numbers above 1.  `ContinuationBurst` is 1 instead of 8, and
the queue limits are 1, because only "reached or not" is read.  `coordinator` has one slot,
the default of a Project in the code, or two (`OneSlot` and `TwoSlots` of `MCCoordinator` bound
each).  With one slot an attach finds a runner to replace only after a recovery that a
restart resumed late has given the Run to another dispatch; then the end of the first runner
makes the second one's execution unfindable.  With two, the start of the second Run stops
the runner of the first (observations): the attach waits while the Run it attaches, or the
one it replaces, is cancelled, fails or is lost, and a cancellation in that wait leaves the
handle of a process that has ended.  They have one claim each: a process that is
stopped late meets the next claim of its Run in one slot.  Two attaches that wait at once, of
which the second overwrites a living runner (`replaced`), need three slots and three Runs.  No run reaches that;
the theorem `ProcessesHaveTheirOwner` covers it, with every other limit.

*Symmetry* permutes Runs, graphs, Projects' locations, Revisions, runners, events,
callers and requests, in runs that check invariants and action properties; no run with
a liveness property has it.  In `RunStore` Projects are numbers, since the round
robin compares Project IDs, and are not permuted.

*Deadlock* is checked in `host`.  Elsewhere the system may stop: Runs end
and claims, operations or cycles are used up.

## 4. What the runs check

### `run_store`: the queue, the slots and the limits
`DirectSpec`, two Runs, two graphs, a Daemon limit that changes between 1 and 2.

* `ExecutingRunsHoldTheSlots`: the slots are the executing Runs, and none of
  them is queued or reserved as well, through claims, recoveries and stops.
* `OneGraphPerProject`: two Runs of a Project never execute with different
  package graphs.  The reservation checks this, then files are written, and
  only the second check in `claimReserved` makes it true.

That a Run starts to execute only within the limits of that moment (`DispatchWithinLimits`)
is proved (section 5).

### `gate_store`: Askings, cancellation and recovery
`GateSpec`, one Run, two Askings, three claims.

* `SuspendedRunsWaitForOneAsking`: a suspended Run waits for exactly one
  unanswered Asking: no wake-up is lost, whichever of Verdict and Deadline is
  first, whatever recovery does in between.
* `UnansweredAskingsBlockTheirRun`: no Run goes past a Gate nobody answered,
  not even by a recovery hold and repair.
* `RecordedVerdictsReachTheRun`: a recorded Verdict stays pending until it is
  applied, or is known to be unable to be.
* `CancellationIsTracked`: a cancellation that was asked for is never lost track of.
* `ResultsComeFromTheNewestClaim`: a Phase result is written once, by the newest
  claim of an executing Run.
* `ImplementsLease`: the two repositories implement `RunLease` (slot is the
  holder, generation the epoch): an epoch is granted once, a revoked one is
  never valid again, a completed Run is never granted again.

### `workflow`: the execution of a Workflow over several claims
`RuntimeSpec`, one Run that performs an unsafe action, asks a Gate, and performs an
ordinary Phase and a safe action.

* `ActionsAreNotRepeated`: an effect outside Kojo that is not safe to repeat happens at
  most once, and once more per retry somebody authorised: with results lost after the
  effect, runners that go on after their claim or their Daemon is gone, and crashes
  between intent, effect and result.
* `StepsFollowDurableResults`: a step is performed only when the outcome of every
  earlier one is durable, so that a replay after any crash finds what it was based on.
* `SucceededRunsAreComplete`: a Run succeeds only with every outcome durable, every
  action performed and every Verdict acknowledged.

### `coordinator`, `coordinator_gate`: dispatch, loss, restart
`SlotsSpec`, which is `CoordinatorSpec` with two Runs of one Project in one slot or in two,
and `FixedSpec`, which is `CoordinatorSpec` without location changes, with one Run that
suspends.

* `TakenPlacesAreAttended`: a reservation, and an executing Run that nobody cancels, has
  a dispatch or a recovery at work on it, after any losses, failures and crashes.
* `WaitingRunsAreNoticed`: no wake-up of the pump is lost.
* `ProcessesAreOwned`: no runner process leaks, what a cancellation would stop is a living
  process, the runner that the supervisor knows of a Project lives unless its Run was
  cancelled, and nothing of a Project runs or is about to when its location changes.
  Excepted is a process that a later attach has overwritten (see the observations): its own
  dispatch, its idle time or a cancellation still stops it, the supervisor does not.
* `RunsAreNotInterrupted`: an execution with its claim is stopped only by a
  cancellation or by a Daemon that stops or drains, not by the stop meant for another
  runner.  Excepted are the consequences of a recovery that a restart resumes late (see
  the observations): a dispatch whose claim it took goes on to start, or loses, a runner;
  and the time after a turn was written back, when two dispatches may prepare at once.
* `StopTakesEffect`: once an execution is being stopped, the Run leaves the executing state
  or a cleanup fault is on record.  `LostClaimsAreReleased`: the slot of a lost runner is
  given back.  Both end when the Daemon goes down; the second also when it stops.

### `recovery`: losses, leases and reconciliation
`RecoverySpec`, a runner that executes a Run and one that polls Triggers.

* `ResourcesAreTracked`: a container, and a worktree that holds nothing new, exist only
  with a lease that was begun and is not released.
* `SafeIsReconciled`: a recovery judged safe has nothing of the failed runner left: no
  process, no mutation still to be read, no lease that is not released.
* `LossesAreJudged`: while the Daemon lives, each loss is judged, also when a second one
  overtakes it.

### `trigger`: delivery and acknowledgement
* `AcknowledgedWasAdmitted`: a source is told an event is admitted only when its Run is
  durable, whatever runner tells it and however often it was delivered before.
* `DecisionsAreFinal`: a rejected event never becomes a Run, and an admitted one has one
  Run, which a second delivery neither queues again nor takes back.

### `project`: locations, history, activity
* `LocationsAreExclusive`: a location belongs to one Project: an accepted change finds the
  location it reserved free when it commits.
* `HistoryFollowsTheRow`: a Project has one open history record, of its location, unless
  it is archived.
* `QuietProjectsAreInactive`: no Workflow is active, and none polls, in a Project that is
  missing, drains or was released, though Starts and Stops overlap the change.

### `revisions`: use and collection
* `CollectedIsUnused`: what was collected is not used again, and nothing in use is collected.
* `UsedIsWhole`: the files of whatever is used are whole, but for what an interrupted
  collection or repair has damaged (`damaged`; see the observations).
* `GraceFollowsTheLastReader`: a Revision is not collected within its grace after a runner
  had it loaded, although its row may have been in grace before.

### `lifecycle`: the Daemon from outside
One command at a time; commands end, crash and are resumed anywhere.

* `JournalFollowsReceipt`: the journal never runs ahead of the Daemon's receipt, and a
  completed restart was taken over by a replacement and holds nothing.
* `DrainLasts`: once the drain of a restart is over, no Daemon executes a Run until the
  replacement is started, whatever crashes and starts meanwhile.
* `RemovalIsExclusive`: no Daemon lives while or after the managed content is deleted.
* `SupervisionStaysReadable`: what launcher, Daemon and repair leave behind, the next of
  them accepts.  `RestartsAreBounded`: unplanned ends in a row stay within the policy.

### `upgrade`: activation, migration, rollback
* `AcceptedStateIsKept`: after the final check no mutation is served and no Run executes
  before the activation or the rollback is authorized, through every crash.
* `DataAreReadable`: no Daemon works on data its release cannot read.
* `OutcomesReleaseTheDaemon`: an operation with an outcome leaves nothing held.

### `host`: one effect per request, and the end of the data
`HostSpec`: a behaviour is one of `ClientRequests` or one of `Purge`, which share no state.

* `AppliedOnce`: however often a request is sent, lost, retried or reused, its effect is
  applied once, and with the content the client had kept.
* `CommittedIsDone`: what was reported as committed is true for good.
* `PurgedWasSealed`: whatever a purge takes away is the lifetime its plan named, with the
  rows as sealed and no lease open, through every interruption, resumption, restart of the
  service and repair in between.
* `LifetimesDoNotOverlap`: no Daemon runs while a purge has begun, a completed one leaves
  nothing, and no two are under way.

### Observations
Met while modelling; the code does what is described, and the properties above are stated so
that they hold beside it.  Where a document or comment says otherwise, it is named.

*Runs and dispatch.*

* A Run that was held, then cancelled, is requeued by the Project's repair, which looks
  at the hold row only (`SqliteRunRepository.ts:1561`); `docs/context/workflow.md:153`: a
  cancelled Run is terminal.
* A parked Run whose uncertain action is retried is queued with its recovery hold row still there (`#queueHeldRun`,
  `SqliteExternalActionRepository.ts:194`), and `claimReserved` does not look at hold rows
  (`SqliteRunRepository.ts:1096`): if it completes before the Project is repaired, the repair queues the completed Run.
  `CompletedRunsStay` is a theorem of the Run and Gate stores, without external actions.
* `failQueuedRun`, which no service calls, ends a queued Run as failed although its cancellation was asked for.
* The Deadline of a cancelled Run's Asking queues it (`SqliteDaemonGateRepository.ts:668`);
  each reservation of that row then fails.
* After a crash between a cancellation and the stop, `recoverInterruptedExecutions` skips the
  Run (`SqliteRunRepository.ts:1380`): it keeps its slot until the cancellation is asked again.
* `cancelRun` may confirm the end of a Run's previous runner while the next one starts; that
  one reads "confirmed", not "requested", and executes (`ProjectRunnerTransport.ts:931`).
* A runner aborted by a forced drain reports a Fault and its Run is completed as failed
  (`RunCoordinator.ts:971`), while line 522 says forced Runs return to recovery.
* A recovery resumed after a restart waits although the row says "held"; a repair opens the
  Project meanwhile, and the resumption takes the slot of the Run that then executes
  (`ProjectRecoveryCoordinator.ts:331`, `:360`); `docs/context/project.md:38`.
* A retry authorised before the settlement of its lost runner leaves a slot that no call
  releases (`SqliteExternalActionRepository.ts:504`).
* `forceStopWorkflow` does not cancel held Runs (`SqliteRunRepository.ts:1840`;
  `docs/context/map.md:51` says nonterminal Runs), and sets `trigger_state` of a Workflow
  without a Trigger to `not-observed` (line 1860), which then needs the Trigger procedure.
* A forced Stop does not reconcile the Askings of the Runs it cancels; the next failing
  dispatch or cancellation does.  Of several executing targets it waits for those whose
  control it finds first (`RunCoordinator.ts:613`) and then confirms them all (line 653): one that
  still starts is cancelled on record and executes, as in the item on `cancelRun` above, and the
  control that was found may be that of an idle runner.
* A Run is registered before its `attach` awaits the stop of another runner
  (`ProjectRunnerTransport.ts:920`).  A cancellation in this await stops the process, and
  `ProjectRunnerSupervisor.ts:77` then makes the dead process the runner of the Project; the command
  to it is a lost connection, so that a loss is recorded for a Run that was cancelled.
* Line 871 deletes the execution of the Run whatever its claim is: when a runner ends after a newer
  execution of its Run was registered, as the one that `attach` replaces does, that execution can not be
  found by a cancellation any more.
* With three or more slots two attaches of a Project can wait at once; the second overwrites the runner
  of the first while that lives.  The supervisor does not stop it any more; when its Run has been
  claimed again and ended meanwhile, a drain for a location change does not wait for it either.
* `attach` and `prepare` write back the `turn` they have read (`ProjectRunnerSupervisor.ts:57`, `:77`):
  a dispatch that comes after it does not wait for those that took theirs in between, so that two prepare at once.
* A Project under recovery cannot change its location until a healthy interval has passed
  (`RunCoordinator.ts:573`), and an agent lease that ended "preserved" refuses it for good.
* Cancelling a queued Run calls no `#pump` (`RunCoordinator.cancelRun`, lines 365-410), although it may have been the
  head that kept the Runs behind it waiting (`SqliteRunRepository.ts:1039`): they wait for the next event.
* A forced drain takes the reservations of dispatches that are still preparing.
* Trigger admission compares with the default queue limits, not the configured ones
  (`SqliteTriggerRepository.ts:152`); a raised limit does not wake the pump.
* With both execution limits above one, the start of a Project's second Run stops the
  runner of the first (`ProjectRunnerTransport.ts:189`), and Runs of one package graph can
  starve another's.
* A Start that spans a relocation is admitted with the Revision of the old location
  (`RunCoordinator.ts:721`).

*Execution.*

* An Asking lives in the runner's memory until the suspension is committed, while the result
  of its request is durable at once; a loss in between makes the replay suspend without an
  Asking, which fails the Run (`runner/main.ts:256`, `RunCoordinator.ts:1188`).  Of two lanes that ask
  at once only the first Asking is committed.
* An answer "hold" to `begin` makes the engine die, so compensations run although the Run is
  only held (`DaemonWorkflowEngine.ts:158`); a runner lost between a compensation and the
  completion compensates twice.

*Recovery and Triggers.*

* A Project whose cleanup is uncertain cannot be repaired: the repair demands a safety that no
  operation restores (`SqliteProjectRecoveryRepository.ts:288`).  A lease "preserved" leads there.
* Leases of a dead runner that a crash of the Daemon left are not reconciled when no recovery was
  recorded, though a replacement starts.
* Of two Starts of different Workflows at once each creates a group, and the second stops the
  first's runner; a Stop during a Start may leave a poller of an inactive Workflow
  (`TriggerSupervisor.ts:285`).  A faulted Trigger is not restarted by the next Start.

*Revisions and Projects.*

* A collection removes files inside its transaction: a rollback gives back a Revision whose files
  are gone in part (`SqliteRevisionRepository.ts:475`; line 946 says otherwise).  The row of a grace
  period is not reset when a Run or a refresh takes the Revision up.
* The late duplicate of a location change can commit the next request's change under its own
  receipt; a Factory Refresh captured at the old location is applied as current after a move.

*Lifecycle, upgrade, requests, purge.*

* A second controller's late confirmation releases the hold of the operation that follows
  (`DaemonLifecycleApi.ts:295`; `docs/context/daemon.md:28`): `DrainLasts` has one command at a time.
* A stop drops its hold with its receipt before the native stop; a Daemon crash in between starts an
  instance that dispatches and is stopped then.  A crash in `#write` of the journal can leave an empty
  operation directory, which makes the whole journal unreadable.
* Two controllers of upgrades: the late `authorizeActivation` of one whose upgrade has ended still matches its own
  receipt and releases the holds of the upgrade that follows (`daemon/services/DaemonUpgradeApi.ts:825`).
* The check of a rollback applies a migration that the *candidate* declares when the source has implementations
  (`DaemonUpgradeApi.ts:192`, `:766`); a source that implements some and cannot read that one's result then serves data it
  cannot read.  `ImplementersRead` excludes such releases.
* When the service is started by somebody else between its stop and the selection of the candidate, the
  source is taken for the candidate and authorized (`DaemonUpgradeApi.ts:734`).  A candidate that fails
  before a migration it needs cannot be rolled back, nor one that cannot answer the rollback's check.
* A forced Stop whose targets do not execute never gets a committed receipt, so waiting for it does
  not end; a retried one lists its targets in another order and may conflict with itself.
* A crash of `purge --confirm` before its receipt leaves a journal operation that every retry and every
  lifecycle command refuses; writes to `launcher-supervision/` after the seal make the plan stale.  A crash
  inside the write of the receipt leaves a temporary file beside it, which every start and every purge then
  refuses as a damaged receipt (`DaemonDataPurger.ts:395`).
* When an interrupted purge has renamed the data root, the next launcher or lifecycle command makes a new one;
  the resumed purge refuses that one for good, and its pending receipt refuses every start
  (`DaemonDataPurger.ts:904`).  Files that are written between the check of the scope and the rename make a
  quarantine that is never deleted (line 939).
* A recovery recorded on a pending removal is answered "recovered" again after its evidence has expired
  (`PurgeSafetyRecovery.ts:458`), while the removal asks for current evidence; a recovery interrupted until its
  plan expired leaves its own operation pending, which refuses all others.

## 5. What is proved

TLAPS proves the following for every value of the constants: any number of Runs, Projects,
Gates, claims, Revisions, runners, events, requests, Daemon instances.

| Module | Theorems | From |
|---|---|---|
| `StoreProofs` | `RunInvariant`, `ClaimsRespectTheLimits` | `RunInv` |
| | `DirectCallersKeepTheSlots`, `DirectCallersRunOneGraph` (over `DirectSpec`) | `DirectInv` |
| | `StoreInvariant`, `TypesHold`, `SlotsAreTheClaimsInForce`, `ProjectsRunOneGraph`, `CancellationWins`, `CancellationsAreKept`, `HoldsCanBeRepaired`, `SuspensionsHaveTheirAsking`, `AskingsBlock`, `VerdictsReachTheRun`, `LostClaimsStayFenced`, `CompletedRunsStay`, `ResultsAreNotMixed`, `StoreImplementsLease` (the refinement) | `StoreInv` |
| `CoordinatorProofs` | `PlacesAreAttended`, `WakeUpsAreNotLost`, `ProcessesHaveTheirOwner`, `ExecutionsAreNotInterrupted` | `CoordinatorInv` |
| | `CoordinatorImplementsStores`: `CoordinatorSpec` implements `GateSpec`, so that the theorems of the stores hold of it | steps |
| `WorkflowRuntimeProofs` | `EffectsAreNotRepeated`, `StepsStandOnTheRecord`, `SuccessMeansComplete` | `RuntimeInv`, `DurableInv`, `CompletionInv` |
| `RunnerProofs` | `AcknowledgementsAreTrue`, `DecisionsStay` | `TriggerInv` |
| | `RecoveryTypes`, `ResourcesStayTracked`, `SafeStaysReconciled` | `RecoveryInv` |
| `ProjectProofs` | `RegistryTypes`, `LocationsAreOneProjects`, `HistoriesFollow`, `QuietProjectsStayInactive` | `RegistryInv` |
| | `RevisionTypes`, `CollectedStaysUnused`, `UsedStaysWhole`, `GraceIsKept` | `RevisionInv` |
| `DaemonLifecycleProofs` | `SupervisionTypes`, `SupervisionIsReadable`, `RestartsAreLimited` (over `SupervisionSpec`), `LifecycleKeepsSupervision`, `LifecycleKeepsTheBound`, `RemovalExcludesDaemons` | `SupervisionInv`, `LifecycleInv` |
| | `JournalStaysBehind` (any number of commands); `OneCommandKeepsTheDrain` (one command at a time) | `JournalInv`, `DrainInv` |
| `UpgradeActivationProofs` | `AcceptedStateStays`, `OutcomesRelease` (one command at a time) | `UpgradeInv` |
| | `DataStayReadable` (and nobody else starts the service; and `ImplementersRead`) | `PlaceInv` |
| `HostProofs` | `RequestTypes`, `RequestsAreAppliedOnce`, `ReportsAreTrue`; `PurgeTypes`, `OnlySealedDataArePurged`, `LifetimesAreApart` (over `PurgeSpec`) | `RequestInv`, `PurgeInv` |

**Assumptions.**  The named ASSUMEs of the modules, as weak as the code justifies: sets are finite where
they are counted, Projects are positive numbers, a Workflow belongs to one Project, limits are natural
numbers and execution limits positive; the program of a Workflow performs an external action in at most
one step of its own; markers such as `None` are no members of the sets they are added to.

Four theorems have hypotheses besides, which are conditions under which the code is right and not a
property of the code; the runs satisfy all of them.
`OneCommand`: no two controllers drive operations at the same time (any number may follow one another, end
anywhere and be resumed).  `NobodyElseStarts`: nobody starts the service while a controller has it stopped to switch
releases.  `ImplementersRead`: a release that contains implementations of migrations reads what each declared
migration leaves.  The observations of section 4 say what happens without them.

**The arguments.**  None of these is inductive alone.

*The stores.*  That a slot names the newest claim needs that only a Run without a slot is claimed; that
needs that a queued Run has none, hence that the slots are exactly the executing Runs, or a recovery or
a repair could requeue a Run together with its slot.  That a completed Run stays completed needs that it
holds neither slot nor recovery hold.  `RunInv` is the conjunction that is inductive; `StoreInv` adds how
far an Asking and its wake-up can be, that at most one Asking of a Run is unanswered, and that it blocks
its Run.  Every action has a lemma `<Action>Keeps`; `RunInvNext` and `StoreInvNext` put them together.  The
action properties rest on one lemma about what a step does to claims (`NextClaimEffect`); the refinement
maps its cases to `Grant`, `End` and `Revoke`.

*Without the services.*  `RunInv` has two halves.  `ClaimInv`, about slots, graphs and recovery holds, never needs
`CancelInv`, about cancellations, and the lemmas say so (`Kept`); the operations of the port that no service calls
keep the first and not the second, so `DirectSpec` has the theorems about slots and graphs only.  There `claimNext`
takes whatever is in the queue, so that only queued Runs are in it must be shown as well (`QueuedRunsWait`); the
Gate store breaks that, see the Deadline of a cancelled Run's Asking in section 4.

*The coordinator.*  `CoordinatorInv` is `StoreInv` and what the services may rely on: a process is in the start-up of
its dispatch, where nobody can stop it until it is registered, or the one runner of its Project, or was overwritten as
that (`OneRunner`); while it attaches only the cancellation of its own Run can end it, because whoever looks for
another runner of the Project looks at the handle; so a handle that names an ended process is of a cancelled Run.
Unless a turn was written back (`forgot`), the dispatches of a Project that prepare wait in line and load the graph
of those before them and of every slot, as long as their reservations last (`TurnsAreInLine`), so that no start stops
another's runner; a Project that drains has no dispatch (`DrainIsClosed`); and when nothing is at work and the pump rests, all that waits is blocked (`PumpIsCalled`).  The
last needs that the round robin always finds a Project in turn, by a least Project ID.  The refinement of `GateSpec`
needs no invariant: every action is a store action or leaves the stores alone.

*The execution.*  `RuntimeInv` counts: what an action has performed, plus the permissions that some runner
still holds (`Permits`), plus one if it may be permitted again without anybody's authority (`Credit`), is at
most one more than the retries authorised.  A step moves a unit from one to the next and makes none.
`DurableInv` adds that what a runner knows, or has passed, is on record (`RunnersAreInformed`).
`CompletionInv` adds how a success comes to be: who is about to report one has everything on record; an effect
confirmed on record was performed; a dispatch that applies an answer has it acknowledged before it goes on, and an
answered wake-up never comes back.

*Supervision.*  `SupervisionInv` relates the file's count of attempts to the ends in a row; `LifecycleInv` adds who
may be alive: a Daemon is an attempt the file names, a call is in a Daemon, and a command that controls the
service holds the gate that a start needs.

*The lifecycle.*  `JournalInv` says that each journal entry, the entries a command has seen, and those it is about to
write all fit the receipt (`OperationsAgree`, `ControlsFollow`); receipts only move forward, so that what fitted once
fits later, and a command that is behind another can no longer write.  With one command nothing is overtaken:
`DrainInv` says that what it works on is the journal's entry, that only the operation under way has an unsettled
receipt, and that a Daemon that has to hold dispatch executes nothing.

*The upgrade.*  `UpgradeInv` says that only one operation is current, that its receipt is where the journal entry says
or one answered call ahead, that a live Daemon holds what the receipt says unless it is the call that releases, that
nothing runs between the hold and the end, and that a call and a command belong to the stage they were made in.
`PlaceInv` adds, for each stage, which release is selected and launched and that it reads the format of the data;
the switch, the migration and the rollback move both only while the service is stopped.

*Losses and leases.*  `RecoveryInv` treats the script of an execution as the set of the steps it still has: `begin`
is told before anything is made, a reply belongs to the mutation under way, what was told released is gone, leases
never open again.  A row that says safe has its runner proved gone, its channel drained and no lease open.

*Projects, Revisions, Triggers, requests.*  Each rests on what a handler or runner has read and still may rely
on when it writes: that the row it reserved is still its own (`RowsAreApart`, `ActionFits`), that a use is
registered before it is relied on (`UsesAreRegistered`, `ReadersAreFresh`), that a runner's poller knows only
what was admitted (`PollersKnow`), that a handler's view of a receipt is the receipt or an earlier one
(`HandlersAreExact`, `ReceiptsAreTrue`).

*Purge.*  `PurgeInv` says what each step of the command may still rely on although it looked at it some steps ago
(`StepsAreCovered`), which holds because a step that is not its own either keeps the evidence or needs the gate;
that the evidence of unchanged rows has their leases (`EvidenceIsExact`), and that a receipt's evidence, still in
its data root, has none open (`BusyIsFree`), which a resumed command relies on without a look at them.

**Only model-checked.**  Liveness: `StopTakesEffect`, `LostClaimsAreReleased`, `LossesAreJudged`.  Every other
property of a run is stated by a theorem over that run's specification or one that it implements.

**Out of the prover's reach.**  Liveness under fairness, ENABLED, induction over data and recursive
operators.  No module here uses RECURSIVE.

## 6. Fairness

`CoordinatorSpec` and `RecoverySpec` assume fairness; the properties of the other modules are safety
properties.

`CoordinatorSpec`:

* A chain of awaits goes on: weak fairness of `ChainStep` (`StopCurrent`, `Spawn` and `Attached` once the
  runner they wait for has ended), `Settle`, `ConfirmStopped` and `Report`, `Resume`, `DrainSettles` and
  `CommitLocation`, each of one dispatch, caller or Project, and of `ForceDrainEnds`.  These are statements
  that the microtask queue holds already.
* An awaited event is taken: a start that ends in a handshake or its time limit,
  the abort of an execution whose runner was stopped, the exit of a killed
  process, the end of a delay or of a `finally`, a poll of `cancelRun`.  Chains
  come in between, so weak fairness would say nothing: the event is disabled while
  one runs.  The condition is instead that either it is not enabled, again and
  again, at moments when the loop is free (`Quiet`), or it happens again and
  again.  The loop's queue is first in, first out, so it is no stronger than the code.
* The process is started again after a crash (`Restart`): the managed launcher does so.

Nobody has to start a Run, answer, repair, cancel or lift a hold, and a Workflow
need not end: `Finish`, `Answer`, `RepairProject`, `CancelRun`, `ReleaseDispatch`,
`PumpReserves`, `TakeTurn` and `ClaimDispatch` have no fairness.

`RecoverySpec`: weak fairness of `LossStep(r)` for each runner (the Daemon comes to every callback of a loss:
recording it, the stop of the process, the judgement, the delay) and of `Handle(x)` for each execution (a
frame that was handled is followed by the next).  Nothing is assumed of the runner or the provider;
`LossesAreJudged` ends when the Daemon goes down.

## 7. Plan

Next, in this order:

1. `WorkflowRuntime` with lanes that run at once, compensation, corrections and review rounds, and with
   the cancellation of an execution.
2. Theorems about what item 1 adds, from `RuntimeInv` and `DurableInv`.  That `WorkflowRuntime` implements the
   fencing lease is none of them: with one Run it does, with two of a Project it does not (section 4).
3. Liveness of `reserveNext` with two Projects: a Project's turn comes; the burst bounds what overtakes a new Run.

## 8. Not modelled, and why

* Timestamps, payload contents, displayed reasons: no transition reads them.
* Refusals that change nothing and guard inputs left out here: an ineligible Project, a stale review, a
  superseded uncertainty revision.  `recordEvidence` of the external action store: no service calls it.
* `lastTriggerOutcome`, trace, artifacts and the projections the console shows: records only, which no
  transition of a Run reads.
* Files, process groups and sockets as such, and the codec of the channel: what their outcomes change is
  modelled where the component is.
* Agents, sandbox sources, scaffolding and its templates, the command line, the contracts, the console: no shared
  state and no concurrency of their own.  Together with the in-memory doubles of the repositories and the schemas
  they are the larger part of the source, which is why the modelled share of its lines, about a fifth, stays
  well below that of its state machines.
* The settings that only bound waiting times, and the content of an installation or a candidate's check, which
  are choices of the model.
* Of the purge: signatures and keys, what rows and files contain, and the capsule that keeps a release for its
  recovery.  Only whether they are still as sealed matters.
