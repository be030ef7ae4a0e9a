----------------------------- MODULE Coordinator ----------------------------
(***************************************************************************)
(* The Run coordinator, and the runner processes it starts and stops, over *)
(* the Run and Gate stores: RunCoordinator with ProjectRunnerTransport,    *)
(* ProjectRunnerSupervisor and ProjectRecoveryCoordinator.                 *)
(*                                                                         *)
(* The stores survive a crash of the Daemon; the variables of this module, *)
(* "recovery" and "held" apart, do not.  The Daemon is one event loop: a   *)
(* chain of awaits on the SQLite store is not interrupted by an event (a   *)
(* request, a frame of a runner, the end of a process, a timer), but the   *)
(* Daemon can crash between two of its transactions.  So each transaction  *)
(* is a step, and an event waits until no dispatch is within such a chain. *)
(*                                                                         *)
(* A dispatch of Run r is <<r, 0>> until it has claimed r with generation  *)
(* g, and <<r, g>> from then on; <<r, g>> also names the runner process    *)
(* started under that claim, and what the supervisor and cancelRun keep of *)
(* it: a handle may name a process that has ended.                         *)
(*                                                                         *)
(* Left out: Trigger runners, limit changes, Phase results (recorded       *)
(* before the commit), resource leases and external actions (whether       *)
(* cleanup is safe is a choice), two losses of one Project's runner that   *)
(* overlap, a process group that can not be killed, a shutdown during a    *)
(* forced drain, a second dispatch of a Run whose first one still prepares *)
(* with a reservation that was taken from it, a second caller that stops a *)
(* Run while a first one does, and runners that outlive a crash of the     *)
(* Daemon: they end when their socket closes.  Approximated: after a turn  *)
(* was written back a dispatch waits for any of those that prepare, none   *)
(* or all of them ("forgot"; the code waits for the ones before the turn   *)
(* it finds), and a forced drain ends when no runner that the supervisor   *)
(* then knows is being stopped (the code waits for those it has stopped).  *)
(***************************************************************************)
EXTENDS GateStore

CONSTANT MaxFaults \* bound of the checked instances: disturbances of a behaviour

ASSUME MaxFaultsAssumption == MaxFaults \in Nat

VARIABLES
    up,        \* a Daemon process runs
    pump,      \* #pump has been called and has not come to rest since
    held,      \* #daemonDispatchHeld, which the lifecycle journal keeps
    stopping,  \* #stopping: "no", "forced" (forceDaemonDrain) or "shutdown"
    ahead,     \* the dispatches of its Project that a dispatch which prepares waits for
    forgot,    \* Projects where attach drops the turn of a dispatch that prepares
    stage,     \* how far each dispatch is
    live,      \* the runner processes that run
    stops,     \* the runner processes whose stop was asked for
    handle,    \* ProjectRunnerSupervisor: the runner of a Project, as a set
    awaits,    \* the runner processes whose stop a dispatch waits for
    control,   \* #activeExecutions: the generation that can be stopped, or 0
    canceller, \* what cancelRun of a Run is doing, or a forced Stop that one target stands for
    targets,   \* the Runs that it stops and confirms
    controls,  \* the runner processes whose stop it waits for
    resuming,  \* Projects whose recovery a restart still has to take up
    timers,    \* Projects whose recovery it resumes after a delay
    recovery,  \* what a Project's recovery row says about dispatching it
    closed,    \* Projects with a location change that drains, or archived
    drain,     \* how far drainProject of a Project is
    replaced,  \* history: running processes that attach dropped as the runner of a Project
    faults     \* disturbances so far: failures, losses, cancellations, holds, stops

processVars  == <<live, stops, handle, control, awaits, replaced>>
modeVars     == <<up, held, stopping, resuming, timers>>
turnVars     == <<ahead, forgot>>
callerVars   == <<canceller, targets, controls>>
callVars     == <<pump, turnVars, stage, callerVars>>
locationVars == <<closed, drain>>

coordinatorVars ==
    <<vars, gateVars, processVars, modeVars, callVars, recovery, faults, locationVars>>

Claims     == Run \X Generations
Dispatches == Run \X (0 .. MaxGeneration)

\* Within a chain of transactions.
Unbroken == {"claimed", "finished", "failed", "lost", "reconciling", "ending"}
Stages   == Unbroken \cup
    {"none", "preparing", "loading", "clearing", "starting", "attaching", "running",
     "cancelling", "failing", "losing", "checking", "delayed", "restoring"}

Owner(c) == ProjectOf[c[1]]

\* The statement after the await of a stop is next.
StopReturns(d) ==
    \/ stage[d] \in {"attaching", "checking"} /\ awaits[d] = {}
    \/ stage[d] = "cancelling" /\ d \notin live

InChain(d) == stage[d] \in Unbroken \/ StopReturns(d)

CallerReturns(r) == canceller[r] = "stopping" /\ controls[r] = {}

CallerInChain(r) == canceller[r] = "reporting" \/ CallerReturns(r)

\* drainProject after its runner has ended, and the commit of the change.
Changing(p) == drain[p] = "drained" \/ (drain[p] = "stopping" /\ handle[p] = {})

\* An event can be taken from the queue.
Quiet ==
    /\ resuming = {}
    /\ \A d \in Dispatches : ~InChain(d)
    /\ \A r \in Run : ~CallerInChain(r)
    /\ \A p \in Project : ~Changing(p)
Event == up /\ Quiet

CoordinatorInit ==
    /\ Init /\ GateInit
    /\ up = TRUE /\ pump = FALSE /\ held = FALSE /\ stopping = "no"
    /\ ahead = [r \in Run |-> {}] /\ forgot = {}
    /\ stage = [d \in Dispatches |-> "none"]
    /\ live = {} /\ stops = {} /\ replaced = {}
    /\ handle = [p \in Project |-> {}]
    /\ control = [r \in Run |-> 0]
    /\ awaits = [d \in Dispatches |-> {}]
    /\ canceller = [r \in Run |-> "none"]
    /\ targets = [r \in Run |-> {}] /\ controls = [r \in Run |-> {}]
    /\ resuming = {} /\ timers = {}
    /\ recovery = [p \in Project |-> "healthy"]
    /\ closed = {} /\ drain = [p \in Project |-> "none"]
    /\ faults = 0

Disturb == faults < MaxFaults /\ faults' = faults + 1

Move(d, to) == stage' = [stage EXCEPT ![d] = to]

-----------------------------------------------------------------------------
(* Requests that wake the pump.                                            *)

Start(r, g) ==
    /\ Event
    /\ AdmitAndActivate(r, g)
    /\ pump' = TRUE
    /\ UNCHANGED <<gateVars, turnVars, stage, callerVars, processVars, modeVars,
                   recovery, faults, locationVars>>

(* A Verdict, and continueRun for the Run it was given to.                 *)
Answer(r, k) ==
    /\ Event
    /\ RecordVerdict(r, k)
    /\ pump' = (pump \/ state'[r] = "queued")
    /\ UNCHANGED <<turnVars, stage, callerVars, processVars, modeVars, recovery,
                   faults, locationVars>>

(* repair begins another cycle of a Project that is held and safe.         *)
RepairProject(p) ==
    /\ Event
    /\ recovery[p] = "held"
    /\ RepairHolds(p)
    /\ recovery' = [recovery EXCEPT ![p] = "retrying"]
    /\ pump' = TRUE
    /\ UNCHANGED <<gateVars, turnVars, stage, callerVars, processVars, modeVars,
                   faults, locationVars>>

-----------------------------------------------------------------------------
(* The pump.                                                               *)

Blocked == closed \cup {p \in Project : recovery[p] \notin {"healthy", "retrying"}}

CanReserve ==
    /\ Cardinality(Slots) + Cardinality(reserved) < daemonLimit
    /\ \E p \in InTurn(Candidates(Blocked)) : Preferred(p) # {}

Prepares(r) == stage[<<r, 0>>] = "preparing" \/ stage[<<r, 0>>] = "loading"

\* An attach of the Project waits for the runner that it replaces.
AttachWaits(p) == \E c \in Claims : Owner(c) = p /\ stage[c] = "attaching"

(* One turn of #pumpRuns starts the dispatch of the Run it reserved, which *)
(* takes its turn in the Project.  An attach that waits writes back the    *)
(* turn it has read, so the dispatches that come after it wait for some of *)
(* those that prepare.                                                     *)
PumpReserves ==
    /\ Event /\ pump /\ ~held /\ stopping = "no"
    /\ ReserveNext(Blocked)
    /\ \E r \in reserved' \ reserved :
          LET p      == ProjectOf[r]
              before == {s \in InProject(p) : Prepares(s)}
          IN
          /\ ~Prepares(r)
          /\ \E turns \in SUBSET before :
                /\ turns = before \/ p \in forgot
                /\ ahead' = [ahead EXCEPT ![r] = turns]
          /\ forgot' = IF AttachWaits(p) THEN forgot \cup {p} ELSE forgot
          /\ Move(<<r, 0>>, "preparing")
    /\ UNCHANGED <<gateVars, pump, callerVars, processVars, modeVars, recovery, faults,
                   locationVars>>

(* restore calls #pump last.                                               *)
PumpRests ==
    /\ up /\ pump /\ resuming = {}
    /\ held \/ stopping # "no" \/ ~CanReserve
    /\ pump' = FALSE
    /\ UNCHANGED <<vars, gateVars, turnVars, stage, callerVars, processVars, modeVars,
                   recovery, faults, locationVars>>

-----------------------------------------------------------------------------
(* A dispatch up to the execution of its Run.                              *)

FaultyHasTurn(r) == stage[<<r, 0>>] = "preparing"

(* prepare waits for the prior turns of the Project.                       *)
HasTurn(r) == stage[<<r, 0>>] = "preparing" /\ ahead[r] = {}

(* At its turn it stops a runner of another package graph.  To drop one    *)
(* that does not run it writes its own turn, whatever turns came after it. *)
TakeTurn(r) ==
    LET p     == ProjectOf[r]
        other == {c \in handle[p] : graph[c[1]] # graph[r]}
    IN
    /\ HasTurn(r)
    /\ stops' = stops \cup (other \cap live)
    /\ awaits' = [awaits EXCEPT ![<<r, 0>>] = other \cap live]
    /\ handle' = [handle EXCEPT ![p] = @ \ (other \ live)]
    /\ forgot' = IF ~(other \subseteq live) /\ \E s \in InProject(p) \ {r} : Prepares(s)
                 THEN forgot \cup {p} ELSE forgot
    /\ Move(<<r, 0>>, "loading")
    /\ UNCHANGED <<vars, gateVars, pump, ahead, callerVars, live, control, replaced,
                   modeVars, recovery, faults, locationVars>>

\* The runner has stopped, and the content is loaded.
Loaded(r) == stage[<<r, 0>>] = "loading" /\ awaits[<<r, 0>>] = {}

TurnOver(r) ==
    /\ ahead' = [s \in Run |-> IF s = r THEN {} ELSE ahead[s] \ {r}]
    /\ forgot' = {p \in forgot : \E s \in InProject(p) \ {r} : Prepares(s)}

(* #dispatch: the reservation is claimed.                                  *)
ClaimDispatch(r) ==
    /\ Loaded(r)
    /\ ClaimReserved(r)
    /\ stage' = [stage EXCEPT ![<<r, 0>>] = "none", ![<<r, generation[r] + 1>>] = "claimed"]
    /\ TurnOver(r)
    /\ UNCHANGED <<gateVars, pump, callerVars, processVars, modeVars, recovery, faults,
                   locationVars>>

ClaimRefused(r) == queue[r] = "none" \/ state[r] # "queued" \/ ~SlotFree(r) \/ slot[r] # 0

(* Unusable retained content holds the Run; another failure, a refused     *)
(* claim among them, releases the reservation if it still exists.          *)
PrepareFails(r) ==
    /\ Loaded(r)
    /\ \/ (HoldReserved(r) \/ ReleaseReservation(r)) /\ Disturb
       \/ ClaimRefused(r) /\ ReleaseReservation(r) /\ UNCHANGED faults
       \/ r \notin reserved /\ UNCHANGED <<vars, faults>>
    /\ Move(<<r, 0>>, "ending")
    /\ TurnOver(r)
    /\ UNCHANGED <<gateVars, pump, callerVars, processVars, modeVars, recovery,
                   locationVars>>

(* ProjectRunnerSupervisor.stop: a runner that has stopped is dropped.     *)
StopRunner(p) ==
    /\ stops' = stops \cup (handle[p] \cap live)
    /\ handle' = [handle EXCEPT ![p] = @ \cap live]

(* run stops the runner of the Project before it starts its own.           *)
StopCurrent(c) ==
    /\ stage[c] = "claimed"
    /\ StopRunner(Owner(c))
    /\ awaits' = [awaits EXCEPT ![c] = handle[Owner(c)] \cap live]
    /\ Move(c, "clearing")
    /\ UNCHANGED <<vars, gateVars, pump, turnVars, callerVars, live, control, replaced,
                   modeVars, recovery, faults, locationVars>>

Spawn(c) ==
    /\ stage[c] = "clearing" /\ awaits[c] = {}
    /\ live' = live \cup {c}
    /\ Move(c, "starting")
    /\ UNCHANGED <<vars, gateVars, turnVars, pump, callerVars, stops, handle, control,
                   awaits, replaced, modeVars, recovery, faults, locationVars>>

(* The execution of the Run is deleted whatever its generation is.         *)
Unregister(r) == control' = [control EXCEPT ![r] = 0]

FaultyStartFails(c) ==
    /\ Event
    /\ stage[c] = "starting"
    /\ Unregister(c[1])
    /\ Move(c, "failed") \/ Move(c, "lost")
    /\ Disturb
    /\ UNCHANGED <<vars, gateVars, turnVars, pump, callerVars, live, stops, handle, awaits,
                   replaced, modeVars, recovery, locationVars>>

(* A process that fails before it is attached is killed: a lost connection *)
(* is recovered, another failure fails the Run.                            *)
StartFails(c) ==
    /\ Event
    /\ stage[c] = "starting"
    /\ live' = live \ {c}
    /\ Unregister(c[1])
    /\ Move(c, "failed") \/ Move(c, "lost")
    /\ Disturb
    /\ UNCHANGED <<vars, gateVars, turnVars, pump, callerVars, stops, handle, awaits,
                   replaced, modeVars, recovery, locationVars>>

(* The handshake is over: the execution is registered, and a runner that   *)
(* the Project has got meanwhile is stopped.                               *)
Attach(c) ==
    LET current == handle[Owner(c)] \cap live IN
    /\ Event
    /\ stage[c] = "starting"
    /\ control' = [control EXCEPT ![c[1]] = c[2]]
    /\ stops' = stops \cup current
    /\ awaits' = [awaits EXCEPT ![c] = current]
    /\ Move(c, "attaching")
    /\ UNCHANGED <<vars, gateVars, turnVars, pump, callerVars, live, handle, replaced,
                   modeVars, recovery, faults, locationVars>>

(* The process becomes the runner of the Project, also when it was stopped *)
(* meanwhile, and whichever runner has become it meanwhile.  A Run whose   *)
(* cancellation was requested is stopped, not executed; the command to a   *)
(* process that does not run is a lost connection.                         *)
Attached(c) ==
    LET p == Owner(c) IN
    /\ stage[c] = "attaching" /\ awaits[c] = {}
    /\ handle' = [handle EXCEPT ![p] = {c}]
    /\ replaced' = replaced \cup (handle[p] \cap live)
    /\ \/ /\ cancel[c[1]] = "requested"
          /\ stops' = stops \cup ({c} \cap live)
          /\ Move(c, "cancelling")
       \/ /\ cancel[c[1]] # "requested"
          /\ UNCHANGED stops
          /\ Move(c, IF c \in live THEN "running" ELSE "lost")
    /\ UNCHANGED <<vars, gateVars, turnVars, pump, callerVars, live, control, awaits,
                   modeVars, recovery, faults, locationVars>>

-----------------------------------------------------------------------------
(* The execution and its end.                                              *)

Finish(c) ==
    /\ Event
    /\ stage[c] = "running"
    /\ Move(c, "finished")
    /\ UNCHANGED <<vars, gateVars, turnVars, pump, callerVars, processVars, modeVars,
                   recovery, faults, locationVars>>

(* The runner reports a fault, its own or that of a stop, or its           *)
(* connection is lost; its process is stopped in each case.                *)
Break(c) ==
    /\ Event
    /\ stage[c] = "running"
    /\ Move(c, "failing") \/ Move(c, "losing")
    /\ stops' = stops \cup {c}
    /\ IF c \in stops THEN UNCHANGED faults ELSE Disturb
    /\ UNCHANGED <<vars, gateVars, turnVars, pump, callerVars, live, handle, control,
                   awaits, replaced, modeVars, recovery, locationVars>>

(* settings.idleMs after its commit.                                       *)
IdleStop(c) ==
    /\ Event
    /\ c \in live /\ stage[c] \in {"none", "restoring"}
    /\ c \notin stops
    /\ stops' = stops \cup {c}
    /\ UNCHANGED <<vars, gateVars, callVars, live, handle, control, awaits, replaced,
                   modeVars, recovery, faults, locationVars>>

(* The process has ended, and with it every wait for its stop.             *)
StopDone(c) ==
    /\ Event
    /\ c \in stops /\ stage[c] # "running"
    /\ stops' = stops \ {c}
    /\ live' = live \ {c}
    /\ handle' = [handle EXCEPT ![Owner(c)] = @ \ {c}]
    /\ replaced' = replaced \ {c}
    /\ Unregister(c[1])
    /\ awaits' = [d \in Dispatches |-> awaits[d] \ {c}]
    /\ controls' = [r \in Run |-> controls[r] \ {c}]
    /\ stage' = [stage EXCEPT ![c] = CASE @ = "failing" -> "failed"
                                       [] @ = "losing" -> "lost"
                                       [] OTHER -> @]
    /\ UNCHANGED <<vars, gateVars, turnVars, pump, canceller, targets, modeVars,
                   recovery, faults, locationVars>>

(* A dispatch that was cancelled in its start-up confirms it and fails.    *)
ConfirmCancelled(c) ==
    /\ stage[c] = "cancelling" /\ c \notin live
    /\ ConfirmRunnerStopped(Owner(c), {c[1]}, "confirmed")
    /\ Move(c, "failed")
    /\ UNCHANGED <<gateVars, turnVars, pump, callerVars, processVars, modeVars,
                   recovery, faults, locationVars>>

-----------------------------------------------------------------------------
(* #execute after the runner's answer: wake-ups are applied first.         *)

ApplyWakeup(c, k) ==
    /\ stage[c] = "finished"
    /\ MarkApplied(c[1], c[2], k)
    /\ UNCHANGED <<callVars, processVars, modeVars, recovery, faults, locationVars>>

Committable(c) == stage[c] = "finished" /\ \A k \in Gate : wakeup[c[1]][k] # "pending"

(* observeHealthy, long enough after the last failure, ends the recovery.  *)
ObserveHealthy(p) ==
    recovery' \in {recovery} \cup (IF recovery[p] = "retrying"
                                   THEN {[recovery EXCEPT ![p] = "healthy"]} ELSE {})

CommitSuspension(c, k) ==
    /\ Committable(c)
    /\ CreateAskingAndSuspend(c[1], c[2], k)
    /\ Move(c, "ending")
    /\ ObserveHealthy(Owner(c))
    /\ UNCHANGED <<turnVars, pump, callerVars, processVars, modeVars, faults,
                   locationVars>>

CommitCompletion(c, outcome) ==
    /\ Committable(c)
    /\ CompleteRun(c[1], c[2], outcome)
    /\ Move(c, "ending")
    /\ ObserveHealthy(Owner(c))
    /\ UNCHANGED <<gateVars, turnVars, pump, callerVars, processVars, modeVars, faults,
                   locationVars>>

(* A cancellation on record refuses a completion, not a suspension.        *)
CommitRefused(c) ==
    /\ stage[c] = "finished"
    /\ ~Authorised(c[1], c[2]) \/ cancel[c[1]] # "none"
    /\ Move(c, "failed")
    /\ UNCHANGED <<vars, gateVars, turnVars, pump, callerVars, processVars, modeVars,
                   recovery, faults, locationVars>>

FaultyFailRun(c) ==
    /\ stage[c] = "failed"
    /\ UNCHANGED vars
    /\ Move(c, "reconciling")
    /\ UNCHANGED <<gateVars, turnVars, pump, callerVars, processVars, modeVars,
                   recovery, faults, locationVars>>

(* The Run fails unless it was cancelled; a refusal is dropped.            *)
FailRun(c) ==
    /\ stage[c] = "failed"
    /\ \/ CompleteRun(c[1], c[2], "failed")
       \/ (cancel[c[1]] # "none" \/ ~Authorised(c[1], c[2])) /\ UNCHANGED vars
    /\ Move(c, "reconciling")
    /\ UNCHANGED <<gateVars, turnVars, pump, callerVars, processVars, modeVars,
                   recovery, faults, locationVars>>

Reconcile(c) ==
    /\ stage[c] = "reconciling"
    /\ ReconcileTerminalInabilities
    /\ Move(c, "ending")
    /\ UNCHANGED <<turnVars, pump, callerVars, processVars, modeVars, recovery, faults,
                   locationVars>>

IsSettled(w) ==
    /\ mode[w] = "no-trigger"
    /\ \A r \in Run : WorkflowOf[r] = w => state[r] \notin {"queued", "executing", "suspended"}

(* The finally of #dispatch; a poller may be started before the dispatch   *)
(* is over and wakes the pump.                                             *)
Settle(d) ==
    /\ stage[d] = "ending"
    /\ IF IsSettled(WorkflowOf[d[1]]) THEN SettleManualActivity(WorkflowOf[d[1]])
       ELSE UNCHANGED vars
    /\ Move(d, "restoring")
    /\ UNCHANGED <<gateVars, turnVars, pump, callerVars, processVars, modeVars,
                   recovery, faults, locationVars>>

FaultyEndDispatch(d) ==
    /\ stage[d] = "restoring"
    /\ Move(d, "none")
    /\ UNCHANGED <<vars, gateVars, turnVars, pump, callerVars, processVars, modeVars,
                   recovery, faults, locationVars>>

EndDispatch(d) ==
    /\ Event
    /\ stage[d] = "restoring"
    /\ Move(d, "none")
    /\ pump' = TRUE
    /\ UNCHANGED <<vars, gateVars, turnVars, callerVars, processVars, modeVars,
                   recovery, faults, locationVars>>

-----------------------------------------------------------------------------
(* recoverRunnerLoss.                                                      *)

(* The failure is recorded, and any runner of the Project is stopped.      *)
RecordLoss(c) ==
    /\ stage[c] = "lost"
    /\ recovery' = [recovery EXCEPT ![Owner(c)] = "pending"]
    /\ StopRunner(Owner(c))
    /\ awaits' = [awaits EXCEPT ![c] = handle[Owner(c)] \cap live]
    /\ Move(c, "checking")
    /\ UNCHANGED <<vars, gateVars, turnVars, pump, callerVars, live, control, replaced,
                   modeVars, faults, locationVars>>

(* The Project is safe and the runner is replaced after a delay, or its    *)
(* Runs are held: for a repair when the delays are exhausted ("held"), or  *)
(* because the cleanup is not known to be safe ("uncertain").              *)
JudgeLoss(c) ==
    /\ stage[c] = "checking" /\ awaits[c] = {}
    /\ \E verdict \in {"delayed", "held", "uncertain"} :
          /\ recovery' = [recovery EXCEPT ![Owner(c)] = verdict]
          /\ IF verdict = "delayed" THEN UNCHANGED vars /\ Move(c, "delayed")
             ELSE HoldAfterRestart(Owner(c)) /\ Move(c, "ending")
    /\ UNCHANGED <<gateVars, turnVars, pump, callerVars, processVars, modeVars, faults,
                   locationVars>>

(* A Daemon that stops gives up the delay.  A refused call ends the        *)
(* dispatch as well.                                                       *)
DelayOver(c) ==
    /\ Event /\ stage[c] = "delayed"
    /\ IF stopping = "no"
       THEN /\ recovery' = [recovery EXCEPT
                              ![Owner(c)] = IF @ = "delayed" THEN "retrying" ELSE @]
            /\ \/ RecoverRunnerFailure(c[1], c[2])
               \/ ~Authorised(c[1], c[2]) /\ UNCHANGED vars
       ELSE UNCHANGED <<vars, recovery>>
    /\ Move(c, "ending")
    /\ UNCHANGED <<gateVars, turnVars, pump, callerVars, processVars, modeVars, faults,
                   locationVars>>

-----------------------------------------------------------------------------
(* cancelRun.                                                              *)

\* One caller at a time stops a Run.
Unstopped(T) == \A s \in Run : T \cap targets[s] = {}

(* #stopCancelledProject: stop the executions that are registered for the  *)
(* Runs T, or look for one.                                                *)
StopControls(r, T) ==
    LET found == {<<s, control[s]>> : s \in {s \in T : control[s] # 0}} IN
    /\ targets' = [targets EXCEPT ![r] = T]
    /\ controls' = [controls EXCEPT ![r] = found]
    /\ canceller' = [canceller EXCEPT ![r] = IF found = {} THEN "looking" ELSE "stopping"]
    /\ stops' = stops \cup found

CancelRun(r) ==
    /\ Event /\ canceller[r] = "none" /\ Unstopped({r})
    /\ RequestCancellation(r)
    /\ \/ state[r] = "executing" /\ StopControls(r, {r})
       \/ /\ state[r] # "executing"
          /\ canceller' = [canceller EXCEPT ![r] = "reporting"]
          /\ UNCHANGED <<targets, controls, stops>>
    /\ Disturb
    /\ UNCHANGED <<gateVars, turnVars, pump, stage, live, handle, control, awaits,
                   replaced, modeVars, recovery, locationVars>>

(* stopWorkflow, without and with force.                                   *)
StopWorkflow(w) ==
    /\ Event
    /\ w \in active /\ StopActivity(w)
    /\ pump' = TRUE
    /\ Disturb
    /\ UNCHANGED <<gateVars, turnVars, stage, callerVars, processVars, modeVars,
                   recovery, locationVars>>

ForceStopWorkflow(w) ==
    LET T == ForceStopTargets(w) IN
    /\ Event /\ Unstopped(T)
    /\ ForceStop(w)
    /\ \/ T = {} /\ UNCHANGED <<callerVars, stops>>
       \/ \E r \in T : canceller[r] = "none" /\ StopControls(r, T)
    /\ Disturb
    /\ UNCHANGED <<gateVars, turnVars, pump, stage, live, handle, control, awaits,
                   replaced, modeVars, recovery, locationVars>>

FindControls(r) ==
    /\ Event /\ canceller[r] = "looking" /\ \E s \in targets[r] : control[s] # 0
    /\ StopControls(r, targets[r])
    /\ UNCHANGED <<vars, gateVars, turnVars, pump, stage, live, handle, control,
                   awaits, replaced, modeVars, recovery, faults, locationVars>>

(* No target executes any longer, or the deadline has passed.              *)
GiveUp(r) ==
    /\ Event /\ canceller[r] = "looking" /\ \A s \in targets[r] : control[s] = 0
    /\ canceller' = [canceller EXCEPT ![r] = "reporting"]
    /\ targets' = [targets EXCEPT ![r] = {}]
    /\ UNCHANGED <<vars, gateVars, turnVars, pump, stage, controls, processVars,
                   modeVars, recovery, faults, locationVars>>

FaultyConfirmStopped(r) ==
    /\ CallerReturns(r)
    /\ UNCHANGED vars
    /\ canceller' = [canceller EXCEPT ![r] = "reporting"]
    /\ pump' = TRUE
    /\ targets' = [targets EXCEPT ![r] = {}]
    /\ UNCHANGED <<gateVars, turnVars, stage, controls, processVars, modeVars,
                   recovery, faults, locationVars>>

(* All the executions that were found have stopped: every target that      *)
(* executes is confirmed, or the fault of their cleanup recorded.          *)
ConfirmStopped(r) ==
    /\ CallerReturns(r)
    /\ \/ /\ ConfirmRunnerStopped(ProjectOf[r], targets[r], "confirmed")
          /\ canceller' = [canceller EXCEPT ![r] = "reporting"]
          /\ pump' = TRUE
       \/ /\ RecordCleanupFault(targets[r])
          /\ canceller' = [canceller EXCEPT ![r] = "none"]
          /\ UNCHANGED pump
    /\ targets' = [targets EXCEPT ![r] = {}]
    /\ UNCHANGED <<gateVars, turnVars, stage, controls, processVars, modeVars,
                   recovery, faults, locationVars>>

(* A forced Stop does not reconcile, and cancelRun drops a failure of it.  *)
Report(r) ==
    /\ up /\ canceller[r] = "reporting"
    /\ ReconcileTerminalInabilities \/ UNCHANGED <<vars, gateVars>>
    /\ canceller' = [canceller EXCEPT ![r] = "none"]
    /\ UNCHANGED <<turnVars, pump, stage, targets, controls, processVars, modeVars,
                   recovery, faults, locationVars>>

-----------------------------------------------------------------------------
(* The Daemon's own life.                                                  *)

HoldDispatch ==
    /\ Event /\ ~held /\ held' = TRUE
    /\ Disturb
    /\ UNCHANGED <<vars, gateVars, callVars, processVars, up, stopping, resuming,
                   timers, recovery, locationVars>>

(* A command awaits the forced drain it asked for before it asks for the   *)
(* release.                                                                *)
ReleaseDispatch ==
    /\ Event /\ held /\ held' = FALSE /\ stopping # "forced"
    /\ pump' = TRUE
    /\ UNCHANGED <<vars, gateVars, turnVars, stage, callerVars, processVars, up,
                   stopping, resuming, timers, recovery, faults, locationVars>>

(* shutdown and shutdownOwnedStrict of ProjectRunnerSupervisor.            *)
StopRunners ==
    /\ stops' = stops \cup (live \cap UNION {handle[p] : p \in Project})
    /\ handle' = [p \in Project |-> handle[p] \cap live]

Shutdown ==
    /\ Event /\ stopping = "no" /\ stopping' = "shutdown"
    /\ StopRunners
    /\ Disturb
    /\ UNCHANGED <<vars, gateVars, callVars, live, control, awaits, replaced, up, held,
                   resuming, timers, recovery, locationVars>>

(* Nothing of a Daemon process is left but its database and its journal.   *)
Down ==
    /\ up' = FALSE /\ pump' = FALSE /\ stopping' = "no"
    /\ ahead' = [r \in Run |-> {}] /\ forgot' = {}
    /\ stage' = [d \in Dispatches |-> "none"]
    /\ live' = {} /\ stops' = {} /\ replaced' = {}
    /\ handle' = [p \in Project |-> {}]
    /\ control' = [r \in Run |-> 0]
    /\ awaits' = [d \in Dispatches |-> {}]
    /\ canceller' = [r \in Run |-> "none"]
    /\ targets' = [r \in Run |-> {}] /\ controls' = [r \in Run |-> {}]
    /\ resuming' = {} /\ timers' = {}
    /\ drain' = [p \in Project |-> "none"]
    /\ UNCHANGED <<vars, gateVars, held, recovery, closed>>

ShutdownEnds ==
    /\ Event /\ stopping = "shutdown"
    /\ \A d \in Dispatches : stage[d] = "none"
    /\ Down
    /\ UNCHANGED faults

Crash == up /\ Down /\ Disturb

(* restore, before anything else happens: the recoveries that are not      *)
(* healthy are taken up one by one.                                        *)
Restart ==
    /\ ~up
    /\ up' = TRUE /\ pump' = TRUE
    /\ resuming' = {p \in Project : recovery[p] # "healthy"}
    /\ RecoverInterrupted(resuming')
    /\ UNCHANGED <<gateVars, turnVars, stage, callerVars, processVars, held, stopping,
                   timers, recovery, faults, locationVars>>

(* A loss that the crash left unjudged is judged now.  A safe Project is   *)
(* resumed after its delay, even when its attempts are exhausted.          *)
ResumePending(p) ==
    /\ up /\ p \in resuming /\ recovery[p] = "pending"
    /\ \/ /\ \E verdict \in {"delayed", "held"} : recovery' = [recovery EXCEPT ![p] = verdict]
          /\ timers' = timers \cup {p}
          /\ UNCHANGED vars
       \/ /\ recovery' = [recovery EXCEPT ![p] = "uncertain"]
          /\ HoldAfterRestart(p)
          /\ UNCHANGED timers
    /\ resuming' = resuming \ {p}
    /\ UNCHANGED <<gateVars, callVars, processVars, up, held, stopping, faults,
                   locationVars>>

ResumeDelayed(p) ==
    /\ up /\ p \in resuming /\ recovery[p] = "delayed"
    /\ timers' = timers \cup {p}
    /\ resuming' = resuming \ {p}
    /\ UNCHANGED <<vars, gateVars, callVars, processVars, up, held, stopping, recovery,
                   faults, locationVars>>

(* The delay is over already.                                              *)
ResumeAtOnce(p) ==
    /\ up /\ p \in resuming /\ recovery[p] = "retrying"
    /\ RecoverAfterRestart(p)
    /\ pump' = TRUE
    /\ resuming' = resuming \ {p}
    /\ UNCHANGED <<gateVars, turnVars, stage, callerVars, processVars, up, held,
                   stopping, timers, recovery, faults, locationVars>>

ResumeHeld(p) ==
    /\ up /\ p \in resuming /\ recovery[p] \in {"held", "uncertain"}
    /\ HoldAfterRestart(p)
    /\ resuming' = resuming \ {p}
    /\ UNCHANGED <<gateVars, callVars, processVars, up, held, stopping, timers,
                   recovery, faults, locationVars>>

(* #resumePersisted after its wait.                                        *)
ResumePersisted(p) ==
    /\ Event /\ p \in timers
    /\ timers' = timers \ {p}
    /\ IF stopping = "no"
       THEN /\ RecoverAfterRestart(p)
            /\ recovery' = [recovery EXCEPT ![p] = IF @ = "delayed" THEN "retrying" ELSE @]
            /\ pump' = TRUE
       ELSE UNCHANGED <<vars, recovery, pump>>
    /\ UNCHANGED <<gateVars, turnVars, stage, callerVars, processVars, up, held,
                   stopping, resuming, faults, locationVars>>

(* forceDaemonDrain; stopForDaemonLifecycle has the same steps.            *)
ForceDrain ==
    /\ Event /\ held /\ stopping = "no"
    /\ stopping' = "forced"
    /\ StopRunners
    /\ Disturb
    /\ UNCHANGED <<vars, gateVars, callVars, live, control, awaits, replaced, up, held,
                   resuming, timers, recovery, locationVars>>

ForceDrainEnds ==
    /\ up /\ stopping = "forced"
    /\ \A p \in Project : handle[p] \cap stops = {}
    /\ RecoverInterrupted({})
    /\ stopping' = "no"
    /\ UNCHANGED <<gateVars, callVars, processVars, up, held, resuming, timers,
                   recovery, faults, locationVars>>

-----------------------------------------------------------------------------
(* A change of a Project's location: ProjectApi accepts it, drains the     *)
(* Project (drainProject) and commits it.                                  *)

(* A new change makes the Workflows inactive.  One that was accepted may   *)
(* be sent again, and an archived Project restored.                        *)
BeginLocationChange(p) ==
    /\ Event /\ drain[p] = "none"
    /\ \/ p \notin closed /\ DeactivateProject(p) /\ Disturb
       \/ p \in closed /\ UNCHANGED <<vars, faults>>
    /\ closed' = closed \cup {p}
    /\ drain' = [drain EXCEPT ![p] = "waiting"]
    /\ UNCHANGED <<gateVars, callVars, processVars, modeVars, recovery>>

(* No dispatch of the Project, and no execution that can be stopped.       *)
IsIdle(p) ==
    /\ \A d \in Dispatches : Owner(d) = p => stage[d] = "none"
    /\ \A r \in InProject(p) : control[r] = 0

StopDrained(p) ==
    /\ Event /\ drain[p] = "waiting" /\ IsIdle(p)
    /\ StopRunner(p)
    /\ drain' = [drain EXCEPT ![p] = "stopping"]
    /\ UNCHANGED <<vars, gateVars, callVars, live, control, awaits, replaced, modeVars,
                   recovery, faults, closed>>

(* A recovery that is not over, or a lease that is not released, refuses   *)
(* the change: the Project stays closed until it is sent again.            *)
DrainSettles(p) ==
    /\ up /\ drain[p] = "stopping" /\ handle[p] = {}
    /\ \/ recovery[p] = "healthy" /\ drain' = [drain EXCEPT ![p] = "drained"]
       \/ drain' = [drain EXCEPT ![p] = "none"]
    /\ UNCHANGED <<vars, gateVars, callVars, processVars, modeVars, recovery, faults,
                   closed>>

(* commitLocationChange; an archived Project stays closed.                 *)
CommitLocation(p) ==
    /\ up /\ drain[p] = "drained"
    /\ drain' = [drain EXCEPT ![p] = "none"]
    /\ \/ closed' = closed \ {p} /\ pump' = TRUE
       \/ UNCHANGED <<closed, pump>>
    /\ UNCHANGED <<vars, gateVars, turnVars, stage, callerVars, processVars, modeVars,
                   recovery, faults>>

-----------------------------------------------------------------------------

RequestStep ==
    \/ \E r \in Run : CancelRun(r) \/ \E g \in Graph : Start(r, g)
    \/ \E r \in Run, k \in Gate : Answer(r, k)
    \/ \E p \in Project : RepairProject(p)
    \/ \E w \in Workflow : StopWorkflow(w) \/ ForceStopWorkflow(w)

PumpStep ==
    \/ PumpReserves
    \/ PumpRests
    \/ \E r \in Run : TakeTurn(r) \/ ClaimDispatch(r) \/ PrepareFails(r)
    \/ \E d \in Dispatches : Settle(d) \/ EndDispatch(d)

ProcessStep ==
    \E c \in Claims : \/ StopCurrent(c) \/ Spawn(c) \/ StartFails(c)
                      \/ Attach(c) \/ Attached(c) \/ ConfirmCancelled(c)
                      \/ Finish(c) \/ Break(c) \/ IdleStop(c) \/ StopDone(c)

CommitStep ==
    \E c \in Claims : \/ \E k \in Gate : ApplyWakeup(c, k) \/ CommitSuspension(c, k)
                      \/ \E outcome \in Outcomes : CommitCompletion(c, outcome)
                      \/ CommitRefused(c) \/ FailRun(c) \/ Reconcile(c)

LossStep == \E c \in Claims : RecordLoss(c) \/ JudgeLoss(c) \/ DelayOver(c)

CancellerStep ==
    \E r \in Run : FindControls(r) \/ GiveUp(r) \/ ConfirmStopped(r) \/ Report(r)

Resume(p) == ResumePending(p) \/ ResumeDelayed(p) \/ ResumeAtOnce(p) \/ ResumeHeld(p)

DaemonStep ==
    \/ HoldDispatch \/ ReleaseDispatch
    \/ ForceDrain \/ ForceDrainEnds \/ Shutdown \/ ShutdownEnds \/ Crash \/ Restart
    \/ \E p \in Project : Resume(p) \/ ResumePersisted(p)

LocationStep ==
    \E p \in Project : \/ BeginLocationChange(p) \/ StopDrained(p) \/ DrainSettles(p)
                       \/ CommitLocation(p)

CoordinatorNext ==
    \/ RequestStep \/ PumpStep \/ ProcessStep \/ CommitStep \/ LossStep \/ CancellerStep
    \/ DaemonStep \/ LocationStep

(* What a Daemon that stays up does sooner or later: the statements of a   *)
(* chain go on, and an event that is always there when no chain runs is    *)
(* taken, because the event loop takes them in turn.  A Workflow need not  *)
(* end, and nobody has to answer, repair or cancel.                        *)
AwaitedEvent(kind, d) ==
    \/ kind = "start"  /\ (Attach(d) \/ StartFails(d))
    \/ kind = "abort"  /\ d \in stops /\ Break(d)
    \/ kind = "exit"   /\ StopDone(d)
    \/ kind = "delay"  /\ DelayOver(d)
    \/ kind = "end"    /\ EndDispatch(d)
    \/ kind = "cancel" /\ (FindControls(d[1]) \/ GiveUp(d[1]))
    \/ kind = "resume" /\ ResumePersisted(Owner(d))

ChainStep(c) ==
    \/ \E k \in Gate : ApplyWakeup(c, k) \/ CommitSuspension(c, k)
    \/ \E outcome \in Outcomes : CommitCompletion(c, outcome)
    \/ CommitRefused(c) \/ FailRun(c) \/ Reconcile(c) \/ RecordLoss(c) \/ JudgeLoss(c)
    \/ StopCurrent(c) \/ Spawn(c) \/ Attached(c) \/ ConfirmCancelled(c)

Fairness ==
    /\ \A c \in Claims : WF_coordinatorVars(ChainStep(c))
    /\ \A r \in Run : WF_coordinatorVars(ConfirmStopped(r) \/ Report(r))
    /\ \A d \in Dispatches : WF_coordinatorVars(Settle(d))
    /\ \A kind \in {"start", "abort", "exit", "delay", "end"}, d \in Dispatches :
          \/ []<>(Quiet /\ ~ENABLED <<AwaitedEvent(kind, d)>>_coordinatorVars)
          \/ []<><<AwaitedEvent(kind, d)>>_coordinatorVars
    /\ \A kind \in {"cancel", "resume"}, d \in Run \X {0} :
          \/ []<>(Quiet /\ ~ENABLED <<AwaitedEvent(kind, d)>>_coordinatorVars)
          \/ []<><<AwaitedEvent(kind, d)>>_coordinatorVars
    /\ \A p \in Project : /\ WF_coordinatorVars(Resume(p))
                          /\ WF_coordinatorVars(DrainSettles(p) \/ CommitLocation(p))
    /\ WF_coordinatorVars(Restart) /\ WF_coordinatorVars(ForceDrainEnds)

CoordinatorSpec == CoordinatorInit /\ [][CoordinatorNext]_coordinatorVars /\ Fairness

-----------------------------------------------------------------------------
(* Properties.                                                             *)

CoordinatorTypeOK ==
    /\ {up, pump, held} \subseteq BOOLEAN
    /\ stopping \in {"no", "forced", "shutdown"}
    /\ stage \in [Dispatches -> Stages]
    /\ ahead \in [Run -> SUBSET Run] /\ forgot \subseteq Project
    /\ live \cup stops \cup replaced \subseteq Claims
    /\ handle \in [Project -> SUBSET Claims]
    /\ control \in [Run -> 0 .. MaxGeneration]
    /\ awaits \in [Dispatches -> SUBSET Claims]
    /\ canceller \in [Run -> {"none", "looking", "stopping", "reporting"}]
    /\ targets \in [Run -> SUBSET Run] /\ controls \in [Run -> SUBSET Claims]
    /\ resuming \cup timers \cup closed \subseteq Project
    /\ drain \in [Project -> {"none", "waiting", "stopping", "drained"}]
    /\ recovery \in
          [Project -> {"healthy", "pending", "delayed", "retrying", "held", "uncertain"}]

(* #dispatch and recoverRunnerLoss: what counts against the limits has     *)
(* somebody at work on it while the Daemon is up: a reservation the        *)
(* dispatch that will claim, hold or release it, an executing Run that     *)
(* nobody cancels the dispatch that claimed it or the recovery of its      *)
(* Project.  No combination of losses, crashes and failures leaves such a  *)
(* Run holding its place for ever.                                         *)
TakenPlacesAreAttended ==
    /\ up => \A r \in reserved : Prepares(r)
    /\ up /\ stopping = "no" =>
          \A r \in Run : state[r] = "executing" /\ cancel[r] = "none" =>
             \/ stage[<<r, slot[r]>>] \notin {"none", "reconciling", "ending", "restoring"}
             \/ ProjectOf[r] \in resuming \cup timers

(* #pump: no wake-up is lost.  When a Run can be reserved, the pump is     *)
(* running or a dispatch that is about to end will call it.  The exception *)
(* is a Run that keeps its slot without a dispatch: reserveNext may have   *)
(* stopped at its Project, and what frees the turn, the cancellation of a  *)
(* queued Run for one, does not call #pump.                                *)
WaitingRunsAreNoticed ==
    up /\ ~held /\ stopping = "no" /\ CanReserve =>
        \/ pump
        \/ \E d \in Dispatches : stage[d] # "none"
        \/ \E r \in Slots : cancel[r] # "none" \/ ProjectOf[r] \in timers

(* Runner processes do not leak: one that runs is in the start-up of its   *)
(* dispatch, or is the runner that the supervisor would stop, or was that  *)
(* until the attach of another one overwrote it; an execution that can be  *)
(* cancelled is one that runs; the runner of a Project runs unless its Run *)
(* was cancelled; and when the location of a Project changes, nothing of   *)
(* the Project is at work or about to be, and no process of it runs but an *)
(* overwritten one, though a dispatch prepared, failed or was lost while   *)
(* it drained (drainProject).  A Run whose recovery is still to be         *)
(* resumed, or that a stop of the Daemon left, may count as executing.     *)
ProcessesAreOwned ==
    /\ \A c \in live : \/ stage[c] \in {"starting", "attaching"}
                      \/ c \in handle[Owner(c)] \cup replaced
    /\ \A r \in Run : control[r] # 0 => <<r, control[r]>> \in live
    /\ \A p \in Project : \A c \in handle[p] : c \in live \/ cancel[c[1]] # "none"
    /\ \A p \in Project : drain[p] = "drained" =>
          /\ \A c \in live : Owner(c) = p => c \in replaced
          /\ \A r \in InProject(p) :
                /\ r \notin reserved
                /\ state[r] = "executing" =>
                      cancel[r] # "none" \/ p \in timers \/ stopping # "no"

(* An execution that has its claim and was not cancelled is interrupted    *)
(* only by a Daemon that stops or drains; docs/configuration.md: limit     *)
(* changes do not interrupt or cancel admitted Runs.  The exceptions are a *)
(* second slot in the Project, whose dispatch stops the runner of the      *)
(* first; the consequences of a recovery that a restart resumed late: it   *)
(* takes the claim of a dispatch that still starts, or loses, a runner;    *)
(* and a turn that attach forgot, so that two dispatches prepare at once.  *)
Interrupts(c) ==
    /\ stage[c] = "running" /\ stage'[c] = "running"
    /\ cancel'[c[1]] = "none" /\ slot[c[1]] = c[2]
    /\ c \in stops' \ stops

Dispossessed(d) == stage[d] \in {"claimed", "starting", "lost"} /\ slot[d[1]] # d[2]

RunsAreNotInterrupted ==
    [][\A c \in Claims : Interrupts(c) =>
          \/ stopping' # "no"
          \/ \E r \in Slots : r # c[1] /\ ProjectOf[r] = Owner(c)
          \/ \E d \in Claims : Owner(d) = Owner(c) /\ Dispossessed(d)
          \/ Owner(c) \in forgot]_coordinatorVars

(* cancelAndStop takes effect: once cancelRun stops the execution that it  *)
(* found, the Run leaves the executing state or the fault is on record.    *)
StopTakesEffect ==
    \A r \in Run : canceller[r] = "stopping" /\ cancel[r] = "requested" ~>
        \/ state[r] # "executing"
        \/ cleanup[r] = "fault"
        \/ ~up

(* recoverRunnerLoss comes to an end: the slot of a lost runner is given   *)
(* back, unless the Daemon goes down first.                                *)
LostClaimsAreReleased ==
    \A c \in Claims : stage[c] = "lost" ~> slot[c[1]] # c[2] \/ ~up \/ stopping # "no"

=============================================================================
