--------------------------- MODULE WorkflowRuntime --------------------------
(***************************************************************************)
(* The execution of a Workflow: the engine in the runner process, the      *)
(* dispatch in the Daemon that drives it, and the three repositories.      *)
(*                                                                         *)
(* A Workflow is a sequence of steps, Program.  Each claim starts it from  *)
(* its first step; a step with a recorded result is not performed again,   *)
(* its result is taken.  The kinds of step are the ways the engine treats  *)
(* an activity: "phase", an ordinary activity; "action", an activity with  *)
(* a recovery policy (code and agent Phases); "request", the activity that *)
(* asks a Gate, and "await", the Verdict or the expiry of that Asking.     *)
(*                                                                         *)
(* A runner process may outlive its Daemon and its claim for a while: it   *)
(* stops when it finds its connection closed, and what it had begun it may *)
(* finish.  A frame and the transaction it asks for are one step: a reply  *)
(* that is lost is a runner that stops right after the step.               *)
(*                                                                         *)
(* Left out: lanes that run at once, the values of results (that the body  *)
(* of a Workflow fails is a choice at any of its steps), compensation,     *)
(* resources, trace, cancellation and what fails before the claim (both in *)
(* Coordinator), and attempts beyond the first.                            *)
(* Whether a recovery succeeds is a choice (ProjectRecovery has it).       *)
(***************************************************************************)
EXTENDS GateStore, ActionStore, Sequences

CONSTANT Program

Last == Len(Program)
Steps == 1 .. Last

(* A Phase that performs an external action performs that one only.        *)
ASSUME ProgramAssumption ==
    /\ Last \in Nat
    /\ \A i \in Steps :
          LET s == Program[i] IN
          /\ s.kind \in {"phase", "action", "request", "await"}
          /\ s.kind # "await" => s.phase \in Phase
          /\ s.kind = "action" => s.name \in Action /\ PhaseOf[s.name] = s.phase
          /\ s.kind \in {"request", "await"} => s.name \in Gate
    /\ \A i, j \in Steps :
          /\ Program[i].kind = "action" /\ Program[j].kind # "await"
          /\ Program[i].phase = Program[j].phase
          => Program[i] = Program[j]

VARIABLES
    up,         \* a Daemon process exists
    restoring,  \* Projects whose recovery row restore() has still to look at
    resuming,   \* Projects whose persisted recovery goes on after a restart
    dispatch,   \* memory of the Daemon: the dispatch of each Run
    runner,     \* the execution of each claim in its runner process
    recovery,   \* what the Project's recovery row says about dispatching
    performed,  \* history: how often each external action was performed
    authorised  \* history: how often a retry of it was authorised

daemonVars == <<up, restoring, resuming>>
historyVars == <<performed, authorised>>
runtimeVars == <<daemonVars, dispatch, runner, recovery, historyVars>>

Idle == [stage |-> "idle", of |-> 0, outcome |-> "none", applying |-> {}, asked |-> {},
         open |-> FALSE]
NoRunner == [mode |-> "none", at |-> 0, known |-> {}, answers |-> {}, asked |-> {}]

RuntimeInit ==
    /\ Init /\ GateInit /\ ActionInit
    /\ up = TRUE /\ restoring = {} /\ resuming = {}
    /\ dispatch = [r \in Run |-> Idle]
    /\ runner = [r \in Run |-> [g \in Generations |-> NoRunner]]
    /\ recovery = [p \in Project |-> "healthy"]
    /\ performed = [r \in Run |-> [a \in Action |-> 0]]
    /\ authorised = [r \in Run |-> [a \in Action |-> 0]]

SetStage(r, stage) == dispatch' = [dispatch EXCEPT ![r].stage = stage]
EndDispatch(r) == dispatch' = [dispatch EXCEPT ![r] = Idle]

Alive(r, g) == runner[r][g].mode # "none"
Connected(r, g) == up /\ dispatch[r].stage = "executing" /\ dispatch[r].of = g

Standing(r, g) == Program[runner[r][g].at]
Recorded(r, g) == Standing(r, g).phase \in runner[r][g].known

-----------------------------------------------------------------------------
(* The dispatch begins.                                                    *)

StartWorkflow(r, graphId) ==
    /\ AdmitAndActivate(r, graphId)
    /\ UNCHANGED <<gateVars, action, runtimeVars>>

PumpReserves ==
    /\ up /\ restoring = {}
    /\ ReserveNext({p \in Project : recovery[p] # "healthy"})
    /\ UNCHANGED <<gateVars, action, runtimeVars>>

(* The claim; then #execute reads the recorded results, the wake-ups that  *)
(* are due and the answers, and the runner starts the Workflow with them.  *)
StartExecution(r) ==
    /\ up
    /\ dispatch[r] = Idle
    /\ ClaimReserved(r)
    /\ LET g == generation'[r] IN
        /\ dispatch' = [dispatch EXCEPT ![r] =
               [Idle EXCEPT !.stage = "executing", !.of = g,
                            !.applying = {k \in Gate : wakeup[r][k] = "pending"}]]
        /\ runner' = [runner EXCEPT ![r][g] =
               [mode |-> "running", at |-> 1,
                known |-> {f \in Phase : result[r][f] # 0},
                answers |-> {k \in Gate : wakeup[r][k] # "none"}, asked |-> {}]]
    /\ UNCHANGED <<gateVars, action, daemonVars, recovery, historyVars>>

-----------------------------------------------------------------------------
(* The engine.                                                             *)

(* A recorded result is taken; an answered Gate lets the Workflow pass.    *)
Replay(r, g) ==
    /\ runner[r][g].mode = "running"
    /\ runner[r][g].at \in Steps
    /\ IF Standing(r, g).kind = "await"
       THEN Standing(r, g).name \in runner[r][g].answers
       ELSE Recorded(r, g)
    /\ runner' = [runner EXCEPT ![r][g].at = @ + 1]
    /\ UNCHANGED <<vars, gateVars, action, daemonVars, dispatch, recovery, historyVars>>

(* An activity with a recovery policy asks for permission.  Told to hold,  *)
(* the engine dies.                                                        *)
Begin(r, g) ==
    /\ Connected(r, g)
    /\ runner[r][g].mode = "running"
    /\ runner[r][g].at \in Steps
    /\ Standing(r, g).kind = "action" /\ ~Recorded(r, g)
    /\ BeginAction(r, g, Standing(r, g).name)
    /\ runner' = [runner EXCEPT ![r][g].mode =
                    IF action'[r][Standing(r, g).name] = "intended"
                    THEN "permitted" ELSE "dying"]
    /\ UNCHANGED <<gateVars, daemonVars, dispatch, recovery, historyVars>>

(* A Gate is requested: the Asking is kept in the runner's memory.         *)
Ask(r, g) ==
    runner' = [runner EXCEPT ![r][g].mode = "performed",
                             ![r][g].asked = @ \cup {Standing(r, g).name}]

(* The activity itself.  It needs no Daemon.                               *)
Perform(r, g) ==
    /\ runner[r][g].mode \in {"running", "permitted"}
    /\ runner[r][g].at \in Steps
    /\ LET s == Standing(r, g) IN
        \/ /\ s.kind = "phase" /\ ~Recorded(r, g)
           /\ runner' = [runner EXCEPT ![r][g].mode = "performed"]
           /\ UNCHANGED performed
        \/ /\ s.kind = "request" /\ ~Recorded(r, g)
           /\ Ask(r, g)
           /\ UNCHANGED performed
        \/ /\ s.kind = "action" /\ runner[r][g].mode = "permitted"
           /\ runner' = [runner EXCEPT ![r][g].mode = "performed"]
           /\ performed' = [performed EXCEPT ![r][s.name] = @ + 1]
    /\ UNCHANGED <<vars, gateVars, action, daemonVars, dispatch, recovery, authorised>>

FaultyCommit(r, g) ==
    /\ Alive(r, g)
    /\ runner[r][g].mode = "performed"
    /\ runner' = [runner EXCEPT ![r][g].mode = "running", ![r][g].at = @ + 1,
                                ![r][g].known = @ \cup {Standing(r, g).phase}]
    /\ UNCHANGED <<vars, gateVars, action, daemonVars, dispatch, recovery, historyVars>>

(* The Workflow goes on when its result is durable.                        *)
Commit(r, g) ==
    /\ Connected(r, g)
    /\ runner[r][g].mode = "performed"
    /\ LET s == Standing(r, g) IN
        /\ \/ s.kind = "action" /\ ConfirmResult(r, g, s.name)
           \/ s.kind # "action" /\ CompletePhase(r, g, s.phase) /\ UNCHANGED action
        /\ runner' = [runner EXCEPT ![r][g].mode = "running", ![r][g].at = @ + 1,
                                    ![r][g].known = @ \cup {s.phase}]
    /\ UNCHANGED <<gateVars, daemonVars, dispatch, recovery, historyVars>>

(* How an execution ends: suspended at a Gate without an answer, at the    *)
(* end of the body, or failed there or by the engine's own death.          *)
Outcome(r, g) ==
    LET x == runner[r][g] IN
    IF x.mode = "dying" THEN {"failed"}
    ELSE IF x.mode # "running" THEN {}
    ELSE IF x.at > Last THEN {"succeeded", "failed"}
    ELSE IF Program[x.at].kind = "await" /\ Program[x.at].name \notin x.answers
         THEN {"suspended"}
    ELSE {}

Return(r, g) ==
    /\ Connected(r, g)
    /\ \E outcome \in Outcome(r, g) :
          dispatch' = [dispatch EXCEPT ![r].stage = "returned", ![r].outcome = outcome,
                                       ![r].asked = runner[r][g].asked]
    /\ runner' = [runner EXCEPT ![r][g] = NoRunner]
    /\ UNCHANGED <<vars, gateVars, action, daemonVars, recovery, historyVars>>

-----------------------------------------------------------------------------
(* The dispatch goes on with what the runner returned.                     *)

ApplyWakeup(r) ==
    /\ up /\ dispatch[r].stage = "returned"
    /\ \E k \in dispatch[r].applying :
          /\ MarkApplied(r, dispatch[r].of, k)
          /\ dispatch' = [dispatch EXCEPT ![r].applying = @ \ {k}]
    /\ UNCHANGED <<action, daemonVars, runner, recovery, historyVars>>

FaultyCommitOutcome(r) ==
    /\ up /\ dispatch[r].stage = "returned"
    /\ \/ /\ dispatch[r].outcome = "suspended"
          /\ \E k \in dispatch[r].asked : CreateAskingAndSuspend(r, dispatch[r].of, k)
       \/ /\ dispatch[r].outcome # "suspended"
          /\ CompleteRun(r, dispatch[r].of, dispatch[r].outcome)
          /\ UNCHANGED gateVars
    /\ EndDispatch(r)
    /\ UNCHANGED <<action, daemonVars, runner, recovery, historyVars>>

CommitOutcome(r) ==
    /\ up /\ dispatch[r].stage = "returned" /\ dispatch[r].applying = {}
    /\ \/ /\ dispatch[r].outcome = "suspended"
          /\ \E k \in dispatch[r].asked : CreateAskingAndSuspend(r, dispatch[r].of, k)
       \/ /\ dispatch[r].outcome # "suspended"
          /\ CompleteRun(r, dispatch[r].of, dispatch[r].outcome)
          /\ UNCHANGED gateVars
    /\ EndDispatch(r)
    /\ UNCHANGED <<action, daemonVars, runner, recovery, historyVars>>

(* A transaction is refused, because the claim is gone, or the runner is   *)
(* suspended at an Asking that it made in an earlier execution and that    *)
(* was lost with it.                                                       *)
OutcomeRefused(r) ==
    /\ up /\ dispatch[r].stage = "returned"
    /\ \/ ~Authorised(r, dispatch[r].of)
       \/ dispatch[r].applying = {} /\ dispatch[r].outcome = "suspended" /\ dispatch[r].asked = {}
    /\ SetStage(r, "failing")
    /\ UNCHANGED <<vars, gateVars, action, daemonVars, runner, recovery, historyVars>>

(* The runner reports a Fault, or a mutation of it is refused: the runner  *)
(* is stopped and the dispatch fails.                                      *)
Fault(r) ==
    /\ up /\ dispatch[r].stage = "executing"
    /\ runner' = [runner EXCEPT ![r][dispatch[r].of] = NoRunner]
    /\ SetStage(r, "failing")
    /\ UNCHANGED <<vars, gateVars, action, daemonVars, recovery, historyVars>>

(* A dispatch that failed completes its Run as failed, if it still can;    *)
(* then the Verdicts that no Run will apply are recorded as such.          *)
FailRun(r) ==
    /\ up /\ dispatch[r].stage = "failing"
    /\ \/ CompleteRun(r, dispatch[r].of, "failed")
       \/ ~Authorised(r, dispatch[r].of) /\ UNCHANGED vars
    /\ SetStage(r, "reconciling")
    /\ UNCHANGED <<gateVars, action, daemonVars, runner, recovery, historyVars>>

Reconcile(r) ==
    /\ up /\ dispatch[r].stage = "reconciling"
    /\ ReconcileTerminalInabilities
    /\ EndDispatch(r)
    /\ UNCHANGED <<action, daemonVars, runner, recovery, historyVars>>

-----------------------------------------------------------------------------
(* The runner is lost and recovered.                                       *)

Lose(r) ==
    /\ up /\ dispatch[r].stage = "executing"
    /\ SetStage(r, "lost")
    /\ UNCHANGED <<vars, gateVars, action, daemonVars, runner, recovery, historyVars>>

(* The transport stops the runner before it reports the loss.  A stop that *)
(* fails is only found out by the recovery.                                *)
StopLost(r) ==
    /\ up /\ dispatch[r].stage = "lost"
    /\ \/ runner' = [runner EXCEPT ![r][dispatch[r].of] = NoRunner]
       \/ UNCHANGED runner
    /\ SetStage(r, "holding")
    /\ UNCHANGED <<vars, gateVars, action, daemonVars, recovery, historyVars>>

HoldLost(r) ==
    LET open == \E a \in Action : action[r][a] = "intended" IN
    /\ up /\ dispatch[r].stage = "holding"
    /\ \/ HoldOpen(r)
       \/ ~open /\ UNCHANGED <<vars, action>>
    /\ dispatch' = [dispatch EXCEPT ![r].stage = "recording", ![r].open = open]
    /\ UNCHANGED <<gateVars, daemonVars, runner, recovery, historyVars>>

RecordLoss(r) ==
    /\ up /\ dispatch[r].stage = "recording"
    /\ recovery' = [recovery EXCEPT ![ProjectOf[r]] = "pending"]
    /\ SetStage(r, "judging")
    /\ UNCHANGED <<vars, gateVars, action, daemonVars, runner, historyVars>>

(* Safe to replace, out of attempts, or uncertain; a runner that did not   *)
(* stop is uncertain.  What is not safe is held.                           *)
Judge(r) ==
    /\ up /\ dispatch[r].stage = "judging"
    /\ \/ ~Alive(r, dispatch[r].of) /\ SetStage(r, "releasing") /\ UNCHANGED recovery
       \/ \E row \in {"held", "uncertain"} :
             /\ row = "held" => ~Alive(r, dispatch[r].of)
             /\ recovery' = [recovery EXCEPT ![ProjectOf[r]] = row]
             /\ SetStage(r, "parking")
    /\ UNCHANGED <<vars, gateVars, action, daemonVars, runner, historyVars>>

Park(r) ==
    /\ up /\ dispatch[r].stage = "parking"
    /\ HoldAfterRestart(ProjectOf[r])
    /\ EndDispatch(r)
    /\ UNCHANGED <<gateVars, action, daemonVars, runner, recovery, historyVars>>

(* After its delay the recovery gives the claim back.  Each of the two     *)
(* transactions may find nothing that it could release.                    *)
Release(r) ==
    LET g == dispatch[r].of IN
    /\ up /\ dispatch[r].stage = "releasing"
    /\ \/ dispatch[r].open /\ SettleAfterRunnerTermination(r, g)
       \/ ~dispatch[r].open /\ RecoverRunnerFailure(r, g) /\ UNCHANGED action
       \/ /\ IF dispatch[r].open
             THEN \A a \in Action : action[r][a] \notin {"unresolved", "repetition-safe"}
             ELSE ~Authorised(r, g)
          /\ UNCHANGED <<vars, action>>
    /\ EndDispatch(r)
    /\ recovery' = [recovery EXCEPT ![ProjectOf[r]] = "healthy"]
    /\ UNCHANGED <<gateVars, daemonVars, runner, historyVars>>

RepairProject(p) ==
    /\ up /\ recovery[p] = "held"
    /\ recovery' = [recovery EXCEPT ![p] = "healthy"]
    /\ RepairHolds(p)
    /\ UNCHANGED <<gateVars, action, daemonVars, dispatch, runner, historyVars>>

-----------------------------------------------------------------------------
(* The Daemon goes down and starts again.                                  *)

Crash ==
    /\ up
    /\ up' = FALSE /\ restoring' = {} /\ resuming' = {}
    /\ dispatch' = [r \in Run |-> Idle]
    /\ UNCHANGED <<vars, gateVars, action, runner, recovery, historyVars>>

(* A runner that nobody is connected to stops.                             *)
RunnerEnds(r, g) ==
    /\ Alive(r, g)
    /\ dispatch[r].of # g
    /\ runner' = [runner EXCEPT ![r][g] = NoRunner]
    /\ UNCHANGED <<vars, gateVars, action, daemonVars, dispatch, recovery, historyVars>>

Restart ==
    /\ ~up
    /\ up' = TRUE
    /\ restoring' = {p \in Project : recovery[p] # "healthy"}
    /\ RecoverInterrupted(restoring')
    /\ UNCHANGED <<gateVars, action, resuming, dispatch, runner, recovery, historyVars>>

(* A recovery that was under way goes on, when the end of the runner is on *)
(* record, or is uncertain; what is held stays held.                       *)
RestoreRecovery(p) ==
    /\ up /\ p \in restoring
    /\ restoring' = restoring \ {p}
    /\ \/ /\ recovery[p] = "pending"
          /\ \A r \in InProject(p) : claim[r] # 0 => ~Alive(r, claim[r])
          /\ resuming' = resuming \cup {p}
          /\ UNCHANGED <<vars, recovery>>
       \/ /\ recovery' = [recovery EXCEPT ![p] = IF @ = "pending" THEN "uncertain" ELSE @]
          /\ HoldAfterRestart(p)
          /\ UNCHANGED resuming
    /\ UNCHANGED <<up, gateVars, action, dispatch, runner, historyVars>>

(* awaitingRunnerTermination                                               *)
AwaitsTermination(r) ==
    claim[r] # 0 /\ \E a \in Action : action[r][a] \in {"unresolved", "repetition-safe"}

ResumeSettles(r) ==
    /\ up /\ ProjectOf[r] \in resuming
    /\ AwaitsTermination(r)
    /\ SettleAfterRunnerTermination(r, claim[r])
    /\ UNCHANGED <<gateVars, runtimeVars>>

ResumeRecovers(p) ==
    /\ up /\ p \in resuming
    /\ \A r \in InProject(p) : ~AwaitsTermination(r)
    /\ RecoverAfterRestart(p)
    /\ resuming' = resuming \ {p}
    /\ recovery' = [recovery EXCEPT ![p] = "healthy"]
    /\ UNCHANGED <<up, restoring, gateVars, action, dispatch, runner, historyVars>>

-----------------------------------------------------------------------------
(* People and the clock.                                                   *)

Authorise(r, a) ==
    /\ up
    /\ AuthorizeRetry(r, a)
    /\ authorised' = [authorised EXCEPT ![r][a] = @ + 1]
    /\ UNCHANGED <<gateVars, daemonVars, dispatch, runner, recovery, performed>>

Answer(r, k) ==
    /\ \/ up /\ RecordVerdict(r, k)
       \/ up /\ Expire(r, k)
       \/ DeadlinePasses(r, k)
    /\ UNCHANGED <<action, runtimeVars>>

RunnerSteps(r, g) == Replay(r, g) \/ Begin(r, g) \/ Perform(r, g) \/ Commit(r, g) \/ Return(r, g)

DispatchSteps(r) ==
    \/ StartExecution(r) \/ ApplyWakeup(r) \/ CommitOutcome(r) \/ OutcomeRefused(r)
    \/ Fault(r) \/ FailRun(r) \/ Reconcile(r)

RecoverySteps(r) ==
    \/ Lose(r) \/ StopLost(r) \/ HoldLost(r) \/ RecordLoss(r) \/ Judge(r) \/ Park(r)
    \/ Release(r) \/ ResumeSettles(r)

RuntimeNext ==
    \/ PumpReserves \/ Crash \/ Restart
    \/ \E r \in Run :
          \/ \E n \in Graph : StartWorkflow(r, n)
          \/ \E g \in Generations : RunnerSteps(r, g) \/ RunnerEnds(r, g)
          \/ DispatchSteps(r) \/ RecoverySteps(r)
          \/ \E a \in Action : Authorise(r, a)
          \/ \E k \in Gate : Answer(r, k)
    \/ \E p \in Project : RepairProject(p) \/ RestoreRecovery(p) \/ ResumeRecovers(p)

RuntimeSpec == RuntimeInit /\ [][RuntimeNext]_<<vars, gateVars, action, runtimeVars>>

-----------------------------------------------------------------------------
(* Properties.                                                             *)

(* An effect outside Kojo that is not declared safe to repeat happens at   *)
(* most once, and once more for each retry that somebody authorised: over  *)
(* any number of claims, with results lost after the effect, runners that  *)
(* go on after their claim or their Daemon is gone, and crashes between    *)
(* the intent, the effect and its result.                                  *)
ActionsAreNotRepeated ==
    \A r \in Run : \A a \in Action \ SafeAction : performed[r][a] <= 1 + authorised[r][a]

(* What a step left behind: its result; for an action the confirmation as  *)
(* well; for a Gate its Verdict or its expiry.                             *)
Durable(r, i) ==
    LET s == Program[i] IN
    /\ s.kind # "await" => result[r][s.phase] # 0
    /\ s.kind = "action" => action[r][s.name] = "result-confirmed"
    /\ s.kind = "await" => asking[r][s.name] \in {"recorded", "applied", "expired"}

(* A runner performs a step, or is permitted to, only when the outcome of  *)
(* every earlier step is durable: a replay after any crash finds all that  *)
(* the step was based on, and no step runs past a Gate nobody answered.    *)
StepsFollowDurableResults ==
    \A r \in Run, g \in Generations :
        runner[r][g].mode \in {"permitted", "performed"} =>
            \A i \in 1 .. runner[r][g].at - 1 : Durable(r, i)

(* A Run is reported as succeeded only with every step's outcome durable,  *)
(* every action performed, and every Verdict acknowledged to its Asking.   *)
SucceededRunsAreComplete ==
    \A r \in Run : state[r] = "succeeded" =>
        /\ \A i \in Steps : Durable(r, i)
        /\ \A i \in Steps : Program[i].kind = "action" => performed[r][Program[i].name] >= 1
        /\ \A i \in Steps : Program[i].kind = "await" => wakeup[r][Program[i].name] = "applied"
=============================================================================
