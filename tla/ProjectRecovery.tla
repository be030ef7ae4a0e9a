--------------------------- MODULE ProjectRecovery ----------------------------
(***************************************************************************)
(* Recovery of one Project after the loss of a runner: the recovery row    *)
(* (SqliteProjectRecoveryRepository), what the Daemon does between a loss  *)
(* and a replacement (ProjectRecoveryCoordinator.recoverRunnerLoss,        *)
(* TriggerSupervisor's #recoverFailedTriggerRunner) and what a restart     *)
(* makes of it (restore), over the resource leases.                        *)
(*                                                                         *)
(* A Project has one place for a runner (ProjectRunnerSupervisor), which   *)
(* Runs and Trigger groups share; whoever starts a runner stops the one    *)
(* that is there, and for an execution that is a loss.  Once the process   *)
(* group has stopped, the recovery is a chain of transactions that no      *)
(* event interrupts, but a crash of the Daemon can come between two.       *)
(* Left out: Runs and their Claims (Coordinator), and the clock: a delay   *)
(* is over, or not.                                                        *)
(***************************************************************************)
EXTENDS ResourceLease

CONSTANTS
    NoRunner,  \* no runner instance
    Delays,    \* how many replacement delays the settings give
    MaxCycle,  \* bound of the checked instances: recovery cycles
    MaxCrashes \* bound of the checked instances: crashes of the Daemon

ASSUME RecoveryAssumption ==
    NoRunner \notin Runner /\ Delays \in Nat \ {0} /\ MaxCycle \in Nat \ {0} /\ MaxCrashes \in Nat

VARIABLES
    up,      \* a Daemon process runs
    row,     \* project_runner_recovery
    proof,   \* termination proofs of runners, by who confirmed them
    handle,  \* the runner the supervisor owns
    stage,   \* what became of each runner
    cancels, \* forced cancellations whose runner has been killed
    crashes  \* how often the Daemon has crashed

recoveryVars == <<up, row, proof, handle, stage, cancels, crashes>>
allVars      == <<resourceVars, recoveryVars>>

Stages == {"none", "running", "ended", "lost", "recorded", "waiting", "held", "failed", "gone"}

RecoveryTypeOK ==
    /\ ResourceTypeOK
    /\ up \in BOOLEAN
    /\ row \in [cycle : 1 .. MaxCycle, attempts : 0 .. Delays,
                state : {"healthy", "recovering", "held"},
                safety : {"safe", "pending", "uncertain"},
                failing : BOOLEAN, prior : Runner \cup {NoRunner},
                confirmed : BOOLEAN, due : BOOLEAN]
    /\ proof \in [Runner -> {"none", "loss", "cancel"}]
    /\ handle \in Runner \cup {NoRunner}
    /\ stage \in [Runner -> Stages]
    /\ cancels \subseteq Execution
    /\ crashes \in 0 .. MaxCrashes

Healthy == [cycle |-> 1, attempts |-> 0, state |-> "healthy", safety |-> "safe",
            failing |-> FALSE, prior |-> NoRunner, confirmed |-> FALSE, due |-> TRUE]

RecoveryInit ==
    /\ ResourceInit
    /\ up = TRUE
    /\ row = Healthy
    /\ proof = [r \in Runner |-> "none"]
    /\ handle = NoRunner
    /\ stage = [r \in Runner |-> "none"]
    /\ cancels = {}
    /\ crashes = 0

Becoming(r, s) == stage' = [stage EXCEPT ![r] = s]

-----------------------------------------------------------------------------
(* The recovery row.                                                       *)

Failed(r) ==
    [row EXCEPT !.attempts = IF @ < Delays THEN @ + 1 ELSE @,
                !.state = IF row.attempts < Delays THEN "recovering" ELSE "held",
                !.safety = "pending", !.failing = TRUE, !.prior = r,
                !.confirmed = FALSE, !.due = FALSE]

Judged(safe) ==
    IF safe THEN [row EXCEPT !.confirmed = TRUE, !.safety = "safe"]
    ELSE [row EXCEPT !.confirmed = TRUE, !.safety = "uncertain", !.state = "held"]

\* A faulty variant: the safety stays as it was.
FaultyUncertain == [row EXCEPT !.state = "held"]

Uncertain == [row EXCEPT !.safety = "uncertain", !.state = "held"]

\* observeHealthy, with or without enough time since the last failure.
SeenHealthy(succeeded) ==
    IF row.state = "held" \/ row.safety # "safe" THEN {row}
    ELSE LET seen == [row EXCEPT !.failing = @ /\ ~succeeded]
         IN {seen} \cup (IF seen.failing THEN {} ELSE {[Healthy EXCEPT !.cycle = row.cycle]})

Repair ==
    /\ up /\ row.state = "held" /\ row.safety = "safe" /\ row.cycle < MaxCycle
    /\ row' = [row EXCEPT !.cycle = @ + 1, !.attempts = 0, !.state = "recovering", !.due = TRUE]
    /\ UNCHANGED <<resourceVars, up, proof, handle, stage, cancels, crashes>>

DelayEnds ==
    /\ ~row.due /\ row' = [row EXCEPT !.due = TRUE]
    /\ UNCHANGED <<resourceVars, up, proof, handle, stage, cancels, crashes>>

-----------------------------------------------------------------------------
(* Runners come and go.                                                    *)

\* The pump and TriggerSupervisor.ensure ask the same of the row.
MayStart == up /\ row.state # "held" /\ row.safety = "safe" /\ row.due

\* A runner that is stopped in the middle of its work.
Interrupted(s) ==
    IF stage[s] # "running" THEN stage
    ELSE [stage EXCEPT ![s] = IF s \in Execution THEN "lost" ELSE "ended"]

(* Another runner is to take the place: the one there is stopped, which    *)
(* its Run takes for a loss and a Trigger group expects.                   *)
Replace(r) ==
    /\ MayStart /\ stage[r] = "none" /\ handle # NoRunner
    /\ Die(handle)
    /\ stage' = Interrupted(handle)
    /\ handle' = NoRunner
    /\ UNCHANGED <<lease, providerVars, frames, reading, up, row, proof, cancels, crashes>>

Start(r) ==
    /\ MayStart /\ stage[r] = "none" /\ handle = NoRunner
    /\ Spawn(r)
    /\ handle' = r
    /\ Becoming(r, "running")
    /\ UNCHANGED <<up, row, proof, cancels, crashes>>

(* The process ends, or its heartbeat stops and the Daemon destroys the    *)
(* socket: then nothing more is read from a process that still lives.      *)
Lose(r) ==
    /\ up /\ stage[r] = "running" /\ r \in reading \cup (Runner \ Execution)
    /\ Becoming(r, "lost")
    /\ \/ Die(r) /\ UNCHANGED <<frames, reading>>
       \/ /\ reading' = reading \ {r}
          /\ frames' = [x \in Execution |-> IF x = r THEN <<>> ELSE frames[x]]
          /\ UNCHANGED runnerVars
    /\ UNCHANGED <<lease, providerVars, up, row, proof, handle, cancels, crashes>>

(* The runner answers with the result of its Run and is stopped when idle. *)
(* A Daemon that refused one of its mutations fails the Run instead, and   *)
(* so does a scope that was given up.                                      *)
Finish(x) ==
    /\ up /\ stage[x] = "running" /\ x \in Execution /\ x \in alive
    /\ \/ script[x] = <<>> /\ (row' \in SeenHealthy(TRUE) \/ row' = row)
       \/ x \notin reading /\ row' = row
    /\ Drained(x)
    /\ Die(x)
    /\ Becoming(x, "ended")
    /\ handle' = NoRunner
    /\ UNCHANGED <<lease, providerVars, frames, reading, up, proof, cancels, crashes>>

(* A Health reply of the runner in the place.                              *)
Heartbeat ==
    /\ up /\ handle # NoRunner /\ handle \in alive /\ stage[handle] = "running"
    /\ row' \in SeenHealthy(FALSE)
    /\ UNCHANGED <<resourceVars, up, proof, handle, stage, cancels, crashes>>

(* cancelAndStop of a runner that does not answer CancelRun in time.  The  *)
(* process group is killed, and the broken channel also reports a loss.    *)
ForceCancel(x) ==
    /\ up /\ stage[x] = "running" /\ x \in Execution
    /\ Die(x)
    /\ Becoming(x, "lost")
    /\ cancels' = cancels \cup {x}
    /\ handle' = NoRunner
    /\ UNCHANGED <<lease, providerVars, frames, reading, up, row, proof, crashes>>

(* #stopCancelledProject goes on, without waiting for the channel: the     *)
(* termination is proved at its own time, and the leases reconciled.       *)
SettleCancel(x) ==
    /\ up /\ x \in cancels
    /\ cancels' = cancels \ {x}
    /\ \/ /\ proof[x] = "none"
          /\ proof' = [proof EXCEPT ![x] = "cancel"]
          /\ lease' = Reconciled(x)
       \/ proof[x] # "none" /\ UNCHANGED <<proof, lease>>
    /\ UNCHANGED <<providerVars, runnerVars, frames, reading, up, row, handle, stage, crashes>>

-----------------------------------------------------------------------------
(* A loss.                                                                 *)

RecordLoss(r) ==
    /\ up /\ stage[r] = "lost"
    /\ row' = Failed(r)
    /\ Becoming(r, "recorded")
    /\ UNCHANGED <<resourceVars, up, proof, handle, cancels, crashes>>

(* The supervisor stops what has the place: the lost runner, or one that   *)
(* was started meanwhile.                                                  *)
StopLost(r) ==
    /\ up /\ stage[r] = "recorded" /\ (r \in alive \/ (r \in Execution /\ handle # NoRunner))
    /\ LET s == IF r \in alive THEN r ELSE handle
       IN /\ Die(s)
          /\ stage' = Interrupted(s)
          /\ handle' = IF handle = s THEN NoRunner ELSE handle
    /\ UNCHANGED <<lease, providerVars, frames, reading, up, row, proof, cancels, crashes>>

\* The process group has ended and its channel has been read to the end.
Stopped(r) ==
    stage[r] = "recorded" /\ r \notin alive /\ Drained(r) /\ (r \in Execution => handle = NoRunner)

(* The process group can not be killed.                                    *)
StopFails(r) ==
    /\ up /\ stage[r] = "recorded" /\ r \in alive
    /\ row' = IF row.prior = r THEN Uncertain ELSE row
    /\ Becoming(r, IF row.prior = r THEN "held" ELSE "failed")
    /\ UNCHANGED <<resourceVars, up, proof, handle, cancels, crashes>>

\* confirmRunnerTermination: another time for the same runner is refused.
Provable(r) == proof[r] \in {"none", "loss"}

(* Termination, proof, reconciliation and judgement, in one chain.  The    *)
(* row of another loss refuses the first of them and the hold that follows.*)
JudgeLoss(r) ==
    /\ up /\ Stopped(r)
    /\ IF row.prior # r THEN Becoming(r, "failed") /\ UNCHANGED <<row, proof, lease>>
       ELSE /\ IF Provable(r)
               THEN /\ proof' = [proof EXCEPT ![r] = "loss"]
                    /\ lease' = Reconciled(r)
                    /\ row' = Judged(AllReleased(lease', r))
               ELSE row' = Judged(FALSE) /\ UNCHANGED <<proof, lease>>
            /\ Becoming(r, IF row'.state = "held" THEN "held" ELSE "waiting")
    /\ UNCHANGED <<providerVars, runnerVars, frames, reading, up, handle, cancels, crashes>>

(* The delay is over: the Run recovers, or the Triggers poll again, if the *)
(* row lets them.                                                          *)
Recovered(r) ==
    /\ up /\ stage[r] = "waiting" /\ (row.prior = r => row.due)
    /\ Becoming(r, "ended")
    /\ UNCHANGED <<resourceVars, up, row, proof, handle, cancels, crashes>>

-----------------------------------------------------------------------------
(* A crash of the Daemon, and its restart.                                 *)

(* Every runner ends with its socket; what the Daemon has not read is lost.*)
Down ==
    /\ crashes < MaxCrashes /\ crashes' = crashes + 1
    /\ up' = FALSE
    /\ alive' = {} /\ reading' = {} /\ replied' = {} /\ cancels' = {}
    /\ script' = [x \in Execution |-> <<>>]
    /\ frames' = [x \in Execution |-> <<>>]
    /\ tries' = [x \in Execution |-> 0]
    /\ handle' = NoRunner
    /\ stage' = [r \in Runner |-> IF stage[r] = "none" THEN "none" ELSE "gone"]

\* The transactions of the chain a crash leaves behind it.
Begun(r) ==
    \/ UNCHANGED <<proof, lease>>
    \/ Provable(r) /\ proof' = [proof EXCEPT ![r] = "loss"] /\ lease' \in {lease, Reconciled(r)}

Crash ==
    /\ up
    /\ \/ UNCHANGED <<row, proof, lease>>
       \/ \E r \in Runner :
             /\ Stopped(r) /\ row.prior = r
             /\ row' = [row EXCEPT !.confirmed = TRUE]
             /\ Begun(r)
    /\ Down
    /\ UNCHANGED providerVars

(* restore: a recovery that waits for its judgement gets it now, if the    *)
(* end of the runner was confirmed before.  The Daemon can crash within.   *)
Restore ==
    /\ ~up
    /\ \/ /\ up' = TRUE
          /\ IF row.safety # "pending" THEN UNCHANGED <<row, proof, lease>>
             ELSE IF row.confirmed /\ Provable(row.prior)
             THEN /\ proof' = [proof EXCEPT ![row.prior] = "loss"]
                  /\ lease' = Reconciled(row.prior)
                  /\ row' = Judged(AllReleased(lease', row.prior))
             ELSE row' = Uncertain /\ UNCHANGED <<proof, lease>>
          /\ UNCHANGED crashes
       \/ /\ row.safety = "pending" /\ row.confirmed /\ Begun(row.prior)
          /\ crashes < MaxCrashes /\ crashes' = crashes + 1
          /\ UNCHANGED <<up, row>>
    /\ UNCHANGED <<providerVars, runnerVars, frames, reading, handle, stage, cancels>>

-----------------------------------------------------------------------------
Channel(x) == (RunnerStep(x) \/ AgentWrites(x) \/ Handle(x)) /\ UNCHANGED recoveryVars

LossStep(r) == RecordLoss(r) \/ StopLost(r) \/ JudgeLoss(r) \/ Recovered(r)

RecoveryNext ==
    \/ \E x \in Execution : Channel(x) \/ Finish(x) \/ ForceCancel(x) \/ SettleCancel(x)
    \/ \E r \in Runner : Replace(r) \/ Start(r) \/ Lose(r) \/ LossStep(r) \/ StopFails(r)
    \/ Repair \/ DelayEnds \/ Heartbeat
    \/ Crash \/ Restore

(* The event loop comes to every callback, and a handled frame to the next.*)
RecoveryFairness ==
    /\ \A r \in Runner : WF_allVars(LossStep(r))
    /\ \A x \in Execution : WF_allVars(Handle(x) /\ UNCHANGED recoveryVars)

RecoverySpec == RecoveryInit /\ [][RecoveryNext]_allVars /\ RecoveryFairness

-----------------------------------------------------------------------------
(* Properties.                                                             *)

(* Whatever a runner leaves behind has a lease that says so: a container,  *)
(* and a worktree that holds nothing new, exist only with a lease that was *)
(* begun and is not released (the order of sandboxed, acquireSandbox and   *)
(* its release, under lost replies, kills and reconciliation).             *)
ResourcesAreTracked ==
    \A x \in Execution :
        /\ x \in box => lease[<<x, "sandbox">>] \notin {"none", "released"}
        /\ tree[x] = "clean" => lease[<<x, "worktree">>] \notin {"none", "released"}
        /\ tree[x] # "absent" => lease[<<x, "worktree">>] # "none"

(* A recovery judged safe has nothing of the failed runner left: no        *)
(* process, no mutation still to be read, no lease that is not released    *)
(* (recoverRunnerLoss, restore).                                           *)
SafeIsReconciled ==
    row.safety = "safe" /\ row.prior # NoRunner
        => /\ row.prior \notin alive /\ Drained(row.prior)
           /\ proof[row.prior] # "none"
           /\ AllReleased(lease, row.prior)

(* A recovery does not stay undecided: while the Daemon lives, each loss   *)
(* is judged safe or uncertain (recoverRunnerLoss, also when a second loss *)
(* overtakes the first).                                                   *)
LossesAreJudged == row.safety = "pending" ~> (row.safety # "pending" \/ ~up)

=============================================================================
