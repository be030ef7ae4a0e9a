------------------------------ MODULE GateStore -----------------------------
(***************************************************************************)
(* The Askings of a Run and their wake-ups: SqliteDaemonGateRepository.    *)
(* It writes workflow_runs, workflow_queue, workflow_slots and             *)
(* workflow_claims itself, so its transactions are steps of the Run store. *)
(*                                                                         *)
(* An Asking is named by its Run and its identity within the Run (Gate     *)
(* path, asking number and escalation stage), a member of Gate.  Tokens    *)
(* are one to one with Askings, an Asking has at most one wake-up (its     *)
(* Verdict's or its expiry's), and the content of a Verdict is not told    *)
(* apart.  Time is kept as the fact that a Deadline has passed.            *)
(***************************************************************************)
EXTENDS RunStore

CONSTANT Gate

VARIABLES
    asking,    \* gate_askings.state, or "none"
    wakeup,    \* workflow_wakeups.state, or "none"
    inability, \* gate_askings.terminal_inability is set
    due        \* the clock has reached gate_askings.deadline

gateVars == <<asking, wakeup, inability, due>>

GateInit ==
    /\ asking = [r \in Run |-> [k \in Gate |-> "none"]]
    /\ wakeup = [r \in Run |-> [k \in Gate |-> "none"]]
    /\ inability = [r \in Run |-> [k \in Gate |-> FALSE]]
    /\ due = [r \in Run |-> [k \in Gate |-> FALSE]]

(* An Asking of the same identity is a conflict, for its token is fresh.   *)
CreateAskingAndSuspend(r, g, k) ==
    /\ Authorised(r, g)
    /\ asking[r][k] = "none"
    /\ asking' = [asking EXCEPT ![r][k] = "unanswered"]
    /\ state' = [state EXCEPT ![r] = "suspended"]
    /\ ReleaseSlot({r}) /\ ReleaseClaim({r})
    /\ UNCHANGED <<wakeup, inability, due, pinnedVars, queue, reserved, schedulerVars,
                   generation, result, hold, cancelVars, activityVars, limitVars>>

(* Nothing reads the Deadline of an Asking that is answered or expired.    *)
DeadlinePasses(r, k) ==
    /\ asking[r][k] = "unanswered"
    /\ due' = [due EXCEPT ![r][k] = TRUE]
    /\ UNCHANGED <<asking, wakeup, inability, vars>>

FaultySchedule(r, k) ==
    /\ wakeup' = [wakeup EXCEPT ![r][k] = IF @ = "none" THEN "pending" ELSE @]
    /\ queue' = [queue EXCEPT ![r] = IF @ = "none" THEN "new" ELSE @]
    /\ UNCHANGED state

(* #schedule with #queue: the queue row is written whatever the Run's      *)
(* state, and with the default queue_kind, 'new'.                          *)
Schedule(r, k) ==
    /\ wakeup' = [wakeup EXCEPT ![r][k] = IF @ = "none" THEN "pending" ELSE @]
    /\ state' = [state EXCEPT ![r] = IF @ = "suspended" THEN "queued" ELSE @]
    /\ queue' = [queue EXCEPT ![r] = IF @ = "none" THEN "new" ELSE @]

(* recordVerdictAndSchedule before the Deadline.                           *)
RecordVerdict(r, k) ==
    /\ asking[r][k] = "unanswered"
    /\ ~due[r][k]
    /\ asking' = [asking EXCEPT ![r][k] = "recorded"]
    /\ \/ /\ state[r] \notin {"failed", "cancelled"}
          /\ Schedule(r, k)
          /\ UNCHANGED inability
       \/ /\ state[r] \in {"failed", "cancelled"}
          /\ inability' = [inability EXCEPT ![r][k] = TRUE]
          /\ UNCHANGED <<wakeup, state, queue>>
    /\ UNCHANGED <<due, pinnedVars, reserved, schedulerVars, claimVars, result, hold,
                   cancelVars, activityVars, limitVars>>

(* expireAndSchedule, and a Verdict that comes after the Deadline.         *)
Expire(r, k) ==
    /\ asking[r][k] = "unanswered"
    /\ due[r][k]
    /\ asking' = [asking EXCEPT ![r][k] = "expired"]
    /\ Schedule(r, k)
    /\ UNCHANGED <<inability, due, pinnedVars, reserved, schedulerVars, claimVars, result,
                   hold, cancelVars, activityVars, limitVars>>

MarkApplied(r, g, k) ==
    /\ Authorised(r, g)
    /\ wakeup[r][k] = "pending"
    /\ wakeup' = [wakeup EXCEPT ![r][k] = "applied"]
    /\ asking' = [asking EXCEPT ![r][k] = IF @ = "expired" THEN @ ELSE "applied"]
    /\ UNCHANGED <<inability, due, vars>>

FaultyReconcileTerminalInabilities ==
    LET lost == {r \in Run : state[r] \in {"failed", "cancelled"}} IN
    /\ wakeup' = [r \in Run |-> [k \in Gate |->
                        IF r \in lost /\ wakeup[r][k] = "pending"
                        THEN "none" ELSE wakeup[r][k]]]
    /\ UNCHANGED <<asking, inability, due, vars>>

(* A Verdict recorded for a Run that has failed or was cancelled since can *)
(* no longer be applied.                                                   *)
ReconcileTerminalInabilities ==
    LET lost == {r \in Run : state[r] \in {"failed", "cancelled"}} IN
    /\ inability' = [r \in Run |-> [k \in Gate |->
                        inability[r][k] \/ (r \in lost /\ asking[r][k] = "recorded")]]
    /\ wakeup' = [r \in Run |-> [k \in Gate |->
                        IF inability'[r][k] /\ wakeup[r][k] = "pending"
                        THEN "none" ELSE wakeup[r][k]]]
    /\ UNCHANGED <<asking, due, vars>>

GateStep ==
    \/ \E r \in Run, k \in Gate :
          \/ \E g \in Generations : CreateAskingAndSuspend(r, g, k) \/ MarkApplied(r, g, k)
          \/ DeadlinePasses(r, k)
          \/ RecordVerdict(r, k)
          \/ Expire(r, k)
    \/ ReconcileTerminalInabilities

GateNext ==
    \/ Next /\ UNCHANGED gateVars
    \/ GateStep

GateSpec == Init /\ GateInit /\ [][GateNext]_<<vars, gateVars>>

-----------------------------------------------------------------------------
(* Properties.                                                             *)

GateTypeOK ==
    /\ asking \in [Run -> [Gate -> {"none", "unanswered", "recorded", "applied", "expired"}]]
    /\ wakeup \in [Run -> [Gate -> {"none", "pending", "applied"}]]
    /\ inability \in [Run -> [Gate -> BOOLEAN]]
    /\ due \in [Run -> [Gate -> BOOLEAN]]

(* No wake-up is lost: a suspended Run waits for exactly one Asking that   *)
(* is still unanswered; a Verdict or an expiry, in whatever order they     *)
(* come, takes the Run back to the queue.                                  *)
SuspendedRunsWaitForOneAsking ==
    \A r \in Run : state[r] = "suspended" =>
        \E k \in Gate : \A j \in Gate : asking[r][j] = "unanswered" <=> j = k

(* An unanswered Asking belongs to a Run that is suspended, or was         *)
(* cancelled and can not be repaired back to work: no Run goes on past a   *)
(* Gate that nobody answered.                                              *)
UnansweredAskingsBlockTheirRun ==
    \A r \in Run, k \in Gate : asking[r][k] = "unanswered" =>
        state[r] \in {"suspended", "cancelled"} /\ hold[r] # "recovery"

(* A recorded Verdict is waiting to be applied, or known never to be: the  *)
(* wake-up stays pending until the Run applies it, through recoveries and  *)
(* requeues, and disappears only when the Run has ended.                   *)
RecordedVerdictsReachTheRun ==
    \A r \in Run, k \in Gate :
        /\ asking[r][k] = "recorded" => wakeup[r][k] = "pending" \/ inability[r][k]
        /\ asking[r][k] = "applied" => wakeup[r][k] = "applied" /\ ~inability[r][k]

-----------------------------------------------------------------------------
(* The Run and Gate repositories together implement the fencing lease: a   *)
(* slot is the lease, its generation the epoch.                            *)
Lease == INSTANCE RunLease WITH
    epoch <- generation, holder <- slot, ended <- {r \in Run : state[r] \in Completed}

(* Every transaction of the two repositories grants, revokes or ends       *)
(* leases as RunLease allows, or leaves them alone.                        *)
ImplementsLease == Lease!LeaseSpec
=============================================================================
