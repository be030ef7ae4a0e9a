------------------------- MODULE DaemonSupervision -------------------------
(***************************************************************************)
(* The managed launcher of the Daemon.  It keeps one file, the supervision *)
(* state, outside the database and the lifecycle journal: how many of the  *)
(* configured restart delays the current failure cycle has used, whether   *)
(* they are exhausted, and the attempt under way.  The launcher, the       *)
(* Daemon it spawned and the repair command all change that file, each     *)
(* under its lock, and every write is checked by the reader's own rules    *)
(* (a state that fails them stops supervision for good).                   *)
(* Delays and times are left out: a delay passes, a healthy interval has   *)
(* elapsed or a repair plan has expired whenever a step says so.           *)
(***************************************************************************)
EXTENDS Integers

CONSTANT Policies       \* lengths of the restart delay lists that may be configured

\* A restart delay list is not empty.
ASSUME PoliciesAssumption == Policies \subseteq Nat \ {0}

VARIABLES
    supervision,        \* the stored state
    native,             \* what the service manager does with the launcher
    enabled,            \* automatic start with the Host
    child,              \* TRUE while the Daemon process lives
    configured,         \* length of the delay list the Daemon's configuration has active
    streak              \* history: unplanned ends since the last planned or healthy one,
                        \* repair or change of the policy

supervisionVars == <<supervision, native, enabled, child, configured, streak>>

NoBudget == -1

NoAttempt == [phase |-> "none"]

Attempt(budget) ==
    [phase |-> "waiting", budget |-> budget, ready |-> FALSE, succeeded |-> FALSE,
     planned |-> FALSE]

InitialState(length) ==
    [policy |-> length, cycleActive |-> FALSE, nextRestartIndex |-> 0, exhausted |-> FALSE,
     skipNextDelay |-> FALSE, attempt |-> NoAttempt, repairPlan |-> FALSE]

(***************************************************************************)
(* What the reader of the file accepts.                                    *)
(***************************************************************************)
Readable(s) ==
    /\ ~s.cycleActive => s.nextRestartIndex = 0
    /\ s.nextRestartIndex <= s.policy
    /\ s.exhausted => s.nextRestartIndex >= s.policy /\ s.attempt = NoAttempt
    /\ ~s.exhausted /\ s.attempt = NoAttempt => s.nextRestartIndex < s.policy
    /\ s.attempt # NoAttempt =>
          /\ ~s.skipNextDelay
          /\ s.attempt.budget # NoBudget =>
                s.cycleActive /\ s.attempt.budget = s.nextRestartIndex
          /\ s.attempt.ready => s.attempt.phase = "running"
          /\ s.attempt.succeeded => s.attempt.ready
    /\ s.repairPlan => s.exhausted

Least(a, b) == IF a <= b THEN a ELSE b

(***************************************************************************)
(* The end of an attempt.  A planned end keeps the index and makes the     *)
(* next attempt free; another one moves to the delay after its own, or to  *)
(* the first when the Daemon had been healthy.                             *)
(***************************************************************************)
FinishedPlanned(s) ==
    [s EXCEPT !.exhausted = s.nextRestartIndex >= s.policy,
              !.skipNextDelay = TRUE, !.attempt = NoAttempt, !.repairPlan = FALSE]

\* A faulty variant: the delay just used is offered again.
FaultyFinishedFailed(s, healthy) ==
    LET index == IF healthy THEN 0 ELSE s.nextRestartIndex
    IN  [s EXCEPT !.cycleActive = TRUE, !.nextRestartIndex = index,
                  !.exhausted = index >= s.policy, !.skipNextDelay = FALSE,
                  !.attempt = NoAttempt, !.repairPlan = FALSE]

FinishedFailed(s, healthy) ==
    LET index == IF healthy THEN 0
                 ELSE IF s.attempt.budget = NoBudget THEN s.nextRestartIndex
                 ELSE Least(s.attempt.budget + 1, s.policy)
    IN  [s EXCEPT !.cycleActive = TRUE, !.nextRestartIndex = index,
                  !.exhausted = index >= s.policy, !.skipNextDelay = FALSE,
                  !.attempt = NoAttempt, !.repairPlan = FALSE]

MayBeHealthy(s) == s.attempt.ready /\ s.attempt.succeeded

\* A faulty variant: the skip of a delay is not used up.
FaultyScheduled(s) ==
    [s EXCEPT !.exhausted = FALSE, !.repairPlan = FALSE,
              !.attempt = Attempt(IF s.cycleActive /\ ~s.skipNextDelay
                                  THEN s.nextRestartIndex ELSE NoBudget)]

\* The next attempt of a state that is not exhausted: free in a new cycle and after a
\* planned end, else with the next delay of the list.
Scheduled(s) ==
    [s EXCEPT !.exhausted = FALSE, !.skipNextDelay = FALSE, !.repairPlan = FALSE,
              !.attempt = Attempt(IF s.cycleActive /\ ~s.skipNextDelay
                                  THEN s.nextRestartIndex ELSE NoBudget)]

Activated(s, length) ==
    LET index == Least(s.nextRestartIndex,
                       IF s.attempt.budget = NoBudget THEN length ELSE length - 1)
    IN  [s EXCEPT !.policy = length, !.nextRestartIndex = index, !.repairPlan = FALSE,
                  !.attempt.budget = IF @ = NoBudget THEN NoBudget ELSE index]

Streak(healthy) == IF healthy THEN 1 ELSE streak + 1

SupervisionInit ==
    \E length \in Policies :
        /\ supervision = InitialState(length)
        /\ configured = length
        /\ native = "running"
        /\ enabled = TRUE
        /\ child = FALSE
        /\ streak = 0

(***************************************************************************)
(* The launcher.  An attempt that an earlier launcher left running is      *)
(* finished by PrepareAttempt itself.                                      *)
(***************************************************************************)
Running == supervision.attempt.phase = "running"

PrepareAttempt ==
    /\ native = "running"
    /\ supervision.attempt = NoAttempt
    /\ ~supervision.exhausted
    /\ supervision' = Scheduled(supervision)
    /\ UNCHANGED <<native, enabled, child, configured, streak>>

StartAttempt ==
    /\ native = "running"
    /\ supervision.attempt.phase = "waiting"
    /\ supervision' = [supervision EXCEPT !.attempt.phase = "running"]
    /\ child' = TRUE
    /\ UNCHANGED <<native, enabled, configured, streak>>

\* The Daemon ended and its launcher, or the next one, records it.
FinishAttempt ==
    /\ native = "running"
    /\ Running /\ ~child
    /\ \/ /\ supervision.attempt.planned
          /\ supervision' = FinishedPlanned(supervision)
          /\ streak' = 0
       \/ /\ ~supervision.attempt.planned
          /\ \E healthy \in {FALSE, MayBeHealthy(supervision)} :
                /\ supervision' = FinishedFailed(supervision, healthy)
                /\ streak' = Streak(healthy)
    /\ UNCHANGED <<native, enabled, child, configured>>

(***************************************************************************)
(* The Daemon of the attempt: its readiness activates the policy of its    *)
(* configuration, and a served mutation is the success that counts for     *)
(* health.  A lifecycle operation announces the end as planned.            *)
(***************************************************************************)
RecordReady ==
    /\ child /\ Running
    /\ ~supervision.attempt.ready
    /\ supervision' =
          Activated([supervision EXCEPT !.attempt.ready = TRUE], configured)
    /\ streak' = IF configured = supervision.policy THEN streak ELSE 0
    /\ UNCHANGED <<native, enabled, child, configured>>

RecordOperationSuccess ==
    /\ child /\ Running
    /\ supervision.attempt.ready /\ ~supervision.attempt.succeeded
    /\ supervision' = [supervision EXCEPT !.attempt.succeeded = TRUE]
    /\ UNCHANGED <<native, enabled, child, configured, streak>>

Planned(s) == [s EXCEPT !.attempt.planned = TRUE, !.repairPlan = FALSE]

RecordPlannedStop ==
    /\ child /\ Running
    /\ supervision' = Planned(supervision)
    /\ UNCHANGED <<native, enabled, child, configured, streak>>

\* A planned replacement activates the configuration that was pending.
ActivatePolicy(length) ==
    /\ child /\ Running
    /\ configured' = length
    /\ supervision' = Activated(supervision, length)
    /\ streak' = IF length = supervision.policy THEN streak ELSE 0
    /\ UNCHANGED <<native, enabled, child>>

\* It dies between the configuration's activation and the policy's.
ActivationInterrupted(length) ==
    /\ child
    /\ configured' = length
    /\ child' = FALSE
    /\ UNCHANGED <<supervision, native, enabled, streak>>

\* The Daemon exits, or dies with its launcher, which the manager restarts.
ChildDies ==
    /\ child
    /\ child' = FALSE
    /\ UNCHANGED <<supervision, native, enabled, configured, streak>>

(***************************************************************************)
(* The service manager.  Stop ends the launcher and the Daemon: an attempt *)
(* that still waits is finished, one that runs is marked planned and then  *)
(* finished, unless the manager kills the launcher before it gets there.   *)
(***************************************************************************)
StopLauncher ==
    /\ native' = "stopped"
    /\ child' = FALSE
    /\ IF supervision.attempt = NoAttempt \/ native = "stopped"
       THEN UNCHANGED <<supervision, streak>>
       ELSE \/ /\ supervision' = FinishedPlanned(supervision)
               /\ streak' = 0
            \/ /\ Running
               /\ supervision' = Planned(supervision)
               /\ UNCHANGED streak
    /\ UNCHANGED <<enabled, configured>>

StartLauncher ==
    /\ native' = "running"
    /\ UNCHANGED <<supervision, enabled, child, configured, streak>>

Reboot ==
    /\ native' = IF enabled THEN "running" ELSE "stopped"
    /\ child' = FALSE
    /\ UNCHANGED <<supervision, enabled, configured, streak>>

(***************************************************************************)
(* daemon repair: --check issues a plan for the state it saw, --apply      *)
(* takes it up.  Every other write drops the plan.                         *)
(***************************************************************************)
CheckRepair ==
    /\ supervision.exhausted
    /\ supervision' = [supervision EXCEPT !.repairPlan = TRUE]
    /\ UNCHANGED <<native, enabled, child, configured, streak>>

ApplyRepair ==
    /\ supervision.exhausted /\ supervision.repairPlan
    /\ supervision' = InitialState(supervision.policy)
    /\ streak' = 0
    /\ UNCHANGED <<native, enabled, child, configured>>

SupervisionNext ==
    \/ PrepareAttempt \/ StartAttempt \/ FinishAttempt
    \/ RecordReady \/ RecordOperationSuccess \/ RecordPlannedStop
    \/ \E length \in Policies : ActivatePolicy(length) \/ ActivationInterrupted(length)
    \/ ChildDies \/ StopLauncher \/ StartLauncher \/ Reboot
    \/ CheckRepair \/ ApplyRepair

SupervisionSpec == SupervisionInit /\ [][SupervisionNext]_supervisionVars

-----------------------------------------------------------------------------
(***************************************************************************)
(* Every state that launcher, Daemon and repair leave behind is one that   *)
(* the next of them accepts: a state it refuses as damaged stops the       *)
(* supervision of the Daemon for good.                                     *)
(***************************************************************************)
SupervisionStaysReadable == Readable(supervision)

(***************************************************************************)
(* However Daemon, launcher and Host end, an automatic restart is spent    *)
(* for every unplanned end: the ends in a row without a planned one, a     *)
(* healthy interval, a repair or another policy are at most one more than  *)
(* the delays of the policy.                                               *)
(***************************************************************************)
RestartsAreBounded == streak <= supervision.policy + 1
=============================================================================
