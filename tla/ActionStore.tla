----------------------------- MODULE ActionStore ----------------------------
(***************************************************************************)
(* The external actions of a Run: SqliteExternalActionRepository.  Like    *)
(* the Gate store it writes the Run store's tables itself.                 *)
(*                                                                         *)
(* An action belongs to one Phase attempt, PhaseOf, and has an immutable   *)
(* recovery policy; SafeAction are those whose policy is safe-repetition.  *)
(* The uncertainty revision only refuses evidence and authorizations for   *)
(* an older uncertainty, which change nothing, and is left out; so is      *)
(* recordEvidence, which no service calls.                                 *)
(***************************************************************************)
EXTENDS RunStore

CONSTANTS Action, PhaseOf, SafeAction

ASSUME ActionAssumption ==
    /\ PhaseOf \in [Action -> Phase]
    /\ SafeAction \subseteq Action

VARIABLE action \* workflow_external_actions.state, or "none"

ActionStates == {"none", "intended", "unresolved", "retry-authorized", "result-confirmed",
                 "not-performed", "repetition-safe"}

ActionInit == action = [r \in Run |-> [a \in Action |-> "none"]]

(* This repository's #assertAuthority reads the claim only, not the slot.  *)
HoldsClaim(r, g) == g # 0 /\ claim[r] = g

(* #queueHeldRun                                                           *)
QueueHeldRun(r) ==
    /\ state' = [state EXCEPT ![r] = IF @ = "held" THEN "queued" ELSE @]
    /\ queue' = [queue EXCEPT ![r] = IF state[r] = "held" THEN "continuation" ELSE @]

FaultyBeginAction(r, g, a) ==
    /\ HoldsClaim(r, g)
    /\ action[r][a] \in {"none", "intended", "not-performed", "repetition-safe", "retry-authorized"}
    /\ action' = [action EXCEPT ![r][a] = "intended"]
    /\ UNCHANGED vars

MayPerform == {"none", "not-performed", "repetition-safe", "retry-authorized"}

(* begin: perform a new or permitted action, or hold the Run of an action  *)
(* that was begun and has no result.  One that is unresolved or confirmed  *)
(* already is only read.                                                   *)
BeginAction(r, g, a) ==
    /\ HoldsClaim(r, g)
    /\ \/ /\ action[r][a] \in MayPerform
          /\ action' = [action EXCEPT ![r][a] = "intended"]
          /\ UNCHANGED <<state, queue, claim, slot>>
       \/ /\ action[r][a] = "intended"
          /\ action' = [action EXCEPT ![r][a] = "unresolved"]
          /\ state' = [state EXCEPT ![r] = "held"]
          /\ queue' = [queue EXCEPT ![r] = "none"]
          /\ ReleaseSlot({r}) /\ ReleaseClaim({r})
    /\ UNCHANGED <<pinnedVars, reserved, schedulerVars, generation, result, hold,
                   cancelVars, activityVars, limitVars>>

(* confirmResult commits the Phase result with the action; a Phase that    *)
(* already has another result refuses both.                                *)
ConfirmResult(r, g, a) ==
    /\ HoldsClaim(r, g)
    /\ action[r][a] = "intended"
    /\ result[r][PhaseOf[a]] = 0
    /\ result' = [result EXCEPT ![r][PhaseOf[a]] = g]
    /\ action' = [action EXCEPT ![r][a] = "result-confirmed"]
    /\ UNCHANGED <<state, pinnedVars, queue, reserved, schedulerVars, claimVars, hold,
                   cancelVars, activityVars, limitVars>>

(* The runner was lost: its open actions become uncertain.  The slot stays *)
(* until the runner's termination is settled.                              *)
HoldOpen(r) ==
    LET open == {a \in Action : action[r][a] = "intended"} IN
    /\ open # {}
    /\ action' = [action EXCEPT ![r] =
                    [a \in Action |-> IF a \notin open THEN @[a]
                                      ELSE IF a \in SafeAction THEN "repetition-safe"
                                      ELSE "unresolved"]]
    /\ queue' = [queue EXCEPT ![r] = "none"]
    /\ reserved' = reserved \ {r}
    /\ state' = [state EXCEPT ![r] =
                    IF @ \notin Terminal /\ cancel[r] = "none" THEN "held" ELSE @]
    /\ UNCHANGED <<pinnedVars, schedulerVars, claimVars, result, hold, cancelVars,
                   activityVars, limitVars>>

SettleAfterRunnerTermination(r, g) ==
    LET awaiting == {a \in Action : action[r][a] \in {"unresolved", "repetition-safe"}} IN
    /\ HoldsClaim(r, g)
    /\ awaiting # {}
    /\ ReleaseSlot({r}) /\ ReleaseClaim({r})
    /\ \/ /\ \A a \in awaiting : action[r][a] = "repetition-safe"
          /\ QueueHeldRun(r)
       \/ /\ \E a \in awaiting : action[r][a] = "unresolved"
          /\ UNCHANGED <<state, queue>>
    /\ UNCHANGED <<action, pinnedVars, reserved, schedulerVars, generation, result, hold,
                   cancelVars, activityVars, limitVars>>

AuthorizeRetry(r, a) ==
    /\ action[r][a] = "unresolved"
    /\ action' = [action EXCEPT ![r][a] = "retry-authorized"]
    /\ QueueHeldRun(r)
    /\ UNCHANGED <<pinnedVars, reserved, schedulerVars, claimVars, result, hold,
                   cancelVars, activityVars, limitVars>>
=============================================================================
