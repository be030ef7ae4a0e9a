------------------------ MODULE DaemonLifecycleProofs ----------------------
(***************************************************************************)
(* Proofs about DaemonSupervision and DaemonLifecycle, for every set of    *)
(* restart policies and any number of operations, commands and instances:  *)
(* the stored supervision state stays one that its readers accept, the     *)
(* restarts in a row are bounded by the policy, a removal excludes the     *)
(* Daemon, and the lifecycle journal never runs ahead of the Daemon's      *)
(* receipts.  For one command at a time: the drain of a restart lasts.     *)
(***************************************************************************)
EXTENDS DaemonLifecycle, SequenceTheorems, TLAPS

-----------------------------------------------------------------------------
(* The launcher, the Daemon it spawns, the service manager and the repair. *)

Attempts == [phase : {"waiting", "running"}, budget : Nat \cup {NoBudget}, ready : BOOLEAN,
             succeeded : BOOLEAN, planned : BOOLEAN]

States == [policy : Policies, cycleActive : BOOLEAN, nextRestartIndex : Nat,
           exhausted : BOOLEAN, skipNextDelay : BOOLEAN, attempt : {NoAttempt} \cup Attempts,
           repairPlan : BOOLEAN]

SupervisionTypeOK ==
    /\ supervision \in States
    /\ configured \in Policies
    /\ streak \in Nat

(* The ends in a row of a state.  What goes on for free starts a new row,  *)
(* or the bound would be missed by one at each of them; what uses a delay  *)
(* has one left.                                                           *)
StreakFits(s, n) ==
    /\ s.attempt = NoAttempt =>
          /\ n <= s.nextRestartIndex + 1
          /\ ~s.cycleActive \/ s.skipNextDelay => n = 0
    /\ s.attempt # NoAttempt =>
          \/ s.attempt.budget = NoBudget /\ n = 0
          \/ /\ s.attempt.budget # NoBudget
             /\ s.nextRestartIndex < s.policy
             /\ n <= s.nextRestartIndex + 1

Sound(s, n) == s \in States /\ Readable(s) /\ StreakFits(s, n)

SupervisionInv == Sound(supervision, streak) /\ configured \in Policies /\ streak \in Nat

USE PoliciesAssumption DEF States, Attempts, NoBudget, NoAttempt

-----------------------------------------------------------------------------
(* What the operators on the stored state keep.                            *)

LEMMA InitialIsSound ==
    ASSUME NEW length \in Policies
    PROVE  Sound(InitialState(length), 0)
    BY DEF Sound, InitialState, Readable, StreakFits

LEMMA ScheduledIsSound ==
    ASSUME NEW s, NEW n \in Nat, Sound(s, n), s.attempt = NoAttempt, ~s.exhausted
    PROVE  Sound(Scheduled(s), n)
<1>1. s \in States /\ Readable(s) /\ StreakFits(s, n)
    BY DEF Sound
<1> DEFINE a == Attempt(IF s.cycleActive /\ ~s.skipNextDelay THEN s.nextRestartIndex ELSE NoBudget)
<1>2. /\ a \in Attempts /\ a # NoAttempt
      /\ a.budget = NoBudget \/ (s.cycleActive /\ a.budget = s.nextRestartIndex)
      /\ a.budget = NoBudget => ~s.cycleActive \/ s.skipNextDelay
      /\ a.ready = FALSE /\ a.succeeded = FALSE
    BY <1>1 DEF Attempt
<1> HIDE DEF a
<1>3. Scheduled(s) = [s EXCEPT !.exhausted = FALSE, !.skipNextDelay = FALSE, !.repairPlan = FALSE,
                               !.attempt = a]
    BY DEF Scheduled, a
<1>4. Scheduled(s) \in States
    BY <1>1, <1>2, <1>3
<1>5. Readable(Scheduled(s))
    BY <1>1, <1>2, <1>3 DEF Readable
<1>6. StreakFits(Scheduled(s), n)
    BY <1>1, <1>2, <1>3 DEF Readable, StreakFits
<1> QED
    BY <1>4, <1>5, <1>6 DEF Sound

LEMMA PlannedEndIsSound ==
    ASSUME NEW s, NEW n \in Nat, Sound(s, n), s.attempt # NoAttempt
    PROVE  Sound(FinishedPlanned(s), 0)
<1>1. s \in States /\ Readable(s)
    BY DEF Sound
<1> DEFINE e == s.nextRestartIndex >= s.policy
<1>2. e \in BOOLEAN /\ (e <=> s.nextRestartIndex >= s.policy)
    OBVIOUS
<1>3. FinishedPlanned(s) = [s EXCEPT !.exhausted = e, !.skipNextDelay = TRUE,
                                     !.attempt = NoAttempt, !.repairPlan = FALSE]
    BY DEF FinishedPlanned
<1> HIDE DEF e
<1>4. FinishedPlanned(s) \in States
    BY <1>1, <1>2, <1>3
<1>5. Readable(FinishedPlanned(s))
    BY <1>1, <1>2, <1>3 DEF Readable
<1>6. StreakFits(FinishedPlanned(s), 0)
    BY <1>1, <1>2, <1>3 DEF StreakFits
<1> QED
    BY <1>4, <1>5, <1>6 DEF Sound

LEMMA FailedEndIsSound ==
    ASSUME NEW s, NEW n \in Nat, Sound(s, n), s.attempt # NoAttempt, NEW healthy \in BOOLEAN
    PROVE  Sound(FinishedFailed(s, healthy), IF healthy THEN 1 ELSE n + 1)
<1>1. s \in States /\ Readable(s) /\ StreakFits(s, n) /\ s.attempt \in Attempts
    BY DEF Sound
<1> DEFINE index == IF healthy THEN 0
                    ELSE IF s.attempt.budget = NoBudget THEN s.nextRestartIndex
                    ELSE Least(s.attempt.budget + 1, s.policy)
           m == IF healthy THEN 1 ELSE n + 1
<1>2. /\ index \in Nat /\ index <= s.policy
      /\ m \in Nat /\ m <= index + 1
  <2>1. s.policy \in Nat \ {0} /\ s.nextRestartIndex \in Nat /\ s.nextRestartIndex <= s.policy
      BY <1>1 DEF Readable
  <2>2. CASE healthy
      BY <2>1, <2>2
  <2>3. CASE ~healthy /\ s.attempt.budget = NoBudget
      BY <1>1, <2>1, <2>3 DEF StreakFits
  <2>4. CASE ~healthy /\ s.attempt.budget # NoBudget
    <3>1. /\ s.attempt.budget = s.nextRestartIndex /\ s.nextRestartIndex < s.policy
          /\ n <= s.nextRestartIndex + 1
        BY <1>1, <2>4 DEF Readable, StreakFits
    <3>2. index = s.nextRestartIndex + 1
        BY <2>1, <2>4, <3>1 DEF Least
    <3> QED
        BY <2>1, <2>4, <3>1, <3>2
  <2> QED
      BY <2>2, <2>3, <2>4
<1> DEFINE e == index >= s.policy
<1> HIDE DEF index, m
<1>7. e \in BOOLEAN /\ (e <=> index >= s.policy)
    OBVIOUS
<1>3. FinishedFailed(s, healthy) =
          [s EXCEPT !.cycleActive = TRUE, !.nextRestartIndex = index,
                    !.exhausted = e, !.skipNextDelay = FALSE,
                    !.attempt = NoAttempt, !.repairPlan = FALSE]
    BY DEF FinishedFailed, index
<1> HIDE DEF e
<1>4. FinishedFailed(s, healthy) \in States
    BY <1>1, <1>2, <1>3, <1>7
<1>5. Readable(FinishedFailed(s, healthy))
    BY <1>1, <1>2, <1>3, <1>7 DEF Readable
<1>6. StreakFits(FinishedFailed(s, healthy), m)
    BY <1>1, <1>2, <1>3, <1>7 DEF StreakFits
<1> QED
    BY <1>4, <1>5, <1>6 DEF Sound, m

LEMMA ActivatedIsSound ==
    ASSUME NEW s, NEW n \in Nat, Sound(s, n), s.attempt # NoAttempt, NEW length \in Policies
    PROVE  Sound(Activated(s, length), IF length = s.policy THEN n ELSE 0)
<1>1. s \in States /\ Readable(s) /\ StreakFits(s, n) /\ s.attempt \in Attempts
    BY DEF Sound
<1> DEFINE index == Least(s.nextRestartIndex,
                          IF s.attempt.budget = NoBudget THEN length ELSE length - 1)
           a == [s.attempt EXCEPT !.budget = IF @ = NoBudget THEN NoBudget ELSE index]
<1>2. /\ index \in Nat /\ index <= length /\ index <= s.nextRestartIndex
      /\ s.attempt.budget # NoBudget => index < length
      /\ s.attempt.budget # NoBudget /\ length = s.policy => index = s.nextRestartIndex
    BY <1>1 DEF Readable, StreakFits, Least
<1>3. /\ a \in Attempts /\ a # NoAttempt
      /\ a.ready = s.attempt.ready /\ a.succeeded = s.attempt.succeeded
      /\ a.phase = s.attempt.phase
      /\ a.budget = NoBudget <=> s.attempt.budget = NoBudget
      /\ a.budget # NoBudget => a.budget = index
    BY <1>1, <1>2
<1>4. Activated(s, length) = [s EXCEPT !.policy = length, !.nextRestartIndex = index,
                                       !.repairPlan = FALSE, !.attempt = a]
    BY <1>1 DEF Activated
<1> HIDE DEF index, a
<1>5. Activated(s, length) \in States
    BY <1>1, <1>2, <1>3, <1>4
<1>6. Readable(Activated(s, length))
    BY <1>1, <1>2, <1>3, <1>4 DEF Readable
<1>7. StreakFits(Activated(s, length), IF length = s.policy THEN n ELSE 0)
    BY <1>1, <1>2, <1>3, <1>4 DEF StreakFits
<1> QED
    BY <1>5, <1>6, <1>7 DEF Sound

LEMMA MarkedIsSound ==
    ASSUME NEW s, NEW n \in Nat, Sound(s, n), s.attempt # NoAttempt
    PROVE  Sound(Planned(s), n)
<1>1. s \in States /\ Readable(s) /\ StreakFits(s, n) /\ s.attempt \in Attempts
    BY DEF Sound
<1> DEFINE a == [s.attempt EXCEPT !.planned = TRUE]
<1>2. /\ a \in Attempts /\ a # NoAttempt /\ a.ready = s.attempt.ready
      /\ a.succeeded = s.attempt.succeeded /\ a.phase = s.attempt.phase
      /\ a.budget = s.attempt.budget
    BY <1>1
<1>3. Planned(s) = [s EXCEPT !.repairPlan = FALSE, !.attempt = a]
    BY <1>1 DEF Planned
<1> HIDE DEF a
<1>4. Planned(s) \in States
    BY <1>1, <1>2, <1>3
<1>5. Readable(Planned(s))
    BY <1>1, <1>2, <1>3 DEF Readable
<1>6. StreakFits(Planned(s), n)
    BY <1>1, <1>2, <1>3 DEF StreakFits
<1> QED
    BY <1>4, <1>5, <1>6 DEF Sound

-----------------------------------------------------------------------------
(* Launcher, Daemon, service manager and repair.                           *)

LEMMA SupervisionInvInit == SupervisionInit => SupervisionInv
    BY InitialIsSound DEF SupervisionInit, SupervisionInv

LEMMA LauncherKeeps ==
    ASSUME SupervisionInv, PrepareAttempt \/ StartAttempt \/ FinishAttempt
    PROVE  SupervisionInv'
<1>1. CASE PrepareAttempt
    BY <1>1, ScheduledIsSound DEF SupervisionInv, PrepareAttempt
<1>2. CASE StartAttempt
  <2>1. supervision.attempt # NoAttempt /\ supervision.attempt \in Attempts
      BY <1>2 DEF SupervisionInv, Sound, StartAttempt
  <2> DEFINE a == [supervision.attempt EXCEPT !.phase = "running"]
  <2>2. /\ a \in Attempts /\ a # NoAttempt /\ a.phase = "running"
        /\ a.ready = supervision.attempt.ready /\ a.succeeded = supervision.attempt.succeeded
        /\ a.budget = supervision.attempt.budget
      BY <2>1
  <2>3. supervision' = [supervision EXCEPT !.attempt = a] /\ UNCHANGED <<configured, streak>>
      BY <1>2 DEF StartAttempt, SupervisionInv, Sound
  <2> HIDE DEF a
  <2>4. supervision' \in States
      BY <2>2, <2>3 DEF SupervisionInv, Sound
  <2>5. Readable(supervision')
      BY <2>1, <2>2, <2>3 DEF SupervisionInv, Sound, Readable
  <2>6. StreakFits(supervision', streak')
      BY <2>1, <2>2, <2>3 DEF SupervisionInv, Sound, StreakFits
  <2> QED
      BY <2>3, <2>4, <2>5, <2>6 DEF SupervisionInv, Sound
<1>3. CASE FinishAttempt
  <2>1. supervision.attempt # NoAttempt
      BY <1>3 DEF FinishAttempt, Running
  <2>2. CASE supervision' = FinishedPlanned(supervision) /\ streak' = 0
      BY <1>3, <2>1, <2>2, PlannedEndIsSound DEF SupervisionInv, FinishAttempt
  <2>3. ASSUME NEW healthy \in BOOLEAN, supervision' = FinishedFailed(supervision, healthy),
               streak' = Streak(healthy)
        PROVE  SupervisionInv'
      BY <1>3, <2>1, <2>3, FailedEndIsSound DEF SupervisionInv, FinishAttempt, Streak
  <2>4. MayBeHealthy(supervision) \in BOOLEAN
      BY DEF MayBeHealthy
  <2> QED
      BY <1>3, <2>2, <2>3, <2>4 DEF FinishAttempt
<1> QED
    BY <1>1, <1>2, <1>3

LEMMA DaemonKeeps ==
    ASSUME SupervisionInv, NEW length \in Policies,
           \/ RecordReady \/ RecordOperationSuccess \/ RecordPlannedStop
           \/ ActivatePolicy(length) \/ ActivationInterrupted(length) \/ ChildDies
    PROVE  SupervisionInv'
<1>0. Running => supervision.attempt # NoAttempt /\ supervision.attempt \in Attempts
    BY DEF Running, SupervisionInv, Sound
<1>1. CASE RecordReady
  <2> DEFINE s == [supervision EXCEPT !.attempt.ready = TRUE]
             a == [supervision.attempt EXCEPT !.ready = TRUE]
  <2>1. supervision.attempt # NoAttempt /\ supervision.attempt \in Attempts
      BY <1>0, <1>1 DEF RecordReady
  <2>2. /\ a \in Attempts /\ a # NoAttempt /\ a.phase = "running"
        /\ a.ready = TRUE /\ a.succeeded = supervision.attempt.succeeded
        /\ a.budget = supervision.attempt.budget
      BY <1>1, <2>1 DEF RecordReady, Running
  <2>3. s = [supervision EXCEPT !.attempt = a] /\ s.policy = supervision.policy
      BY DEF SupervisionInv, Sound
  <2>4. s \in States /\ s.attempt # NoAttempt
      BY <2>2, <2>3 DEF SupervisionInv, Sound
  <2>5. Readable(s)
    <3> HIDE DEF a, s
    <3> QED
      BY <2>1, <2>2, <2>3 DEF SupervisionInv, Sound, Readable
  <2>6. StreakFits(s, streak)
    <3> HIDE DEF a, s
    <3> QED
      BY <2>1, <2>2, <2>3 DEF SupervisionInv, Sound, StreakFits
  <2>7. /\ supervision' = Activated(s, configured) /\ configured' = configured
        /\ streak' = IF configured = supervision.policy THEN streak ELSE 0
      BY <1>1 DEF RecordReady
  <2> HIDE DEF a, s
  <2> QED
      BY <2>3, <2>4, <2>5, <2>6, <2>7, ActivatedIsSound DEF SupervisionInv, Sound
<1>2. CASE RecordOperationSuccess
  <2> DEFINE a == [supervision.attempt EXCEPT !.succeeded = TRUE]
  <2>1. supervision.attempt # NoAttempt /\ supervision.attempt \in Attempts
      BY <1>0, <1>2 DEF RecordOperationSuccess
  <2>2. /\ a \in Attempts /\ a # NoAttempt /\ a.phase = supervision.attempt.phase
        /\ a.ready = supervision.attempt.ready /\ supervision.attempt.ready
        /\ a.budget = supervision.attempt.budget
      BY <1>2, <2>1 DEF RecordOperationSuccess
  <2>3. supervision' = [supervision EXCEPT !.attempt = a] /\ UNCHANGED <<configured, streak>>
      BY <1>2 DEF RecordOperationSuccess, SupervisionInv, Sound
  <2> HIDE DEF a
  <2>4. supervision' \in States
      BY <2>2, <2>3 DEF SupervisionInv, Sound
  <2>5. Readable(supervision')
      BY <2>1, <2>2, <2>3 DEF SupervisionInv, Sound, Readable
  <2>6. StreakFits(supervision', streak')
      BY <2>1, <2>2, <2>3 DEF SupervisionInv, Sound, StreakFits
  <2> QED
      BY <2>3, <2>4, <2>5, <2>6 DEF SupervisionInv, Sound
<1>3. CASE RecordPlannedStop
    BY <1>0, <1>3, MarkedIsSound DEF RecordPlannedStop, SupervisionInv
<1>4. CASE ActivatePolicy(length)
    BY <1>0, <1>4, ActivatedIsSound DEF ActivatePolicy, SupervisionInv
<1>5. CASE ActivationInterrupted(length) \/ ChildDies
    BY <1>5 DEF ActivationInterrupted, ChildDies, SupervisionInv
<1> QED
    BY <1>1, <1>2, <1>3, <1>4, <1>5

LEMMA ManagerKeeps ==
    ASSUME SupervisionInv, StopLauncher \/ StartLauncher \/ Reboot
    PROVE  SupervisionInv'
<1>1. CASE StopLauncher
  <2>1. CASE UNCHANGED <<supervision, streak>>
      BY <1>1, <2>1 DEF StopLauncher, SupervisionInv
  <2>2. CASE supervision.attempt # NoAttempt /\ supervision' = FinishedPlanned(supervision)
             /\ streak' = 0
      BY <1>1, <2>2, PlannedEndIsSound DEF StopLauncher, SupervisionInv
  <2>3. CASE supervision.attempt # NoAttempt /\ supervision' = Planned(supervision)
             /\ UNCHANGED streak
      BY <1>1, <2>3, MarkedIsSound DEF StopLauncher, SupervisionInv
  <2> QED
      BY <1>1, <2>1, <2>2, <2>3 DEF StopLauncher
<1>2. CASE StartLauncher \/ Reboot
    BY <1>2 DEF StartLauncher, Reboot, SupervisionInv
<1> QED
    BY <1>1, <1>2

LEMMA RepairKeeps ==
    ASSUME SupervisionInv, CheckRepair \/ ApplyRepair
    PROVE  SupervisionInv'
<1>1. CASE CheckRepair
  <2>1. supervision' = [supervision EXCEPT !.repairPlan = TRUE] /\ supervision.exhausted
        /\ UNCHANGED <<configured, streak>>
      BY <1>1 DEF CheckRepair
  <2>2. supervision' \in States
      BY <2>1 DEF SupervisionInv, Sound
  <2>3. Readable(supervision')
      BY <2>1 DEF SupervisionInv, Sound, Readable
  <2>4. StreakFits(supervision', streak')
      BY <2>1 DEF SupervisionInv, Sound, StreakFits
  <2> QED
      BY <2>1, <2>2, <2>3, <2>4 DEF SupervisionInv, Sound
<1>2. CASE ApplyRepair
  <2>1. supervision.policy \in Policies
      BY DEF SupervisionInv, Sound
  <2> QED
      BY <1>2, <2>1, InitialIsSound DEF ApplyRepair, SupervisionInv
<1> QED
    BY <1>1, <1>2

LEMMA SupervisionInvNext ==
    SupervisionInv /\ [SupervisionNext]_supervisionVars => SupervisionInv'
<1> SUFFICES ASSUME SupervisionInv, [SupervisionNext]_supervisionVars
             PROVE  SupervisionInv'
    OBVIOUS
<1>1. CASE UNCHANGED supervisionVars
    BY <1>1 DEF supervisionVars, SupervisionInv
<1>2. CASE PrepareAttempt \/ StartAttempt \/ FinishAttempt
    BY <1>2, LauncherKeeps
<1>3. CASE RecordReady \/ RecordOperationSuccess \/ RecordPlannedStop \/ ChildDies
    BY <1>3, DaemonKeeps DEF SupervisionInv
<1>4. CASE \E length \in Policies : ActivatePolicy(length) \/ ActivationInterrupted(length)
    BY <1>4, DaemonKeeps
<1>5. CASE StopLauncher \/ StartLauncher \/ Reboot
    BY <1>5, ManagerKeeps
<1>6. CASE CheckRepair \/ ApplyRepair
    BY <1>6, RepairKeeps
<1> QED
    BY <1>1, <1>2, <1>3, <1>4, <1>5, <1>6 DEF SupervisionNext

LEMMA SupervisionStaysSound == SupervisionSpec => []SupervisionInv
    BY SupervisionInvInit, SupervisionInvNext, PTL DEF SupervisionSpec

(* Type correctness, for every set of policies.                            *)
THEOREM SupervisionTypes == SupervisionSpec => []SupervisionTypeOK
<1>1. SupervisionInv => SupervisionTypeOK
    BY DEF SupervisionInv, Sound, SupervisionTypeOK
<1> QED
    BY <1>1, SupervisionStaysSound, PTL

(* No interleaving of launcher, Daemon, service manager, crashes and       *)
(* repair leaves a state that a reader refuses as damaged.                 *)
THEOREM SupervisionIsReadable == SupervisionSpec => []SupervisionStaysReadable
<1>1. SupervisionInv => SupervisionStaysReadable
    BY DEF SupervisionInv, Sound, SupervisionStaysReadable
<1> QED
    BY <1>1, SupervisionStaysSound, PTL

LEMMA TheBoundIsKept ==
    ASSUME SupervisionInv
    PROVE  RestartsAreBounded
<1>1. /\ supervision.policy \in Nat /\ supervision.nextRestartIndex \in Nat
      /\ supervision.nextRestartIndex <= supervision.policy
      /\ streak = 0 \/ streak <= supervision.nextRestartIndex + 1
    BY DEF SupervisionInv, Sound, Readable, StreakFits
<1> QED
    BY <1>1 DEF SupervisionInv, RestartsAreBounded

(* Whatever is planned, stopped, repaired or reconfigured in between, the  *)
(* restarts in a row are bounded by the policy.                            *)
THEOREM RestartsAreLimited == SupervisionSpec => []RestartsAreBounded
    BY TheBoundIsKept, SupervisionStaysSound, PTL

-----------------------------------------------------------------------------
(* The lifecycle operations on top of it.                                  *)

(* A Daemon that lives is that of the attempt under way, which is what     *)
(* lets a call in it change the stored state; it is also what a call needs.*)
DaemonsAreAttempts == child => Running

CallsAreInDaemons == \A c \in Client : cleanup[c] # NoCall => child

(* A controller that removes has the start gate.                           *)
Shaped(x) == x = Idle \/ x = [op |-> x.op, at |-> x.at, view |-> x.view, todo |-> x.todo]

ControlsHoldTheGate ==
    /\ ctl = [c \in Client |-> ctl[c]]
    /\ \A c \in Client : Shaped(ctl[c])
    /\ \A c \in Client : ctl[c].at = "removing" => gate = c

GateExcludesDaemons == gate # None => ~child

LifecycleInv ==
    /\ SupervisionInv
    /\ installed \in [service : BOOLEAN, content : BOOLEAN]
    /\ DaemonsAreAttempts
    /\ CallsAreInDaemons
    /\ ControlsHoldTheGate
    /\ GateExcludesDaemons
    /\ RemovalIsExclusive

USE ClientAssumption, PoliciesAssumption DEF None, States, Attempts, NoBudget, NoAttempt

LEMMA LifecycleInvInit == Init => LifecycleInv
<1> SUFFICES ASSUME Init
             PROVE  LifecycleInv
    OBVIOUS
<1>1. SupervisionInv /\ child = FALSE
    BY SupervisionInvInit DEF Init, SupervisionInit
<1>2. ControlsHoldTheGate
    BY DEF Init, ControlsHoldTheGate, Shaped, Idle
<1> QED
    BY <1>1, <1>2 DEF Init, LifecycleInv, DaemonsAreAttempts, CallsAreInDaemons,
       GateExcludesDaemons, RemovalIsExclusive

-----------------------------------------------------------------------------
(* The controllers.                                                        *)

(* A controller that goes on, and takes the gate only when it is free.     *)
LEMMA ControllerGoesOn ==
    ASSUME ControlsHoldTheGate, NEW c \in Client, ctl[c] # Idle, NEW at, NEW entries,
           Do(c, at, entries), at = "removing" => gate' = c,
           gate' = gate \/ (gate = None /\ gate' = c)
    PROVE  ControlsHoldTheGate'
<1>1. ctl[c] = [op |-> ctl[c].op, at |-> ctl[c].at, view |-> ctl[c].view, todo |-> ctl[c].todo]
    BY DEF ControlsHoldTheGate, Shaped
<1>2. /\ ctl'[c] = [op |-> ctl[c].op, at |-> at, view |-> ctl[c].view, todo |-> entries]
      /\ \A d \in Client : d # c => ctl'[d] = ctl[d]
      /\ ctl' = [d \in Client |-> ctl'[d]]
    BY <1>1 DEF ControlsHoldTheGate, Do
<1>3. ctl'[c].at = at /\ Shaped(ctl'[c])
    BY <1>2 DEF Shaped
<1>4. \A d \in Client : ctl'[d].at = "removing" => gate' = d
    BY <1>2, <1>3 DEF ControlsHoldTheGate
<1> QED
    BY <1>2, <1>3, <1>4 DEF ControlsHoldTheGate

(* A step that leaves Daemon, launcher and installation alone.             *)
LEMMA QuietKeeps ==
    ASSUME LifecycleInv, UNCHANGED <<supervision, child, configured, streak, installed>>,
           ControlsHoldTheGate', CallsAreInDaemons', gate' = gate \/ gate' = None \/ ~child
    PROVE  LifecycleInv'
    BY DEF LifecycleInv, SupervisionInv, DaemonsAreAttempts, Running, GateExcludesDaemons,
       RemovalIsExclusive

LEMMA ControllersStart ==
    ASSUME LifecycleInv, NEW c \in Client, NEW o \in Operation,
           (\E kind \in Kinds : Begin(c, o, kind)) \/ Resume(c, o) \/ ForceDrain(c, o)
    PROVE  LifecycleInv'
<1>1. PICK entry : ctl' = [ctl EXCEPT ![c] = Control(o, entry)]
    BY DEF Begin, Resume, ForceDrain
<1>2. UNCHANGED <<supervision, child, configured, streak, installed, gate, cleanup>>
    BY DEF Begin, Resume, ForceDrain, supervisionVars
<1>3. /\ ctl'[c] = [op |-> o, at |-> "step", view |-> entry, todo |-> <<>>]
      /\ \A d \in Client : d # c => ctl'[d] = ctl[d]
      /\ ctl' = [d \in Client |-> ctl'[d]]
    BY <1>1 DEF LifecycleInv, ControlsHoldTheGate, Control
<1>4. Shaped(ctl'[c]) /\ ctl'[c].at = "step"
    BY <1>3 DEF Shaped
<1>5. ControlsHoldTheGate'
    BY <1>2, <1>3, <1>4 DEF LifecycleInv, ControlsHoldTheGate
<1> QED
    BY <1>2, <1>5, QuietKeeps DEF LifecycleInv, CallsAreInDaemons

(* A controller that wrote an entry.                                       *)
LEMMA WrittenBy ==
    ASSUME ControlsHoldTheGate, NEW c \in Client, ctl[c] # Idle, NEW entry,
           ctl' = [ctl EXCEPT ![c].view = entry, ![c].todo = Tail(@)]
    PROVE  /\ ctl'[c] = [op |-> ctl[c].op, at |-> ctl[c].at, view |-> entry,
                         todo |-> Tail(ctl[c].todo)]
           /\ \A d \in Client : d # c => ctl'[d] = ctl[d]
           /\ ctl' = [d \in Client |-> ctl'[d]]
<1>1. ctl[c] = [op |-> ctl[c].op, at |-> ctl[c].at, view |-> ctl[c].view, todo |-> ctl[c].todo]
    BY DEF ControlsHoldTheGate, Shaped
<1> QED
    BY <1>1 DEF ControlsHoldTheGate

LEMMA ControllersEndOrWrite ==
    ASSUME LifecycleInv, NEW c \in Client, ClientEnds(c) \/ WriteEntry(c)
    PROVE  LifecycleInv'
<1>1. UNCHANGED <<supervision, child, configured, streak, installed, cleanup>>
    BY DEF ClientEnds, WriteEntry, supervisionVars
<1>2. CASE ctl' = [ctl EXCEPT ![c] = Idle] /\ gate' = IF gate = c THEN None ELSE gate
  <2>1. /\ ctl'[c] = Idle
        /\ \A d \in Client : d # c => ctl'[d] = ctl[d]
        /\ ctl' = [d \in Client |-> ctl'[d]]
      BY <1>2 DEF LifecycleInv, ControlsHoldTheGate
  <2>2. ControlsHoldTheGate'
      BY <1>2, <2>1 DEF LifecycleInv, ControlsHoldTheGate, Shaped, Idle
  <2> QED
      BY <1>1, <1>2, <2>2, QuietKeeps DEF LifecycleInv, CallsAreInDaemons
<1>3. ASSUME NEW entry, ctl[c] # Idle, UNCHANGED gate,
             ctl' = [ctl EXCEPT ![c].view = entry, ![c].todo = Tail(@)]
      PROVE  LifecycleInv'
  <2>1. /\ ctl'[c] = [op |-> ctl[c].op, at |-> ctl[c].at, view |-> entry,
                      todo |-> Tail(ctl[c].todo)]
        /\ \A d \in Client : d # c => ctl'[d] = ctl[d]
        /\ ctl' = [d \in Client |-> ctl'[d]]
      BY <1>3, WrittenBy DEF LifecycleInv
  <2>2. ctl'[c].at = ctl[c].at /\ Shaped(ctl'[c])
      BY <2>1 DEF Shaped
  <2>3. ControlsHoldTheGate'
      BY <1>3, <2>1, <2>2 DEF LifecycleInv, ControlsHoldTheGate
  <2> QED
      BY <1>1, <1>3, <2>3, QuietKeeps DEF LifecycleInv, CallsAreInDaemons
<1> QED
    BY <1>2, <1>3 DEF ClientEnds, WriteEntry

(* The steps of a controller that leave launcher, service and installation *)
(* as they are.                                                            *)
LEMMA QuietControllerKeeps ==
    ASSUME LifecycleInv, NEW c \in Client,
           \/ SwitchAutomaticStart(c) \/ SettleStopped(c) \/ Preflight(c) \/ BeginDrain(c)
           \/ ReadDrain(c) \/ PrepareHandoff(c) \/ ResumeHandoff(c) \/ ConfirmControllerReady(c)
           \/ ResumeAccepted(c) \/ SealPurgeSafety(c) \/ StopNativeFails(c) \/ CompleteStop(c)
    PROVE  LifecycleInv'
<1>1. /\ ctl[c].at \in {"step", "preflighted"}
      /\ \E at \in {"step", "preflighted"} : \E entries : Do(c, at, entries)
    BY DEF At, SwitchAutomaticStart, SettleStopped, Preflight, BeginDrain, ReadDrain,
       PrepareHandoff, ResumeHandoff, ConfirmControllerReady, ResumeAccepted, SealPurgeSafety,
       StopNativeFails, CompleteStop
<1>2. UNCHANGED <<supervision, child, configured, streak, installed, gate, cleanup>>
    BY DEF SwitchAutomaticStart, SettleStopped, Preflight, BeginDrain, ReadDrain,
       PrepareHandoff, ResumeHandoff, ConfirmControllerReady, ResumeAccepted, SealPurgeSafety,
       StopNativeFails, CompleteStop, supervisionVars
<1>3. ControlsHoldTheGate'
    BY <1>1, <1>2, ControllerGoesOn DEF LifecycleInv, Idle
<1> QED
    BY <1>2, <1>3, QuietKeeps DEF LifecycleInv, CallsAreInDaemons

(* The Daemon's cleanup, which marks the attempt's end as planned.         *)
LEMMA CleanupKeeps ==
    ASSUME LifecycleInv, NEW c \in Client, CallCleanup(c) \/ FinishCleanup(c) \/ FailCleanup(c)
    PROVE  LifecycleInv'
<1>1. child /\ UNCHANGED <<child, gate, installed, configured, streak>>
    BY DEF LifecycleInv, CallsAreInDaemons, CallCleanup, FinishCleanup, FailCleanup, supervisionVars
<1>2. CallsAreInDaemons'
    BY <1>1 DEF CallsAreInDaemons
<1>3. UNCHANGED ctl \/ (ctl[c].at \in {"step", "cleanup"}
                           /\ \E at \in {"step", "cleanup"} : \E entries : Do(c, at, entries))
    BY DEF CallCleanup, FinishCleanup, FailCleanup, At, Answer
<1>4. ControlsHoldTheGate'
  <2>1. CASE UNCHANGED ctl
      BY <1>1, <2>1 DEF LifecycleInv, ControlsHoldTheGate
  <2>2. CASE /\ ctl[c].at \in {"step", "cleanup"}
             /\ \E at \in {"step", "cleanup"} : \E entries : Do(c, at, entries)
      BY <1>1, <2>2, ControllerGoesOn DEF LifecycleInv, Idle
  <2> QED
      BY <1>3, <2>1, <2>2
<1>5. CASE UNCHANGED supervision
    BY <1>1, <1>2, <1>4, <1>5, QuietKeeps
<1>6. CASE supervision' = Planned(supervision)
  <2>1. supervision.attempt.phase = "running" /\ supervision.attempt # NoAttempt
      BY <1>1 DEF LifecycleInv, DaemonsAreAttempts, Running
  <2>2. Sound(supervision', streak')
      BY <1>1, <1>6, <2>1, MarkedIsSound DEF LifecycleInv, SupervisionInv
  <2>3. supervision'.attempt.phase = "running"
    <3>1. supervision \in States /\ supervision.attempt \in Attempts
        BY <2>1 DEF LifecycleInv, SupervisionInv, Sound
    <3> QED
        BY <1>6, <2>1, <3>1 DEF Planned
  <2>4. DaemonsAreAttempts'
      BY <2>3 DEF DaemonsAreAttempts, Running
  <2>5. GateExcludesDaemons' /\ RemovalIsExclusive'
      BY <1>1 DEF LifecycleInv, GateExcludesDaemons, RemovalIsExclusive
  <2> QED
      BY <1>1, <1>2, <1>4, <2>2, <2>4, <2>5 DEF LifecycleInv, SupervisionInv
<1> QED
    BY <1>5, <1>6 DEF CallCleanup, FinishCleanup, FailCleanup, supervisionVars

(* The controller that outlives the Daemon it stopped.                     *)
LEMMA OutlivesTheDaemon ==
    ASSUME ControlsHoldTheGate, NEW c \in Client, ctl[c] # Idle, ctl[c].at = "step", NEW entries,
           ctl' = [CallsLost EXCEPT ![c].todo = entries]
    PROVE  /\ ctl'[c] = [op |-> ctl[c].op, at |-> "step", view |-> ctl[c].view, todo |-> entries]
           /\ \A d \in Client : d # c => ctl'[d] = CallsLost[d]
           /\ ctl' = [d \in Client |-> ctl'[d]]
<1>1. CallsLost[c] = [op |-> ctl[c].op, at |-> "step", view |-> ctl[c].view, todo |-> ctl[c].todo]
    BY DEF ControlsHoldTheGate, Shaped, CallsLost
<1>2. DOMAIN CallsLost = Client /\ CallsLost = [d \in Client |-> CallsLost[d]]
    BY DEF CallsLost
<1>3. /\ ctl'[c] = [CallsLost[c] EXCEPT !.todo = entries]
      /\ \A d \in Client : d # c => ctl'[d] = CallsLost[d]
      /\ ctl' = [d \in Client |-> ctl'[d]]
    BY <1>2
<1> QED
    BY <1>1, <1>3

(* The service manager stops the launcher for a controller, or starts it.  *)
LEMMA ServiceStepsKeep ==
    ASSUME LifecycleInv, NEW c \in Client, StopNative(c) \/ StartReplacement(c)
    PROVE  LifecycleInv'
<1>1. CASE StartReplacement(c)
  <2>1. UNCHANGED <<supervision, child, configured, streak, installed, gate, cleanup>>
      BY <1>1 DEF StartReplacement, StartLauncher
  <2>2. ctl[c] # Idle /\ \E entries : Do(c, "step", entries)
      BY <1>1 DEF StartReplacement, At, Idle
  <2>3. ControlsHoldTheGate'
      BY <2>1, <2>2, ControllerGoesOn DEF LifecycleInv
  <2> QED
      BY <2>1, <2>3, QuietKeeps DEF LifecycleInv, CallsAreInDaemons
<1>2. CASE StopNative(c)
  <2>1. child' = FALSE /\ UNCHANGED <<gate, installed>>
      BY <1>2 DEF StopNative, StopLauncher
  <2>2. SupervisionInv'
      BY <1>2, ManagerKeeps DEF StopNative, LifecycleInv
  <2>3. CallsAreInDaemons'
      BY <1>2 DEF StopNative, DaemonGone, CallsAreInDaemons
  <2>4. PICK entries : ctl' = [CallsLost EXCEPT ![c].todo = entries]
      BY <1>2 DEF StopNative
  <2>5. ctl[c] # Idle /\ ctl[c].at = "step"
      BY <1>2 DEF StopNative, At, Idle
  <2>6. /\ ctl'[c] = [op |-> ctl[c].op, at |-> "step", view |-> ctl[c].view, todo |-> entries]
        /\ \A d \in Client : d # c => ctl'[d] = CallsLost[d]
        /\ ctl' = [d \in Client |-> ctl'[d]]
      BY <2>4, <2>5, OutlivesTheDaemon DEF LifecycleInv
  <2>7. Shaped(ctl'[c]) /\ ctl'[c].at = "step"
      BY <2>6 DEF Shaped
  <2>8. \A d \in Client : CallsLost[d] = ctl[d] \/ CallsLost[d] = Idle
      BY DEF CallsLost
  <2>9. ControlsHoldTheGate'
      BY <2>1, <2>6, <2>7, <2>8 DEF LifecycleInv, ControlsHoldTheGate, Shaped, Idle
  <2> QED
      BY <2>1, <2>2, <2>3, <2>9 DEF LifecycleInv, DaemonsAreAttempts, GateExcludesDaemons,
         RemovalIsExclusive
<1> QED
    BY <1>1, <1>2

(* The policy of the replacement's configuration is activated.             *)
LEMMA ConfirmKeeps ==
    ASSUME LifecycleInv, NEW c \in Client, ConfirmReplacement(c)
    PROVE  LifecycleInv'
<1>1. UNCHANGED <<gate, installed, cleanup>>
    BY DEF ConfirmReplacement
<1>2. ctl[c] # Idle /\ \E entries : Do(c, "step", entries)
    BY DEF ConfirmReplacement, At, Idle
<1>3. ControlsHoldTheGate'
    BY <1>1, <1>2, ControllerGoesOn DEF LifecycleInv
<1>4. CASE UNCHANGED supervisionVars
    BY <1>1, <1>3, <1>4, QuietKeeps DEF LifecycleInv, CallsAreInDaemons, supervisionVars
<1>5. ASSUME NEW length \in Policies, ActivatePolicy(length)
      PROVE  LifecycleInv'
  <2>1. SupervisionInv' /\ UNCHANGED child
      BY <1>5, DaemonKeeps DEF LifecycleInv, ActivatePolicy
  <2>2. supervision'.attempt.phase = supervision.attempt.phase
    <3>1. supervision \in States /\ supervision.attempt \in Attempts
        BY <1>5 DEF LifecycleInv, SupervisionInv, Sound, ActivatePolicy, Running
    <3> QED
        BY <1>5, <3>1 DEF ActivatePolicy, Activated
  <2> QED
      BY <1>1, <1>3, <2>1, <2>2 DEF LifecycleInv, DaemonsAreAttempts, Running, CallsAreInDaemons,
         GateExcludesDaemons, RemovalIsExclusive
<1> QED
    BY <1>4, <1>5 DEF ConfirmReplacement

(* A removal deletes what is installed, while it has the gate.             *)
LEMMA RemovalKeeps ==
    ASSUME LifecycleInv, NEW c \in Client,
           \/ AcquireGate(c) \/ RemoveRegistration(c) \/ RemoveInstallation(c)
           \/ CompleteRemoval(c)
    PROVE  LifecycleInv'
<1>1. CASE AcquireGate(c)
  <2>1. /\ UNCHANGED <<supervision, child, configured, streak, installed, cleanup>>
        /\ gate = None /\ gate' = c /\ ~child
      BY <1>1 DEF AcquireGate, supervisionVars
  <2>2. ctl[c] # Idle /\ \E entries : Do(c, "removing", entries)
      BY <1>1 DEF AcquireGate, At, Idle
  <2>3. ControlsHoldTheGate'
      BY <2>1, <2>2, ControllerGoesOn DEF LifecycleInv
  <2> QED
      BY <2>1, <2>3, QuietKeeps DEF LifecycleInv, CallsAreInDaemons
<1>2. CASE RemoveRegistration(c) \/ RemoveInstallation(c) \/ CompleteRemoval(c)
  <2>1. /\ UNCHANGED <<supervision, child, configured, streak, gate, cleanup>>
        /\ ctl[c].at = "removing" /\ \E entries : Do(c, "removing", entries)
      BY <1>2 DEF RemoveRegistration, RemoveInstallation, CompleteRemoval, Removing, supervisionVars
  <2>2. gate = c /\ ~child
      BY <2>1 DEF LifecycleInv, ControlsHoldTheGate, GateExcludesDaemons
  <2>3. ControlsHoldTheGate'
      BY <2>1, <2>2, ControllerGoesOn DEF LifecycleInv, Idle
  <2>4. installed' \in [service : BOOLEAN, content : BOOLEAN]
      BY <1>2 DEF LifecycleInv, RemoveRegistration, RemoveInstallation, CompleteRemoval
  <2> QED
      BY <2>1, <2>2, <2>3, <2>4 DEF LifecycleInv, SupervisionInv, DaemonsAreAttempts,
         CallsAreInDaemons, GateExcludesDaemons, RemovalIsExclusive
<1> QED
    BY <1>1, <1>2

LEMMA ControllerStepKeeps ==
    ASSUME LifecycleInv, NEW c \in Client, ControllerStep(c)
    PROVE  LifecycleInv'
    BY ControllersEndOrWrite, QuietControllerKeeps, CleanupKeeps, ServiceStepsKeep, ConfirmKeeps,
       RemovalKeeps DEF ControllerStep

-----------------------------------------------------------------------------
(* The Daemon, the Host and the launcher.                                  *)

LEMMA DaemonStartsKeep ==
    ASSUME LifecycleInv, StartDaemon \/ DaemonReady
    PROVE  LifecycleInv'
<1>1. UNCHANGED <<gate, installed, cleanup, ctl>>
    BY DEF StartDaemon, DaemonReady
<1>2. ControlsHoldTheGate'
    BY <1>1 DEF LifecycleInv, ControlsHoldTheGate
<1>3. CASE StartDaemon
  <2>1. SupervisionInv' /\ child' = TRUE /\ gate = None /\ installed.content
      BY <1>3, LauncherKeeps DEF LifecycleInv, StartDaemon, StartAttempt, MayStart
  <2>2. supervision'.attempt.phase = "running"
    <3>1. supervision \in States /\ supervision.attempt \in Attempts
        BY <1>3 DEF LifecycleInv, SupervisionInv, Sound, StartDaemon, StartAttempt
    <3> QED
        BY <1>3, <3>1 DEF StartDaemon, StartAttempt
  <2> QED
      BY <1>1, <1>2, <2>1, <2>2 DEF LifecycleInv, DaemonsAreAttempts, Running, CallsAreInDaemons,
         GateExcludesDaemons, RemovalIsExclusive
<1>4. CASE DaemonReady
  <2>1. SupervisionInv' /\ UNCHANGED child
      BY <1>4, DaemonKeeps, PoliciesAssumption DEF LifecycleInv, SupervisionInv, DaemonReady,
         RecordReady
  <2>2. supervision'.attempt.phase = "running"
    <3>1. /\ supervision \in States /\ supervision.attempt \in Attempts
          /\ supervision.attempt.phase = "running"
        BY <1>4 DEF LifecycleInv, SupervisionInv, Sound, DaemonReady, RecordReady, Running
    <3> DEFINE a == [supervision.attempt EXCEPT !.ready = TRUE]
               s == [supervision EXCEPT !.attempt = a]
    <3>2. s \in States /\ s.attempt \in Attempts /\ s.attempt.phase = "running"
        BY <3>1
    <3>3. supervision' = Activated(s, configured)
        BY <1>4, <3>1 DEF DaemonReady, RecordReady
    <3> HIDE DEF a, s
    <3> QED
        BY <3>2, <3>3 DEF Activated
  <2> QED
      BY <1>1, <1>2, <2>1, <2>2 DEF LifecycleInv, DaemonsAreAttempts, Running, CallsAreInDaemons,
         GateExcludesDaemons, RemovalIsExclusive
<1> QED
    BY <1>3, <1>4

LEMMA DaemonRunsKeep ==
    ASSUME LifecycleInv, Dispatch \/ RunsSettle \/ UserStarts
    PROVE  LifecycleInv'
<1>1. UNCHANGED <<supervision, child, configured, streak, installed, gate, cleanup, ctl>>
    BY DEF Dispatch, RunsSettle, UserStarts, StartLauncher, supervisionVars
<1> QED
    BY <1>1, QuietKeeps DEF LifecycleInv, CallsAreInDaemons, ControlsHoldTheGate

LEMMA DaemonEndsKeep ==
    ASSUME LifecycleInv, DaemonDies \/ HostRestarts
    PROVE  LifecycleInv'
<1>1. child' = FALSE /\ UNCHANGED installed
    BY DEF DaemonDies, ChildDies, ActivationInterrupted, HostRestarts, Reboot
<1>2. SupervisionInv'
  <2>1. CASE DaemonDies
      BY <2>1, DaemonKeeps DEF LifecycleInv, SupervisionInv, DaemonDies
  <2>2. CASE HostRestarts
      BY <2>2, ManagerKeeps DEF LifecycleInv, HostRestarts
  <2> QED
      BY <2>1, <2>2
<1>3. CallsAreInDaemons'
    BY DEF DaemonDies, HostRestarts, DaemonGone, CallsAreInDaemons
<1>4. ControlsHoldTheGate'
  <2>1. CASE DaemonDies
      BY <2>1 DEF LifecycleInv, DaemonDies, CallsLost, ControlsHoldTheGate, Shaped, Idle
  <2>2. CASE HostRestarts
      BY <2>2 DEF HostRestarts, ControlsHoldTheGate, Shaped, Idle
  <2> QED
      BY <2>1, <2>2
<1> QED
    BY <1>1, <1>2, <1>3, <1>4 DEF LifecycleInv, DaemonsAreAttempts, GateExcludesDaemons,
       RemovalIsExclusive

LEMMA SuperviseKeeps ==
    ASSUME LifecycleInv, Supervise
    PROVE  LifecycleInv'
<1>1. UNCHANGED <<gate, installed, cleanup, ctl, child>>
    BY DEF Supervise, PrepareAttempt, FinishAttempt, RecordOperationSuccess, CheckRepair, ApplyRepair
<1>2. SupervisionInv'
    BY LauncherKeeps, DaemonKeeps, RepairKeeps DEF LifecycleInv, SupervisionInv, Supervise
<1>3. DaemonsAreAttempts'
  <2>1. CASE RecordOperationSuccess
    <3>1. supervision \in States /\ supervision.attempt \in Attempts
        BY <2>1 DEF LifecycleInv, SupervisionInv, Sound, RecordOperationSuccess, Running
    <3> QED
        BY <2>1, <3>1 DEF LifecycleInv, DaemonsAreAttempts, RecordOperationSuccess, Running
  <2>2. CASE ~child
      BY <1>1, <2>2 DEF DaemonsAreAttempts
  <2>3. CASE child /\ (PrepareAttempt \/ FinishAttempt \/ CheckRepair \/ ApplyRepair)
    <3>1. supervision.attempt # NoAttempt /\ supervision.attempt.phase = "running"
        BY <2>3 DEF LifecycleInv, DaemonsAreAttempts, Running
    <3>2. supervision.exhausted => supervision.attempt = NoAttempt
        BY DEF LifecycleInv, SupervisionInv, Sound, Readable
    <3> QED
        BY <2>3, <3>1, <3>2 DEF PrepareAttempt, FinishAttempt, CheckRepair, ApplyRepair
  <2> QED
      BY <2>1, <2>2, <2>3 DEF Supervise
<1> QED
    BY <1>1, <1>2, <1>3 DEF LifecycleInv, CallsAreInDaemons, ControlsHoldTheGate,
       GateExcludesDaemons, RemovalIsExclusive

-----------------------------------------------------------------------------
(* The invariant of every step.                                            *)
LEMMA LifecycleInvNext == LifecycleInv /\ [Next]_vars => LifecycleInv'
<1> SUFFICES ASSUME LifecycleInv, [Next]_vars
             PROVE  LifecycleInv'
    OBVIOUS
<1>1. CASE UNCHANGED vars
  <2>1. UNCHANGED <<supervision, child, configured, streak, installed, gate, cleanup, ctl>>
      BY <1>1 DEF vars, supervisionVars
  <2> QED
      BY <2>1, QuietKeeps DEF LifecycleInv, CallsAreInDaemons, ControlsHoldTheGate
<1>2. CASE \E c \in Client, o \in Operation :
              (\E kind \in Kinds : Begin(c, o, kind)) \/ Resume(c, o) \/ ForceDrain(c, o)
    BY <1>2, ControllersStart
<1>3. CASE \E c \in Client : ControllerStep(c)
    BY <1>3, ControllerStepKeeps
<1>4. CASE StartDaemon \/ DaemonReady \/ Dispatch \/ RunsSettle \/ DaemonDies \/ HostRestarts
           \/ UserStarts \/ Supervise
    BY <1>4, DaemonStartsKeep, DaemonRunsKeep, DaemonEndsKeep, SuperviseKeeps
<1> QED
    BY <1>1, <1>2, <1>3, <1>4 DEF Next

LEMMA LifecycleStaysSound == Spec => []LifecycleInv
    BY LifecycleInvInit, LifecycleInvNext, PTL DEF Spec

(* However many commands drive however many operations, and wherever the   *)
(* Daemon and the Host go down, the supervision state stays readable.      *)
THEOREM LifecycleKeepsSupervision == Spec => []SupervisionStaysReadable
<1>1. LifecycleInv => SupervisionStaysReadable
    BY DEF LifecycleInv, SupervisionInv, Sound, SupervisionStaysReadable
<1> QED
    BY <1>1, LifecycleStaysSound, PTL

(* Nor do they extend the restarts in a row beyond the policy.             *)
THEOREM LifecycleKeepsTheBound == Spec => []RestartsAreBounded
<1>1. LifecycleInv => RestartsAreBounded
    BY TheBoundIsKept DEF LifecycleInv
<1> QED
    BY <1>1, LifecycleStaysSound, PTL

(* A removal deletes the managed content only while no Daemon lives, and   *)
(* none starts after it.                                                   *)
THEOREM RemovalExcludesDaemons == Spec => []RemovalIsExclusive
<1>1. LifecycleInv => RemovalIsExclusive
    BY DEF LifecycleInv
<1> QED
    BY <1>1, LifecycleStaysSound, PTL

-----------------------------------------------------------------------------
(* The journal and the receipts, for any number of controllers that drive  *)
(* the same operation.  Every entry that a controller has seen or is about *)
(* to write fits the receipt of its operation; a receipt moves in one      *)
(* direction only, and what fits it once does so from then on.  The other  *)
(* way round, the journal bounds how far the receipt may be, which the     *)
(* calls that outlive their controllers respect; and a controller that is  *)
(* behind the journal cannot write.                                        *)

BeforeCleanup == {"prepared", "draining", "drained", "handoff-prepared", "controller-ready",
                  "controller-accepted"}

JournalStages ==
    BeforeCleanup \cup
    {"cleanup-started", "owned-processes-stopped", "process-stopped", "replacement-started",
     "service-unregistered", "installation-removed", "completed", "repair-required"}

(* The stages that an operation can reach without the Daemon.              *)
WithoutDaemon == {"prepared", "process-stopped", "service-unregistered", "installation-removed",
                  "completed"}

NeedsDaemon(kind, stage) == stage \notin WithoutDaemon \/ (kind = "restart" /\ stage # "prepared")

Part(stage) == IF stage \in BeforeCleanup THEN 0
               ELSE IF stage = "cleanup-started" THEN 1
               ELSE IF stage = "owned-processes-stopped" THEN 2 ELSE 3

Entries == [kind : Kinds, stage : JournalStages, rev : Nat, forced : BOOLEAN, busy : BOOLEAN,
            owner : Nat, evidence : BOOLEAN, outcome : {None, "succeeded", "repair-required"}]

Over == {"process-stopped", "replacement-ready"}

Receipts == [stage : {"prepared", "draining", "handoff-prepared", "controller-accepted",
                      "cleanup-started"} \cup Over,
             held : BOOLEAN, owner : Nat, handoff : BOOLEAN, forced : BOOLEAN]

Daemons == [instance : Nat, ready : BOOLEAN, held : BOOLEAN, stopping : BOOLEAN,
            executing : BOOLEAN]

Calls == [op : Operation, moved : BOOLEAN, forced : BOOLEAN, replacement : BOOLEAN]

JournalTypes ==
    /\ journal \in [Operation -> {NoEntry} \cup Entries]
    /\ receipt \in [Operation -> {NoReceipt} \cup Receipts]
    /\ daemon \in Daemons
    /\ cleanup \in [Client -> {NoCall} \cup Calls]

Fits(e, r) ==
    /\ NeedsDaemon(e.kind, e.stage) => r.stage \notin {None, "prepared"}
    /\ e.stage = "owned-processes-stopped" => r.stage \in Over
    /\ e.kind = "restart" /\ e.outcome = "succeeded" =>
          r.stage = "replacement-ready" /\ r.owner = e.owner
    /\ e.outcome # None => e.stage \in {"completed", "repair-required"}

(* The hold of a receipt lasts from the drain to the end of the processes. *)
Orderly(r) ==
    /\ r.stage \notin {"prepared"} \cup Over => r.held
    /\ r.stage = "replacement-ready" => ~r.held
    /\ r.stage \notin {"prepared", "draining"} => r.handoff

Agrees(j, r) ==
    /\ r # NoReceipt =>
          /\ j # NoEntry
          /\ Orderly(r)
          /\ r.stage = "process-stopped" => Part(j.stage) >= 1
          /\ r.stage = "replacement-ready" => Part(j.stage) = 3
    /\ j # NoEntry => Fits(j, r)

(* A call of stopOwnedProcesses, which a later one may have overtaken.     *)
Attended(call, j, r) ==
    /\ j # NoEntry /\ Part(j.stage) >= 1
    /\ r.stage \in {"cleanup-started"} \cup Over
    /\ ~call.moved => r.stage = "cleanup-started"

(* What a controller is about to write.                                    *)
Follows(view, e, r) ==
    /\ e \in Entries /\ e.kind = view.kind
    /\ Part(view.stage) <= Part(e.stage)
    /\ Fits(e, r)

Writable(view, todo, r) ==
    /\ todo \in Seq(Entries)
    /\ \A i \in 1 .. Len(todo) :
          /\ Follows(view, todo[i], r)
          /\ \A k \in 1 .. i : Part(todo[k].stage) <= Part(todo[i].stage)

Seen(view, j, r) ==
    /\ view \in Entries /\ view.outcome = None
    /\ j # NoEntry
    /\ view.kind = j.kind /\ view.rev <= j.rev
    /\ view.rev = j.rev => view = j
    /\ Part(view.stage) <= Part(j.stage)
    /\ Fits(view, r)

Placed(at, view, todo) ==
    /\ at = "removing" => view.kind = "remove"
    /\ at = "preflighted" => view.stage = "prepared"
    /\ at = "cleanup" => view.stage = "cleanup-started"
    /\ at \in {"preflighted", "cleanup"} => todo = <<>>

ControlInv(x) ==
    x # Idle =>
        /\ x.op \in Operation
        /\ Seen(x.view, journal[x.op], receipt[x.op])
        /\ Writable(x.view, x.todo, receipt[x.op])
        /\ Placed(x.at, x.view, x.todo)

OperationsAgree == \A o \in Operation : Agrees(journal[o], receipt[o])

CallsAreAttended ==
    \A c \in Client :
        /\ cleanup[c] # NoCall =>
              Attended(cleanup[c], journal[cleanup[c].op], receipt[cleanup[c].op])
        /\ ctl[c].at = "cleanup" => cleanup[c] # NoCall /\ cleanup[c].op = ctl[c].op

ControlsFollow == \A c \in Client : ControlInv(ctl[c])

JournalInv == JournalTypes /\ OperationsAgree /\ CallsAreAttended /\ ControlsFollow

USE OperationAssumption

-----------------------------------------------------------------------------
(* What moves and what stays.                                              *)

Moves(r, next) ==
    /\ r.stage \notin {None, "prepared"} => next.stage \notin {None, "prepared"}
    /\ r.stage \in Over => next.stage \in Over
    /\ r.stage = "replacement-ready" => next = r

LEMMA PartIsNat == \A stage : Part(stage) \in 0 .. 3
    BY DEF Part

LEMMA FitsFromThenOn ==
    ASSUME NEW e, NEW r, NEW next, Fits(e, r), Moves(r, next)
    PROVE  Fits(e, next)
    BY DEF Fits, Moves, Over

LEMMA WritableFromThenOn ==
    ASSUME NEW view, NEW todo, NEW r, NEW next, Writable(view, todo, r), Moves(r, next)
    PROVE  Writable(view, todo, next)
    BY FitsFromThenOn DEF Writable, Follows

LEMMA SeenFromThenOn ==
    ASSUME NEW view, NEW j, NEW r, NEW next, Seen(view, j, r), Moves(r, next)
    PROVE  Seen(view, j, next)
    BY FitsFromThenOn DEF Seen

(* Who has seen an entry is behind its successor.                          *)
LEMMA SeenBehind ==
    ASSUME NEW view, NEW j \in Entries, NEW r, Seen(view, j, r),
           NEW e \in Entries, e.kind = j.kind, e.rev = j.rev + 1, Part(j.stage) <= Part(e.stage)
    PROVE  Seen(view, e, r)
<1>1. view.rev \in Nat /\ j.rev \in Nat
    BY DEF Seen, Entries
<1>2. e # NoEntry
    BY DEF Entries, NoEntry, JournalStages, BeforeCleanup
<1>3. Part(view.stage) <= Part(e.stage)
    BY PartIsNat DEF Seen
<1> QED
    BY <1>1, <1>2, <1>3 DEF Seen

LEMMA AgreesWithTheNext ==
    ASSUME NEW j \in Entries, NEW r, NEW e \in Entries, Agrees(j, r), Fits(e, r),
           Part(j.stage) <= Part(e.stage)
    PROVE  Agrees(e, r)
<1>1. j # NoEntry /\ e # NoEntry
    BY DEF Entries, NoEntry, JournalStages, BeforeCleanup
<1> QED
    BY <1>1, PartIsNat DEF Agrees

LEMMA NothingToWrite ==
    ASSUME NEW view, NEW r
    PROVE  Writable(view, <<>>, r)
    BY DEF Writable

LEMMA OneToWrite ==
    ASSUME NEW view, NEW r, NEW e, Follows(view, e, r)
    PROVE  Writable(view, <<e>>, r)
<1>1. <<e>> \in Seq(Entries) /\ Len(<<e>>) = 1 /\ <<e>>[1] = e
    BY DEF Follows
<1> QED
    BY <1>1, PartIsNat DEF Writable

LEMMA PairToWrite ==
    ASSUME NEW view, NEW r, NEW e, NEW f, Follows(view, e, r), Follows(view, f, r),
           Part(e.stage) <= Part(f.stage),
           NEW todo \in Seq(Entries), Len(todo) = 2, todo[1] = e, todo[2] = f
    PROVE  Writable(view, todo, r)
<1>1. \A i \in 1 .. Len(todo) : i = 1 \/ i = 2
    OBVIOUS
<1>2. \A i \in 1 .. Len(todo) : \A k \in 1 .. i : k = 1 \/ (i = 2 /\ k = 2)
    OBVIOUS
<1>3. \A i \in 1 .. Len(todo) :
          Follows(view, todo[i], r) /\ \A k \in 1 .. i : Part(todo[k].stage) <= Part(todo[i].stage)
    BY <1>1, <1>2, PartIsNat
<1> QED
    BY <1>3 DEF Writable

LEMMA TwoToWrite ==
    ASSUME NEW view, NEW r, NEW e, NEW f, Follows(view, e, r), Follows(view, f, r),
           Part(e.stage) <= Part(f.stage)
    PROVE  Writable(view, <<e, f>>, r)
<1> DEFINE todo == <<e, f>>
<1>1. todo \in Seq(Entries) /\ Len(todo) = 2 /\ todo[1] = e /\ todo[2] = f
    BY DEF Follows
<1> HIDE DEF todo
<1>2. Writable(view, todo, r)
    BY <1>1, PairToWrite
<1> QED
    BY <1>2 DEF todo

(* The entries that a step leads to.                                       *)
LEMMA StageFollows ==
    ASSUME NEW view \in Entries, view.outcome = None, NEW r, NEW stage \in JournalStages,
           Part(view.stage) <= Part(stage),
           NeedsDaemon(view.kind, stage) => r.stage \notin {None, "prepared"},
           stage = "owned-processes-stopped" => r.stage \in Over,
           NEW e \in Entries, e.stage = stage, e.kind = view.kind, e.outcome = None
    PROVE  Follows(view, e, r)
    BY DEF Follows, Fits

LEMMA RepairFollows ==
    ASSUME NEW view \in Entries, NEW r, r.stage \notin {None, "prepared"}
    PROVE  Follows(view, ToRepair(view), r)
<1>1. /\ ToRepair(view) \in Entries /\ ToRepair(view).kind = view.kind
      /\ ToRepair(view).stage = "repair-required" /\ ToRepair(view).outcome = "repair-required"
    BY DEF ToRepair, Entries, JournalStages
<1>2. Part("repair-required") = 3
    BY DEF Part, BeforeCleanup
<1> QED
    BY <1>1, <1>2, PartIsNat DEF Follows, Fits, NeedsDaemon, WithoutDaemon

LEMMA CompletionFollows ==
    ASSUME NEW view \in Entries, view.kind # "restart", NEW r
    PROVE  Follows(view, Completed(view), r)
<1>1. /\ Completed(view) \in Entries /\ Completed(view).kind = view.kind
      /\ Completed(view).stage = "completed"
    BY DEF Completed, Entries, JournalStages
<1>2. Part("completed") = 3
    BY DEF Part, BeforeCleanup
<1> QED
    BY <1>1, <1>2, PartIsNat DEF Follows, Fits, NeedsDaemon, WithoutDaemon


-----------------------------------------------------------------------------
(* How the steps compose.                                                  *)

LEMMA ControlFacts ==
    ASSUME LifecycleInv, JournalInv, NEW c \in Client, ctl[c] # Idle
    PROVE  /\ ctl[c] = [op |-> Op(c), at |-> ctl[c].at, view |-> View(c), todo |-> ctl[c].todo]
           /\ Op(c) \in Operation
           /\ View(c) \in Entries /\ View(c).outcome = None
           /\ Seen(View(c), journal[Op(c)], receipt[Op(c)])
           /\ Writable(View(c), ctl[c].todo, receipt[Op(c)])
           /\ Placed(ctl[c].at, View(c), ctl[c].todo)
           /\ journal[Op(c)] \in Entries
           /\ receipt[Op(c)] \in {NoReceipt} \cup Receipts
           /\ Agrees(journal[Op(c)], receipt[Op(c)])
<1>1. ControlInv(ctl[c]) /\ Shaped(ctl[c])
    BY DEF JournalInv, ControlsFollow, LifecycleInv, ControlsHoldTheGate
<1>2. /\ ctl[c] = [op |-> Op(c), at |-> ctl[c].at, view |-> View(c), todo |-> ctl[c].todo]
      /\ Op(c) \in Operation
      /\ Seen(View(c), journal[Op(c)], receipt[Op(c)])
      /\ Writable(View(c), ctl[c].todo, receipt[Op(c)])
      /\ Placed(ctl[c].at, View(c), ctl[c].todo)
    BY <1>1 DEF ControlInv, Shaped, View, Op
<1>3. journal[Op(c)] \in Entries /\ receipt[Op(c)] \in {NoReceipt} \cup Receipts
    BY <1>2 DEF JournalInv, JournalTypes, Seen
<1>4. Agrees(journal[Op(c)], receipt[Op(c)])
    BY <1>2 DEF JournalInv, OperationsAgree
<1> QED
    BY <1>2, <1>3, <1>4 DEF Seen

LEMMA DoneBy ==
    ASSUME LifecycleInv, NEW c \in Client, ctl[c] # Idle, NEW at, NEW entries, Do(c, at, entries)
    PROVE  /\ ctl'[c] = [op |-> Op(c), at |-> at, view |-> View(c), todo |-> entries]
           /\ \A d \in Client : d # c => ctl'[d] = ctl[d]
<1>1. Shaped(ctl[c]) /\ ctl = [d \in Client |-> ctl[d]]
    BY DEF LifecycleInv, ControlsHoldTheGate
<1> QED
    BY <1>1 DEF Shaped, Do, View, Op

LEMMA FollowsOn ==
    ASSUME LifecycleInv, JournalInv, NEW c \in Client, ctl[c] # Idle, NEW at, NEW entries, NEW r,
           Do(c, at, entries), UNCHANGED journal, receipt'[Op(c)] = r,
           Moves(receipt[Op(c)], r), Writable(View(c), entries, r), Placed(at, View(c), entries)
    PROVE  ControlInv(ctl[c])'
<1>1. /\ Op(c) \in Operation /\ Seen(View(c), journal[Op(c)], receipt[Op(c)])
    BY ControlFacts
<1>2. Seen(View(c), journal[Op(c)], r)
    BY <1>1, SeenFromThenOn
<1>3. ctl'[c] = [op |-> Op(c), at |-> at, view |-> View(c), todo |-> entries]
    BY DoneBy
<1>4. ctl'[c].op = Op(c) /\ ctl'[c].view = View(c) /\ ctl'[c].todo = entries /\ ctl'[c].at = at
    BY <1>3
<1> QED
    BY <1>1, <1>2, <1>4 DEF ControlInv

(* The receipt of an operation moves.                                      *)
LEMMA ReceiptMoves ==
    ASSUME JournalInv, NEW o \in Operation, NEW r \in {NoReceipt} \cup Receipts,
           receipt' = [receipt EXCEPT ![o] = r], UNCHANGED journal,
           Moves(receipt[o], r), Agrees(journal[o], r),
           daemon' \in Daemons, cleanup' \in [Client -> {NoCall} \cup Calls], CallsAreAttended',
           \A d \in Client : ctl'[d] = ctl[d] \/ ctl'[d] = Idle \/ ControlInv(ctl[d])'
    PROVE  JournalInv'
<1>1. receipt \in [Operation -> {NoReceipt} \cup Receipts]
    BY DEF JournalInv, JournalTypes
<1>2. /\ receipt'[o] = r /\ receipt' \in [Operation -> {NoReceipt} \cup Receipts]
      /\ \A p \in Operation : p # o => receipt'[p] = receipt[p]
    BY <1>1
<1>3. JournalTypes'
    BY <1>2 DEF JournalInv, JournalTypes
<1>4. OperationsAgree'
    BY <1>2 DEF JournalInv, OperationsAgree
<1>5. ASSUME NEW d \in Client, ctl'[d] = ctl[d]
      PROVE  ControlInv(ctl[d])'
  <2>1. ControlInv(ctl[d])
      BY DEF JournalInv, ControlsFollow
  <2>2. CASE ctl[d] = Idle
      BY <1>5, <2>2 DEF ControlInv
  <2>3. CASE ctl[d] # Idle /\ ctl[d].op # o
      BY <1>2, <1>5, <2>1, <2>3 DEF ControlInv
  <2>4. CASE ctl[d] # Idle /\ ctl[d].op = o
    <3>1. /\ Seen(ctl[d].view, journal[o], receipt[o])
          /\ Writable(ctl[d].view, ctl[d].todo, receipt[o])
          /\ Placed(ctl[d].at, ctl[d].view, ctl[d].todo)
        BY <2>1, <2>4 DEF ControlInv
    <3>2. /\ Seen(ctl[d].view, journal[o], r)
          /\ Writable(ctl[d].view, ctl[d].todo, r)
        BY <3>1, SeenFromThenOn, WritableFromThenOn
    <3> QED
        BY <1>2, <1>5, <2>4, <3>1, <3>2 DEF ControlInv
  <2> QED
      BY <2>2, <2>3, <2>4
<1>6. \A d \in Client : ctl'[d] = Idle => ControlInv(ctl[d])'
    BY DEF ControlInv
<1> QED
    BY <1>3, <1>4, <1>5, <1>6 DEF JournalInv, ControlsFollow

(* A controller moves the receipt of its operation.                        *)
LEMMA ControllerMoves ==
    ASSUME LifecycleInv, JournalInv, NEW c \in Client, ctl[c] # Idle, NEW at, NEW entries,
           NEW r \in {NoReceipt} \cup Receipts,
           Do(c, at, entries), receipt' = [receipt EXCEPT ![Op(c)] = r], UNCHANGED journal,
           Moves(receipt[Op(c)], r), Agrees(journal[Op(c)], r),
           Writable(View(c), entries, r), Placed(at, View(c), entries),
           daemon' \in Daemons, cleanup' \in [Client -> {NoCall} \cup Calls], CallsAreAttended'
    PROVE  JournalInv'
<1>1. Op(c) \in Operation /\ receipt'[Op(c)] = r
    BY ControlFacts DEF JournalInv, JournalTypes
<1>2. ControlInv(ctl[c])'
    BY <1>1, FollowsOn
<1>3. \A d \in Client : d # c => ctl'[d] = ctl[d]
    BY DoneBy
<1> QED
    BY <1>1, <1>2, <1>3, ReceiptMoves

(* It does so outside the calls, and while none is under way.              *)
LEMMA ControllerMovesAlone ==
    ASSUME LifecycleInv, JournalInv, NEW c \in Client, ctl[c] # Idle, NEW at, NEW entries,
           NEW r \in {NoReceipt} \cup Receipts,
           Do(c, at, entries), receipt' = [receipt EXCEPT ![Op(c)] = r], UNCHANGED journal,
           Moves(receipt[Op(c)], r), Agrees(journal[Op(c)], r),
           Writable(View(c), entries, r), Placed(at, View(c), entries),
           daemon' \in Daemons, UNCHANGED cleanup, at # "cleanup",
           receipt[Op(c)].stage = "cleanup-started" => r = receipt[Op(c)]
    PROVE  JournalInv'
<1> DEFINE o == Op(c)
<1>1. o \in Operation
    BY ControlFacts
<1>2. /\ receipt'[o] = r
      /\ \A p \in Operation : p # o => receipt'[p] = receipt[p]
    BY <1>1 DEF JournalInv, JournalTypes
<1>3. cleanup \in [Client -> {NoCall} \cup Calls]
    BY DEF JournalInv, JournalTypes
<1>4. ASSUME NEW d \in Client, cleanup[d] # NoCall
      PROVE  Attended(cleanup[d], journal[cleanup[d].op], receipt'[cleanup[d].op])
  <2>1. /\ cleanup[d].op \in Operation
        /\ Attended(cleanup[d], journal[cleanup[d].op], receipt[cleanup[d].op])
      BY <1>3, <1>4 DEF JournalInv, CallsAreAttended, Calls
  <2>2. CASE cleanup[d].op # o
      BY <1>2, <2>1, <2>2
  <2>3. CASE cleanup[d].op = o
      BY <1>2, <2>1, <2>3 DEF Attended, Moves
  <2> QED
      BY <2>2, <2>3
<1>5. \A d \in Client : ctl'[d].at = "cleanup" => ctl'[d] = ctl[d]
  <2>1. /\ ctl'[c] = [op |-> Op(c), at |-> at, view |-> View(c), todo |-> entries]
        /\ \A d \in Client : d # c => ctl'[d] = ctl[d]
      BY DoneBy
  <2>2. ctl'[c].at = at
      BY <2>1
  <2> QED
      BY <2>1, <2>2
<1>6. CallsAreAttended'
    BY <1>4, <1>5 DEF JournalInv, CallsAreAttended
<1> QED
    BY <1>3, <1>6, ControllerMoves

(* A controller that decides what to write.                                *)
LEMMA ControllerDecides ==
    ASSUME LifecycleInv, JournalInv, NEW c \in Client, ctl[c] # Idle, NEW at, NEW entries,
           Do(c, at, entries), UNCHANGED <<journal, receipt, cleanup>>, daemon' \in Daemons,
           Writable(View(c), entries, receipt[Op(c)]), Placed(at, View(c), entries),
           at # "cleanup"
    PROVE  JournalInv'
<1>1. /\ Agrees(journal[Op(c)], receipt[Op(c)])
      /\ receipt[Op(c)] \in {NoReceipt} \cup Receipts
    BY ControlFacts
<1>2. receipt' = [receipt EXCEPT ![Op(c)] = receipt[Op(c)]]
    BY DEF JournalInv, JournalTypes
<1>3. Moves(receipt[Op(c)], receipt[Op(c)])
    BY DEF Moves
<1> QED
    BY <1>1, <1>2, <1>3, ControllerMovesAlone

-----------------------------------------------------------------------------
(* The steps of the controllers.                                           *)

LEMMA JournalInvInit == Init => JournalInv
<1> SUFFICES ASSUME Init
             PROVE  JournalInv
    OBVIOUS
<1>1. JournalTypes
    BY DEF Init, JournalTypes, Down, Daemons
<1>2. OperationsAgree
    BY DEF Init, OperationsAgree, Agrees
<1>3. CallsAreAttended /\ ControlsFollow
    BY DEF Init, CallsAreAttended, ControlsFollow, ControlInv, Idle
<1> QED
    BY <1>1, <1>2, <1>3 DEF JournalInv

(* Stages that an operation passes on its own.                             *)
LEMMA StagesPassed ==
    ASSUME LifecycleInv, JournalInv, NEW c \in Client,
           \/ SwitchAutomaticStart(c) \/ SettleStopped(c) \/ CompleteStop(c)
           \/ SealPurgeSafety(c) \/ StopNativeFails(c) \/ StartReplacement(c)
           \/ ResumeHandoff(c) \/ ResumeAccepted(c)
    PROVE  JournalInv'
<1> DEFINE view == View(c)
           r == receipt[Op(c)]
<1>1. /\ ctl[c] # Idle /\ ctl[c].at = "step"
      /\ UNCHANGED <<journal, receipt, cleanup, daemon>>
    BY DEF SwitchAutomaticStart, SettleStopped, CompleteStop, SealPurgeSafety, StopNativeFails,
       StartReplacement, ResumeHandoff, ResumeAccepted, At, Idle
<1>2. /\ view \in Entries /\ view.outcome = None /\ Fits(view, r)
    BY <1>1, ControlFacts DEF Seen
<1>3. ASSUME NEW e, Follows(view, e, r), Do(c, "step", <<e>>)
      PROVE  JournalInv'
  <2>1. Writable(view, <<e>>, r) /\ Placed("step", view, <<e>>)
      BY <1>3, OneToWrite DEF Placed
  <2> QED
      BY <1>1, <1>3, <2>1, ControllerDecides DEF JournalInv, JournalTypes
<1>4. ASSUME NEW stage \in JournalStages, Do(c, "step", <<To(view, stage)>>),
             Part(view.stage) <= Part(stage),
             NeedsDaemon(view.kind, stage) => NeedsDaemon(view.kind, view.stage),
             stage # "owned-processes-stopped"
      PROVE  JournalInv'
  <2>1. /\ To(view, stage) \in Entries /\ To(view, stage).stage = stage
        /\ To(view, stage).kind = view.kind /\ To(view, stage).outcome = None
      BY <1>2 DEF To, Entries
  <2>2. Follows(view, To(view, stage), r)
      BY <1>2, <1>4, <2>1, StageFollows DEF Fits
  <2> QED
      BY <1>3, <1>4, <2>2
<1>5. CASE Do(c, "step", <<Completed(view)>>) /\ view.kind # "restart"
    BY <1>2, <1>3, <1>5, CompletionFollows
<1>6. CASE SettleStopped(c)
  <2>1. CASE view.kind = "remove"
               /\ Do(c, "step", <<[To(view, "process-stopped") EXCEPT !.evidence = TRUE]>>)
    <3> DEFINE e == [To(view, "process-stopped") EXCEPT !.evidence = TRUE]
    <3>1. /\ e \in Entries /\ e.stage = "process-stopped"
          /\ e.kind = view.kind /\ e.outcome = None
        BY <1>2 DEF To, Entries, JournalStages
    <3>2. Part(view.stage) <= Part("process-stopped")
        BY PartIsNat DEF Part, BeforeCleanup
    <3>3. "process-stopped" \in JournalStages /\ ~NeedsDaemon(view.kind, "process-stopped")
        BY <2>1 DEF NeedsDaemon, WithoutDaemon, JournalStages
    <3> HIDE DEF e
    <3>4. Follows(view, e, r)
        BY <1>2, <3>1, <3>2, <3>3, StageFollows
    <3> QED
        BY <1>3, <2>1, <3>4 DEF e
  <2> QED
      BY <1>5, <1>6, <2>1 DEF SettleStopped
<1>7. CASE SealPurgeSafety(c)
  <2> DEFINE e == [view EXCEPT !.evidence = TRUE]
  <2>1. /\ e \in Entries /\ e.stage = view.stage /\ e.kind = view.kind /\ e.outcome = None
        /\ view.stage \in JournalStages
      BY <1>2 DEF Entries
  <2>2. /\ NeedsDaemon(view.kind, view.stage) => r.stage \notin {None, "prepared"}
        /\ view.stage = "owned-processes-stopped" => r.stage \in Over
      BY <1>2 DEF Fits
  <2>3. Do(c, "step", <<e>>)
      BY <1>7 DEF SealPurgeSafety
  <2> HIDE DEF e
  <2>4. Part(view.stage) <= Part(view.stage)
    <3>1. Part(view.stage) \in Int
        BY PartIsNat
    <3> QED
        BY <3>1
  <2>5. Follows(view, e, r)
      BY <1>2, <2>1, <2>2, <2>4, StageFollows
  <2> QED
      BY <1>3, <2>3, <2>5
<1>8. CASE StopNativeFails(c)
  <2>1. r.stage \notin {None, "prepared"} /\ Do(c, "step", <<ToRepair(view)>>)
      BY <1>2, <1>8 DEF Fits, StopNativeFails, At, NeedsDaemon, WithoutDaemon
  <2> QED
      BY <1>2, <1>3, <2>1, RepairFollows
<1>9. CASE StartReplacement(c)
  <2>1. /\ view.stage = "process-stopped" /\ view.kind = "restart"
        /\ Do(c, "step", <<To(view, "replacement-started")>>)
      BY <1>9 DEF StartReplacement, At
  <2> QED
      BY <1>4, <2>1 DEF Part, BeforeCleanup, JournalStages, NeedsDaemon
<1>10. CASE ResumeHandoff(c) \/ ResumeAccepted(c)
  <2>1. \/ view.stage = "handoff-prepared" /\ Do(c, "step", <<To(view, "controller-ready")>>)
        \/ view.stage = "controller-accepted" /\ Do(c, "step", <<To(view, "cleanup-started")>>)
      BY <1>10 DEF ResumeHandoff, ResumeAccepted, At
  <2> QED
      BY <1>4, <2>1 DEF Part, BeforeCleanup, JournalStages, NeedsDaemon, WithoutDaemon
<1> QED
    BY <1>5, <1>6, <1>7, <1>8, <1>9, <1>10 DEF SwitchAutomaticStart, CompleteStop

(* The drain and the handoff, which move the receipt.                      *)
LEMMA AgreesFromThenOn ==
    ASSUME NEW j \in Entries, NEW r, NEW next, Agrees(j, r), Moves(r, next), Orderly(next),
           next.stage = "process-stopped" => Part(j.stage) >= 1,
           next.stage = "replacement-ready" => Part(j.stage) = 3
    PROVE  Agrees(j, next)
<1>1. j # NoEntry
    BY DEF Entries, NoEntry, JournalStages, BeforeCleanup
<1> QED
    BY <1>1, FitsFromThenOn DEF Agrees

LEMMA PreparedIsSound ==
    ASSUME JournalInv, NEW o \in Operation, journal[o] # NoEntry
    PROVE  /\ Prepared(o) \in Receipts
           /\ Moves(receipt[o], Prepared(o))
           /\ Agrees(journal[o], Prepared(o))
           /\ receipt[o].stage = "cleanup-started" => Prepared(o) = receipt[o]
<1>1. /\ receipt[o] \in {NoReceipt} \cup Receipts /\ Agrees(journal[o], receipt[o])
      /\ journal[o] \in Entries
    BY DEF JournalInv, JournalTypes, OperationsAgree
<1>2. CASE receipt[o] # NoReceipt
    BY <1>1, <1>2 DEF Prepared, Moves
<1>3. CASE receipt[o] = NoReceipt
  <2>1. Prepared(o) = Receipt
      BY <1>3 DEF Prepared
  <2>2. /\ Receipt \in Receipts /\ Receipt.stage = "prepared"
      BY DEF Receipt, Receipts, JournalInv, JournalTypes, Daemons
  <2>3. receipt[o].stage = None
      BY <1>3 DEF NoReceipt
  <2>4. Moves(receipt[o], Receipt) /\ Orderly(Receipt)
      BY <2>2, <2>3 DEF Moves, Orderly, Over
  <2> QED
      BY <1>1, <2>1, <2>2, <2>3, <2>4, AgreesFromThenOn
<1> QED
    BY <1>2, <1>3

LEMMA DrainBegins ==
    ASSUME LifecycleInv, JournalInv, NEW c \in Client, Preflight(c) \/ BeginDrain(c)
    PROVE  JournalInv'
<1> DEFINE o == Op(c)
           view == View(c)
<1>1. ctl[c] # Idle /\ UNCHANGED <<journal, cleanup>>
    BY DEF Preflight, BeginDrain, At, Idle
<1>2. /\ o \in Operation /\ journal[o] \in Entries /\ journal[o] # NoEntry
      /\ view \in Entries /\ view.outcome = None
      /\ Placed(ctl[c].at, view, ctl[c].todo)
    BY <1>1, ControlFacts DEF Seen
<1>3. /\ Prepared(o) \in Receipts
      /\ Moves(receipt[o], Prepared(o))
      /\ Agrees(journal[o], Prepared(o))
      /\ receipt[o].stage = "cleanup-started" => Prepared(o) = receipt[o]
    BY <1>2, PreparedIsSound
<1>4. daemon \in Daemons
    BY DEF JournalInv, JournalTypes
<1>5. CASE Preflight(c)
  <2>1. /\ receipt' = [receipt EXCEPT ![o] = Prepared(o)] /\ daemon' = daemon
        /\ Do(c, "preflighted", <<>>) /\ view.stage = "prepared"
      BY <1>5 DEF Preflight, At
  <2>2. Writable(view, <<>>, Prepared(o)) /\ Placed("preflighted", view, <<>>)
      BY <2>1, NothingToWrite DEF Placed
  <2> QED
      BY <1>1, <1>3, <1>4, <2>1, <2>2, ControllerMovesAlone
<1>6. CASE BeginDrain(c)
  <2> DEFINE r == Prepared(o)
             next == IF r.stage # "prepared" THEN r ELSE Draining(r)
             e == [To(view, "draining") EXCEPT !.busy = daemon.executing,
                                               !.owner = daemon.instance]
  <2>1. /\ receipt' = [receipt EXCEPT ![o] = next] /\ daemon' = [daemon EXCEPT !.held = TRUE]
        /\ Do(c, "step", <<e>>) /\ ctl[c].at = "preflighted"
      BY <1>6 DEF BeginDrain
  <2>2. /\ e \in Entries /\ e.stage = "draining" /\ e.kind = view.kind /\ e.outcome = None
      BY <1>2, <1>4 DEF To, Entries, JournalStages, BeforeCleanup, Daemons
  <2>3. /\ next \in Receipts /\ Moves(r, next) /\ Orderly(next)
        /\ next.stage \notin {None, "prepared"}
        /\ next # r => next.stage = "draining" /\ r.stage = "prepared"
    <3>1. Draining(r) \in Receipts /\ Draining(r).stage = "draining" /\ Draining(r).held
        BY <1>3, <1>4 DEF Draining, Advanced, Receipts, Daemons
    <3>2. r \in Receipts /\ Orderly(r) /\ r.stage # None
        BY <1>3 DEF Agrees, Receipts, NoReceipt, Over
    <3> HIDE DEF r
    <3>3. CASE r.stage # "prepared"
        BY <3>2, <3>3 DEF Moves
    <3>4. CASE r.stage = "prepared"
        BY <3>1, <3>4 DEF Moves, Orderly, Over
    <3> QED
        BY <3>3, <3>4
  <2>4. /\ next \in {NoReceipt} \cup Receipts /\ Moves(receipt[o], next)
        /\ Agrees(journal[o], next)
        /\ receipt[o].stage = "cleanup-started" => next = receipt[o]
    <3> HIDE DEF r, next
    <3>1. Moves(receipt[o], next)
        BY <1>3, <2>3 DEF r, Moves, Over
    <3>2. Agrees(journal[o], next)
      <4>1. CASE next = r
          BY <1>3, <4>1 DEF r
      <4>2. CASE next # r
          BY <1>2, <1>3, <2>3, <4>2, AgreesFromThenOn DEF r
      <4> QED
          BY <4>1, <4>2
    <3> QED
        BY <1>3, <2>3, <3>1, <3>2 DEF r
  <2>5. view.stage = "prepared" /\ Part("prepared") = 0 /\ Part("draining") = 0
      BY <1>2, <2>1 DEF Placed, Part, BeforeCleanup
  <2> HIDE DEF next, e
  <2>6. Follows(view, e, next)
      BY <1>2, <2>2, <2>3, <2>5, StageFollows DEF JournalStages, BeforeCleanup
  <2>7. Writable(view, <<e>>, next) /\ Placed("step", view, <<e>>)
      BY <2>6, OneToWrite DEF Placed
  <2>8. daemon' \in Daemons
      BY <1>4, <2>1 DEF Daemons
  <2> QED
      BY <1>1, <2>1, <2>4, <2>7, <2>8, ControllerMovesAlone
<1> QED
    BY <1>5, <1>6

LEMMA DrainEnds ==
    ASSUME LifecycleInv, JournalInv, NEW c \in Client, ReadDrain(c)
    PROVE  JournalInv'
<1> DEFINE view == View(c)
           r == receipt[Op(c)]
           seen == [view EXCEPT !.busy = daemon.executing]
           drained == To(seen, "drained")
           entries == (IF seen = view THEN <<>> ELSE <<seen>>)
                      \o (IF daemon.executing THEN <<>> ELSE <<drained>>)
<1>1. /\ ctl[c] # Idle /\ UNCHANGED <<journal, cleanup, receipt, daemon>>
      /\ view.stage = "draining" /\ Do(c, "step", entries)
    BY DEF ReadDrain, At, Idle
<1>2. /\ view \in Entries /\ view.outcome = None /\ Fits(view, r) /\ daemon \in Daemons
    BY <1>1, ControlFacts DEF Seen, JournalInv, JournalTypes
<1>3. r.stage \notin {None, "prepared"}
    BY <1>1, <1>2 DEF Fits, NeedsDaemon, WithoutDaemon
<1>4. Part("draining") = 0 /\ Part("drained") = 0 /\ {"draining", "drained"} \subseteq JournalStages
    BY DEF Part, BeforeCleanup, JournalStages
<1>5. /\ seen \in Entries /\ seen.stage = "draining" /\ seen.kind = view.kind
      /\ seen.outcome = None
    BY <1>1, <1>2, <1>4 DEF Entries, Daemons
<1> HIDE DEF seen
<1>6. /\ drained \in Entries /\ drained.stage = "drained" /\ drained.kind = view.kind
      /\ drained.outcome = None
    BY <1>4, <1>5 DEF Entries, To
<1> HIDE DEF drained
<1>7. Follows(view, seen, r) /\ Follows(view, drained, r)
    BY <1>1, <1>2, <1>3, <1>4, <1>5, <1>6, StageFollows
<1>8. /\ <<>> \in Seq(Entries) /\ <<seen>> \in Seq(Entries) /\ <<drained>> \in Seq(Entries)
      /\ <<>> \o <<>> = <<>> /\ <<seen>> \o <<>> = <<seen>> /\ <<>> \o <<drained>> = <<drained>>
    BY <1>7, ConcatEmptySeq DEF Follows
<1>9. CASE entries \in {<<>>, <<seen>>, <<drained>>}
  <2>1. Writable(view, entries, r)
      BY <1>7, <1>9, NothingToWrite, OneToWrite
  <2> QED
      BY <1>1, <1>2, <2>1, ControllerDecides DEF Placed
<1>10. CASE entries = <<seen>> \o <<drained>>
  <2> DEFINE both == <<seen>> \o <<drained>>
  <2>1. both \in Seq(Entries) /\ Len(both) = 2 /\ both[1] = seen /\ both[2] = drained
      BY <1>8, ConcatProperties
  <2> HIDE DEF both
  <2>2. Writable(view, both, r)
      BY <1>4, <1>5, <1>6, <1>7, <2>1, PairToWrite
  <2> QED
      BY <1>1, <1>2, <1>10, <2>2, ControllerDecides DEF Placed, both
<1> QED
    BY <1>8, <1>9, <1>10

LEMMA HandoffMoves ==
    ASSUME LifecycleInv, JournalInv, NEW c \in Client,
           PrepareHandoff(c) \/ ConfirmControllerReady(c)
    PROVE  JournalInv'
<1> DEFINE o == Op(c)
           view == View(c)
           r == receipt[o]
<1>1. /\ ctl[c] # Idle /\ UNCHANGED <<journal, cleanup, daemon>>
    BY DEF PrepareHandoff, ConfirmControllerReady, At, Idle
<1>2. /\ view \in Entries /\ view.outcome = None /\ Fits(view, r) /\ daemon \in Daemons
      /\ o \in Operation /\ journal[o] \in Entries /\ Agrees(journal[o], r)
      /\ r \in {NoReceipt} \cup Receipts
    BY <1>1, ControlFacts DEF Seen, JournalInv, JournalTypes
<1>3. ASSUME NEW next \in Receipts, Moves(r, next), Orderly(next),
             next.stage \notin {None, "prepared"},
             next.stage \in Over \/ r.stage = "cleanup-started" => next = r,
             receipt' = [receipt EXCEPT ![o] = next],
             NEW e \in Entries, NEW f \in Entries, Do(c, "step", <<e, f>>),
             e.kind = view.kind, f.kind = view.kind, e.outcome = None, f.outcome = None,
             e.stage \in BeforeCleanup, f.stage \in BeforeCleanup \cup {"cleanup-started"},
             view.stage \in BeforeCleanup
      PROVE  JournalInv'
  <2>1. Agrees(journal[o], next)
      BY <1>2, <1>3, AgreesFromThenOn DEF Over
  <2>2. /\ Part(view.stage) <= Part(e.stage) /\ Part(view.stage) <= Part(f.stage)
        /\ Part(e.stage) <= Part(f.stage)
      BY <1>3 DEF Part
  <2>3. Follows(view, e, next) /\ Follows(view, f, next)
      BY <1>2, <1>3, <2>2 DEF Follows, Fits, BeforeCleanup
  <2>4. Writable(view, <<e, f>>, next) /\ Placed("step", view, <<e, f>>)
      BY <2>2, <2>3, TwoToWrite DEF Placed
  <2> QED
      BY <1>1, <1>2, <1>3, <2>1, <2>4, ControllerMovesAlone
<1>4. CASE PrepareHandoff(c)
  <2> DEFINE next == IF r.handoff THEN r
                     ELSE [Advanced(r, "handoff-prepared", daemon.instance) EXCEPT !.handoff = TRUE]
             e == [To(view, "handoff-prepared") EXCEPT !.owner = next.owner]
             f == [To(view, "controller-ready") EXCEPT !.owner = next.owner]
  <2>1. /\ r.held /\ receipt' = [receipt EXCEPT ![o] = next] /\ Do(c, "step", <<e, f>>)
        /\ view.stage \in {"drained", "draining"}
      BY <1>4 DEF PrepareHandoff, At
  <2>2. /\ r \in Receipts /\ Orderly(r) /\ r.stage \notin {None, "prepared"}
      BY <1>2, <2>1 DEF NoReceipt, Agrees, Fits, NeedsDaemon, WithoutDaemon
  <2>3. /\ next \in Receipts /\ Moves(r, next) /\ Orderly(next)
        /\ next.stage \notin {None, "prepared"}
        /\ next.stage \in Over \/ r.stage = "cleanup-started" => next = r
      BY <1>2, <2>1, <2>2 DEF Advanced, Receipts, Daemons, Moves, Orderly, Over
  <2>4. next.owner \in Nat
      BY <2>3 DEF Receipts
  <2> HIDE DEF next
  <2>5. /\ e \in Entries /\ f \in Entries /\ e.kind = view.kind /\ f.kind = view.kind
        /\ e.outcome = None /\ f.outcome = None
        /\ e.stage = "handoff-prepared" /\ f.stage = "controller-ready"
      BY <1>2, <2>4 DEF To, Entries, JournalStages, BeforeCleanup
  <2> HIDE DEF e, f
  <2> QED
      BY <1>3, <2>1, <2>3, <2>5 DEF BeforeCleanup
<1>5. CASE ConfirmControllerReady(c)
  <2> DEFINE next == IF r.stage = "controller-accepted" THEN r
                     ELSE Advanced(r, "controller-accepted", daemon.instance)
             e == To(view, "controller-accepted")
             f == To(view, "cleanup-started")
  <2>1. /\ r.stage \in {"handoff-prepared", "controller-accepted"}
        /\ receipt' = [receipt EXCEPT ![o] = next] /\ Do(c, "step", <<e, f>>)
        /\ view.stage = "controller-ready"
      BY <1>5 DEF ConfirmControllerReady, At
  <2>2. r \in Receipts /\ Orderly(r)
      BY <1>2, <2>1 DEF NoReceipt, Agrees
  <2>3. /\ next \in Receipts /\ Moves(r, next) /\ Orderly(next)
        /\ next.stage = "controller-accepted"
      BY <1>2, <2>1, <2>2 DEF Advanced, Receipts, Daemons, Moves, Orderly, Over
  <2>4. /\ e \in Entries /\ f \in Entries /\ e.kind = view.kind /\ f.kind = view.kind
        /\ e.outcome = None /\ f.outcome = None
        /\ e.stage = "controller-accepted" /\ f.stage = "cleanup-started"
      BY <1>2 DEF To, Entries, JournalStages, BeforeCleanup
  <2> HIDE DEF next, e, f
  <2> QED
      BY <1>3, <2>1, <2>3, <2>4 DEF BeforeCleanup, Over
<1> QED
    BY <1>4, <1>5

(* The replacement takes over.                                             *)
LEMMA ReplacementMoves ==
    ASSUME LifecycleInv, JournalInv, NEW c \in Client, ConfirmReplacement(c)
    PROVE  JournalInv'
<1> DEFINE o == Op(c)
           view == View(c)
           r == receipt[o]
<1>1. /\ ctl[c] # Idle /\ UNCHANGED <<journal, cleanup>> /\ view.stage = "replacement-started"
      /\ daemon' = [daemon EXCEPT !.held = FALSE]
    BY DEF ConfirmReplacement, At, Idle
<1>2. /\ view \in Entries /\ Fits(view, r) /\ daemon \in Daemons
      /\ o \in Operation /\ journal[o] \in Entries /\ Agrees(journal[o], r)
      /\ r \in {NoReceipt} \cup Receipts /\ Part(view.stage) <= Part(journal[o].stage)
    BY <1>1, ControlFacts DEF Seen, JournalInv, JournalTypes
<1>3. daemon' \in Daemons
    BY <1>1, <1>2 DEF Daemons
<1>4. Part(journal[o].stage) = 3 /\ Part(view.stage) = 3
    BY <1>1, <1>2, PartIsNat DEF Part, BeforeCleanup
<1>5. ASSUME NEW owner \in Nat, NEW next, next.stage = "replacement-ready", next.owner = owner
      PROVE  LET e == [Completed(view) EXCEPT !.owner = owner]
             IN  Writable(view, <<e>>, next) /\ Placed("step", view, <<e>>)
  <2> DEFINE e == [Completed(view) EXCEPT !.owner = owner]
  <2>1. /\ e \in Entries /\ e.stage = "completed" /\ e.kind = view.kind /\ e.owner = owner
      BY <1>2, <1>5 DEF Completed, Entries, JournalStages
  <2>2. Part(e.stage) = 3
      BY <2>1 DEF Part, BeforeCleanup
  <2> HIDE DEF e
  <2>3. Follows(view, e, next)
      BY <1>4, <1>5, <2>1, <2>2 DEF Follows, Fits
  <2> QED
      BY <2>3, OneToWrite DEF Placed, e
<1>6. CASE /\ r.stage = "replacement-ready" /\ UNCHANGED receipt
           /\ Do(c, "step", <<[Completed(view) EXCEPT !.owner = r.owner]>>)
  <2>1. r.owner \in Nat
      BY <1>2, <1>6 DEF NoReceipt, Receipts
  <2> QED
      BY <1>1, <1>3, <1>5, <1>6, <2>1, ControllerDecides
<1>7. CASE /\ r.stage = "process-stopped" /\ receipt' = [receipt EXCEPT ![o] = Replaced(r)]
           /\ Do(c, "step", <<[Completed(view) EXCEPT !.owner = daemon.instance]>>)
  <2> DEFINE next == Replaced(r)
  <2>1. r \in Receipts /\ Orderly(r)
      BY <1>2, <1>7 DEF NoReceipt, Agrees
  <2>2. /\ next \in Receipts /\ next.stage = "replacement-ready" /\ ~next.held /\ next.handoff
        /\ next.owner = daemon.instance /\ daemon.instance \in Nat
      BY <1>2, <1>7, <2>1 DEF Replaced, Advanced, Receipts, Orderly, Daemons, Over
  <2>3. Moves(r, next) /\ Orderly(next)
      BY <1>7, <2>2 DEF Moves, Orderly, Over
  <2>4. Agrees(journal[o], next)
      BY <1>2, <1>4, <2>2, <2>3, AgreesFromThenOn
  <2> HIDE DEF next
  <2> QED
      BY <1>1, <1>3, <1>5, <1>7, <2>2, <2>3, <2>4, ControllerMovesAlone DEF next
<1> QED
    BY <1>6, <1>7 DEF ConfirmReplacement, IsReplacement

(* A removal, which needs no Daemon.                                       *)
LEMMA RemovalMoves ==
    ASSUME LifecycleInv, JournalInv, NEW c \in Client,
           \/ AcquireGate(c) \/ RemoveRegistration(c) \/ RemoveInstallation(c)
           \/ CompleteRemoval(c)
    PROVE  JournalInv'
<1> DEFINE view == View(c)
           r == receipt[Op(c)]
<1>1. ctl[c] # Idle /\ UNCHANGED <<journal, receipt, cleanup, daemon>>
    BY DEF AcquireGate, RemoveRegistration, RemoveInstallation, CompleteRemoval, At, Removing, Idle
<1>2. /\ view \in Entries /\ view.outcome = None /\ daemon \in Daemons
      /\ Placed(ctl[c].at, view, ctl[c].todo)
    BY <1>1, ControlFacts DEF JournalInv, JournalTypes
<1>3. view.kind = "remove"
    BY <1>2 DEF AcquireGate, RemoveRegistration, RemoveInstallation, CompleteRemoval, Removing,
       Placed
<1>4. ASSUME NEW entries, Do(c, "removing", entries), Writable(view, entries, r)
      PROVE  JournalInv'
    BY <1>1, <1>2, <1>3, <1>4, ControllerDecides DEF Placed
<1>5. CASE AcquireGate(c)
    BY <1>4, <1>5, NothingToWrite DEF AcquireGate
<1>6. ASSUME NEW stage \in {"service-unregistered", "installation-removed"},
             Do(c, "removing", <<To(view, stage)>>)
      PROVE  JournalInv'
  <2>1. stage \in JournalStages /\ ~NeedsDaemon(view.kind, stage) /\ Part(stage) = 3
      BY <1>3 DEF JournalStages, NeedsDaemon, WithoutDaemon, Part, BeforeCleanup
  <2>2. /\ To(view, stage) \in Entries /\ To(view, stage).stage = stage
        /\ To(view, stage).kind = view.kind /\ To(view, stage).outcome = None
      BY <1>2, <2>1 DEF To, Entries
  <2>3. Part(view.stage) <= Part(stage)
      BY <2>1, PartIsNat
  <2>4. Follows(view, To(view, stage), r)
      BY <1>2, <2>1, <2>2, <2>3, StageFollows
  <2> QED
      BY <1>4, <1>6, <2>4, OneToWrite
<1>7. CASE CompleteRemoval(c)
    BY <1>2, <1>3, <1>4, <1>7, CompletionFollows, OneToWrite DEF CompleteRemoval
<1> QED
    BY <1>5, <1>6, <1>7 DEF RemoveRegistration, RemoveInstallation

-----------------------------------------------------------------------------
(* stopOwnedProcesses: its calls may be overtaken and outlive their        *)
(* controllers.                                                            *)

LEMMA RankOfTheEnd ==
    ASSUME NEW r \in Receipts, NEW forced, AnsweredLate(r, "process-stopped", forced)
    PROVE  r.stage \in Over
<1>1. /\ Rank("process-stopped") = 6
      /\ Rank("prepared") = 1 /\ Rank("draining") = 2 /\ Rank("handoff-prepared") = 3
      /\ Rank("controller-accepted") = 4 /\ Rank("cleanup-started") = 5
    BY DEF Rank, ReceiptStages
<1> QED
    BY <1>1 DEF AnsweredLate, Receipts, Over

LEMMA MovedCalls ==
    ASSUME JournalInv, NEW o \in Operation
    PROVE  /\ ReceiptMoved(o) \in [Client -> {NoCall} \cup Calls]
           /\ \A d \in Client :
                 /\ cleanup[d] = NoCall => ReceiptMoved(o)[d] = NoCall
                 /\ cleanup[d] # NoCall =>
                       /\ ReceiptMoved(o)[d] \in Calls /\ ReceiptMoved(o)[d] # NoCall
                       /\ ReceiptMoved(o)[d].op = cleanup[d].op
                       /\ cleanup[d].op = o => ReceiptMoved(o)[d].moved = TRUE
                       /\ cleanup[d].op # o => ReceiptMoved(o)[d] = cleanup[d]
<1>1. cleanup \in [Client -> {NoCall} \cup Calls]
    BY DEF JournalInv, JournalTypes
<1>2. ASSUME NEW d \in Client, cleanup[d] # NoCall
      PROVE  /\ ReceiptMoved(o)[d] \in Calls /\ ReceiptMoved(o)[d].op = cleanup[d].op
             /\ cleanup[d].op = o => ReceiptMoved(o)[d].moved = TRUE
             /\ cleanup[d].op # o => ReceiptMoved(o)[d] = cleanup[d]
    BY <1>1, <1>2 DEF ReceiptMoved, Calls
<1>3. ASSUME NEW d \in Client, cleanup[d] = NoCall
      PROVE  ReceiptMoved(o)[d] = NoCall
    BY <1>3 DEF ReceiptMoved, NoCall
<1>4. \A x \in Calls : x # NoCall
    BY DEF Calls, NoCall
<1>5. ReceiptMoved(o) \in [Client -> {NoCall} \cup Calls]
  <2>1. ReceiptMoved(o) = [d \in Client |-> ReceiptMoved(o)[d]]
      BY DEF ReceiptMoved
  <2>2. \A d \in Client : ReceiptMoved(o)[d] \in {NoCall} \cup Calls
      BY <1>2, <1>3
  <2> QED
      BY <2>1, <2>2
<1> QED
    BY <1>2, <1>3, <1>4, <1>5

(* The receipt of o moves, the calls for it are marked, c's is new or over.*)
LEMMA CallsMove ==
    ASSUME JournalInv, NEW c \in Client, NEW o \in Operation, NEW call \in {NoCall} \cup Calls,
           NEW next, cleanup' = [ReceiptMoved(o) EXCEPT ![c] = call],
           receipt' = [receipt EXCEPT ![o] = next], UNCHANGED journal,
           next.stage \in {"cleanup-started"} \cup Over,
           call # NoCall => call.op = o /\ Attended(call, journal[o], next),
           \A d \in Client \ {c} : ctl'[d] = ctl[d],
           ctl'[c].at = "cleanup" => call # NoCall /\ ctl'[c].op = o
    PROVE  cleanup' \in [Client -> {NoCall} \cup Calls] /\ CallsAreAttended'
<1>1. ReceiptMoved(o) \in [Client -> {NoCall} \cup Calls]
    BY MovedCalls
<1>2. /\ cleanup' \in [Client -> {NoCall} \cup Calls] /\ cleanup'[c] = call
      /\ \A d \in Client \ {c} : cleanup'[d] = ReceiptMoved(o)[d]
    BY <1>1
<1>3. receipt'[o] = next /\ \A p \in Operation : p # o => receipt'[p] = receipt[p]
    BY DEF JournalInv, JournalTypes
<1>4. ASSUME NEW d \in Client, cleanup'[d] # NoCall
      PROVE  Attended(cleanup'[d], journal'[cleanup'[d].op], receipt'[cleanup'[d].op])
  <2>1. CASE d = c
      BY <1>2, <1>3, <1>4, <2>1
  <2>2. CASE d # c
    <3>1. cleanup'[d] = ReceiptMoved(o)[d] /\ cleanup[d] # NoCall
        BY <1>2, <1>4, <2>2, MovedCalls
    <3>2. /\ cleanup[d].op \in Operation
          /\ Attended(cleanup[d], journal[cleanup[d].op], receipt[cleanup[d].op])
        BY <3>1 DEF JournalInv, JournalTypes, CallsAreAttended, Calls
    <3>3. CASE cleanup[d].op # o
        BY <1>3, <3>1, <3>2, <3>3, MovedCalls
    <3>4. CASE cleanup[d].op = o
      <4>1. cleanup'[d].op = o /\ cleanup'[d].moved = TRUE
          BY <3>1, <3>4, MovedCalls
      <4> QED
          BY <1>3, <3>2, <3>4, <4>1 DEF Attended
    <3> QED
        BY <3>3, <3>4
  <2> QED
      BY <2>1, <2>2
<1>5. ASSUME NEW d \in Client, ctl'[d].at = "cleanup"
      PROVE  cleanup'[d] # NoCall /\ cleanup'[d].op = ctl'[d].op
  <2>1. CASE d = c
      BY <1>2, <1>5, <2>1
  <2>2. CASE d # c
    <3>1. ctl'[d] = ctl[d] /\ cleanup[d] # NoCall /\ cleanup[d].op = ctl[d].op
        BY <1>5, <2>2 DEF JournalInv, CallsAreAttended
    <3> QED
        BY <1>2, <2>2, <3>1, MovedCalls
  <2> QED
      BY <2>1, <2>2
<1> QED
    BY <1>2, <1>4, <1>5 DEF CallsAreAttended

LEMMA CallEnds ==
    ASSUME JournalInv, NEW c \in Client, cleanup' = [cleanup EXCEPT ![c] = NoCall],
           UNCHANGED <<journal, receipt>>,
           \A d \in Client \ {c} : ctl'[d] = ctl[d], ctl'[c].at # "cleanup"
    PROVE  cleanup' \in [Client -> {NoCall} \cup Calls] /\ CallsAreAttended'
<1>1. cleanup \in [Client -> {NoCall} \cup Calls]
    BY DEF JournalInv, JournalTypes
<1>2. /\ cleanup' \in [Client -> {NoCall} \cup Calls] /\ cleanup'[c] = NoCall
      /\ \A d \in Client \ {c} : cleanup'[d] = cleanup[d]
    BY <1>1
<1> QED
    BY <1>2 DEF JournalInv, CallsAreAttended

LEMMA CleanupIsCalled ==
    ASSUME LifecycleInv, JournalInv, NEW c \in Client, CallCleanup(c)
    PROVE  JournalInv'
<1> DEFINE o == Op(c)
           view == View(c)
           r == receipt[o]
<1>1. /\ ctl[c] # Idle /\ UNCHANGED journal /\ view.stage = "cleanup-started"
    BY DEF CallCleanup, At, Idle
<1>2. /\ view \in Entries /\ view.outcome = None /\ Fits(view, r) /\ daemon \in Daemons
      /\ o \in Operation /\ journal[o] \in Entries /\ Agrees(journal[o], r)
      /\ r \in {NoReceipt} \cup Receipts /\ Part(view.stage) <= Part(journal[o].stage)
      /\ journal[o] # NoEntry
    BY <1>1, ControlFacts DEF Seen, JournalInv, JournalTypes
<1>3. /\ r.stage \notin {None, "prepared"} /\ r \in Receipts /\ Orderly(r)
    BY <1>1, <1>2 DEF Fits, NeedsDaemon, WithoutDaemon, NoReceipt, Agrees
<1>4. Part(view.stage) = 1
    BY <1>1 DEF Part, BeforeCleanup
<1>5. ASSUME NEW e, Follows(view, e, r), Do(c, "step", <<e>>),
             UNCHANGED <<receipt, daemon, cleanup>>
      PROVE  JournalInv'
    BY <1>1, <1>2, <1>5, OneToWrite, ControllerDecides DEF Placed
<1>6. CASE Do(c, "step", <<ToRepair(view)>>) /\ UNCHANGED <<receipt, daemon, cleanup>>
    BY <1>2, <1>3, <1>5, <1>6, RepairFollows
<1>7. CASE /\ r.stage = "process-stopped" /\ UNCHANGED <<receipt, daemon, cleanup>>
           /\ Do(c, "step", <<Stopped(c, r.owner)>>)
  <2>1. r.owner \in Nat
      BY <1>3 DEF Receipts
  <2>2. /\ Stopped(c, r.owner) \in Entries /\ Stopped(c, r.owner).kind = view.kind
        /\ Stopped(c, r.owner).stage = "owned-processes-stopped"
        /\ Stopped(c, r.owner).outcome = None
      BY <1>2, <2>1 DEF Stopped, To, Entries, JournalStages
  <2>3. Part(view.stage) <= Part("owned-processes-stopped")
      BY <1>4 DEF Part, BeforeCleanup
  <2>4. Follows(view, Stopped(c, r.owner), r)
      BY <1>2, <1>7, <2>2, <2>3, StageFollows DEF JournalStages, Over
  <2> QED
      BY <1>5, <1>7, <2>4
<1>8. ASSUME r.stage \in {"controller-accepted", "cleanup-started"},
             receipt' = [receipt EXCEPT ![o] =
                [Advanced(r, "cleanup-started", daemon.instance)
                    EXCEPT !.forced = @ \/ view.forced]],
             cleanup' = [ReceiptMoved(o) EXCEPT ![c] =
                [op |-> o, moved |-> FALSE, forced |-> view.forced, replacement |-> Replacement(c)]],
             daemon' = [daemon EXCEPT !.stopping = TRUE],
             Do(c, "cleanup", <<>>)
      PROVE  JournalInv'
  <2> DEFINE next == [Advanced(r, "cleanup-started", daemon.instance)
                         EXCEPT !.forced = @ \/ view.forced]
             call == [op |-> o, moved |-> FALSE, forced |-> view.forced,
                      replacement |-> Replacement(c)]
  <2>1. /\ next \in Receipts /\ next.stage = "cleanup-started" /\ next.held = r.held
        /\ next.handoff = r.handoff
    <3>1. view.forced \in BOOLEAN /\ daemon.instance \in Nat
        BY <1>2 DEF Entries, Daemons
    <3> QED
        BY <1>3, <3>1 DEF Advanced, Receipts
  <2>2. call \in Calls /\ call.op = o /\ call.moved = FALSE
      BY <1>2 DEF Calls, Replacement, Entries
  <2>3. daemon' \in Daemons
      BY <1>2, <1>8 DEF Daemons
  <2> HIDE DEF next, call
  <2>4. Moves(r, next) /\ Orderly(next)
      BY <1>3, <1>8, <2>1 DEF Moves, Orderly, Over
  <2>5. Agrees(journal[o], next)
      BY <1>2, <2>1, <2>4, AgreesFromThenOn
  <2>6. Attended(call, journal[o], next)
    <3>1. Part(journal[o].stage) >= 1
        BY <1>2, <1>4, PartIsNat
    <3> QED
        BY <1>2, <2>1, <2>2, <3>1 DEF Attended
  <2>7. /\ ctl'[c] = [op |-> o, at |-> "cleanup", view |-> view, todo |-> <<>>]
        /\ \A d \in Client : d # c => ctl'[d] = ctl[d]
      BY <1>1, <1>8, DoneBy
  <2>8. call # NoCall
      BY <1>2, <2>2 DEF NoCall
  <2>9. cleanup' \in [Client -> {NoCall} \cup Calls] /\ CallsAreAttended'
    <3>1. cleanup' = [ReceiptMoved(o) EXCEPT ![c] = call] /\ receipt' = [receipt EXCEPT ![o] = next]
        BY <1>8 DEF call, next
    <3>2. ctl'[c].op = o
        BY <2>7
    <3> QED
        BY <1>1, <1>2, <2>1, <2>2, <2>6, <2>7, <2>8, <3>1, <3>2, CallsMove
  <2>10. Writable(view, <<>>, next) /\ Placed("cleanup", view, <<>>)
      BY <1>1, NothingToWrite DEF Placed
  <2>11. receipt' = [receipt EXCEPT ![o] = next]
      BY <1>8 DEF next
  <2> QED
      BY <1>1, <1>8, <2>1, <2>3, <2>4, <2>5, <2>9, <2>10, <2>11, ControllerMoves
<1> QED
    BY <1>6, <1>7, <1>8 DEF CallCleanup

(* The end of a call, whose controller may not wait for it any more.       *)
LEMMA CleanupEnds ==
    ASSUME LifecycleInv, JournalInv, NEW c \in Client, FinishCleanup(c) \/ FailCleanup(c)
    PROVE  JournalInv'
<1> DEFINE o == cleanup[c].op
           r == receipt[o]
           call == cleanup[c]
<1>1. cleanup[c] # NoCall /\ UNCHANGED journal
    BY DEF FinishCleanup, FailCleanup
<1>2. /\ call \in Calls /\ o \in Operation /\ Attended(call, journal[o], r)
      /\ r \in {NoReceipt} \cup Receipts /\ Agrees(journal[o], r) /\ daemon \in Daemons
      /\ journal[o] \in {NoEntry} \cup Entries
    BY <1>1 DEF JournalInv, JournalTypes, CallsAreAttended, OperationsAgree, Calls
<1>3. r \in Receipts /\ Orderly(r) /\ journal[o] \in Entries /\ r.stage \notin {None, "prepared"}
    BY <1>2 DEF NoReceipt, Attended, Agrees, Over
<1>4. daemon' \in Daemons
    BY <1>2 DEF FinishCleanup, FailCleanup, Daemons
<1>5. ctl[c].at = "cleanup" => ctl[c] # Idle /\ Op(c) = o
    BY DEF JournalInv, CallsAreAttended, Idle, Op
<1>6. ASSUME NEW e, NEW next, Answer(c, <<e>>), receipt'[o] = next, Moves(r, next),
             ctl[c].at = "cleanup" => Follows(View(c), e, next)
      PROVE  /\ \A d \in Client : ctl'[d] = ctl[d] \/ ControlInv(ctl[d])'
             /\ \A d \in Client \ {c} : ctl'[d] = ctl[d]
             /\ ctl'[c].at # "cleanup"
  <2>1. CASE ctl[c].at # "cleanup"
      BY <1>6, <2>1 DEF Answer
  <2>2. CASE ctl[c].at = "cleanup"
    <3>1. Do(c, "step", <<e>>)
        BY <1>6, <2>2 DEF Answer
    <3>2. Writable(View(c), <<e>>, next) /\ Placed("step", View(c), <<e>>)
        BY <1>6, <2>2, OneToWrite DEF Placed
    <3>3. ControlInv(ctl[c])'
        BY <1>1, <1>5, <1>6, <2>2, <3>1, <3>2, FollowsOn
    <3>4. /\ ctl'[c] = [op |-> Op(c), at |-> "step", view |-> View(c), todo |-> <<e>>]
          /\ \A d \in Client : d # c => ctl'[d] = ctl[d]
        BY <1>5, <2>2, <3>1, DoneBy
    <3>5. ctl'[c].at = "step"
        BY <3>4
    <3> QED
        BY <3>3, <3>4, <3>5
  <2> QED
      BY <2>1, <2>2
<1>7. ASSUME ctl[c].at = "cleanup"
      PROVE  /\ Follows(View(c), ToRepair(View(c)), r)
             /\ \A next : next.stage \in Over => Follows(View(c), Stopped(c, daemon.instance), next)
  <2> DEFINE e == Stopped(c, daemon.instance)
  <2>1. /\ View(c) \in Entries /\ View(c).outcome = None /\ View(c).stage = "cleanup-started"
      BY <1>5, <1>7, ControlFacts DEF Placed
  <2>2. /\ e \in Entries /\ e.kind = View(c).kind /\ e.outcome = None
        /\ e.stage = "owned-processes-stopped"
      BY <1>2, <2>1 DEF Stopped, To, Entries, JournalStages, Daemons
  <2>3. Part(View(c).stage) <= Part("owned-processes-stopped")
      BY <2>1 DEF Part, BeforeCleanup
  <2> HIDE DEF e
  <2>4. ASSUME NEW next, next.stage \in Over
        PROVE  Follows(View(c), e, next)
      BY <2>1, <2>2, <2>3, <2>4, StageFollows DEF JournalStages, Over
  <2> QED
      BY <1>3, <2>1, <2>4, RepairFollows DEF e
<1>8. ASSUME UNCHANGED receipt, NEW e, Answer(c, <<e>>), cleanup' = [cleanup EXCEPT ![c] = NoCall],
             ctl[c].at = "cleanup" => Follows(View(c), e, r)
      PROVE  JournalInv'
  <2>1. receipt'[o] = r /\ Moves(r, r) /\ receipt' = [receipt EXCEPT ![o] = r]
      BY <1>8 DEF Moves, JournalInv, JournalTypes
  <2>2. /\ \A d \in Client : ctl'[d] = ctl[d] \/ ControlInv(ctl[d])'
        /\ \A d \in Client \ {c} : ctl'[d] = ctl[d]
        /\ ctl'[c].at # "cleanup"
      BY <1>6, <1>8, <2>1
  <2>3. cleanup' \in [Client -> {NoCall} \cup Calls] /\ CallsAreAttended'
      BY <1>1, <1>8, <2>2, CallEnds
  <2> QED
      BY <1>1, <1>2, <1>4, <2>1, <2>2, <2>3, ReceiptMoves
<1>9. CASE FailCleanup(c)
    BY <1>7, <1>8, <1>9 DEF FailCleanup
<1>10. CASE FinishCleanup(c) /\ call.moved
  <2>1. CASE AnsweredLate(r, "process-stopped", call.forced)
    <3>1. r.stage \in Over
        BY <1>3, <2>1, RankOfTheEnd
    <3> QED
        BY <1>7, <1>8, <1>10, <2>1, <3>1 DEF FinishCleanup
  <2>2. CASE ~AnsweredLate(r, "process-stopped", call.forced)
      BY <1>7, <1>8, <1>10, <2>2 DEF FinishCleanup
  <2> QED
      BY <2>1, <2>2
<1>11. CASE FinishCleanup(c) /\ ~call.moved
  <2> DEFINE next == [Advanced(r, "process-stopped", daemon.instance) EXCEPT !.held = call.replacement]
  <2>1. /\ receipt' = [receipt EXCEPT ![o] = next]
        /\ cleanup' = [ReceiptMoved(o) EXCEPT ![c] = NoCall]
        /\ Answer(c, <<Stopped(c, daemon.instance)>>)
      BY <1>11 DEF FinishCleanup
  <2>2. /\ next \in Receipts /\ next.stage = "process-stopped" /\ next.handoff
      BY <1>2, <1>3, <1>11 DEF Advanced, Receipts, Daemons, Calls, Orderly, Attended, Over
  <2> HIDE DEF next
  <2>3. Moves(r, next) /\ Orderly(next) /\ next.stage \in Over
      BY <1>2, <1>11, <2>2 DEF Moves, Orderly, Over, Attended
  <2>4. Agrees(journal[o], next)
      BY <1>2, <1>3, <2>2, <2>3, AgreesFromThenOn DEF Attended
  <2>5. receipt'[o] = next
      BY <1>2, <2>1 DEF JournalInv, JournalTypes
  <2>6. /\ \A d \in Client : ctl'[d] = ctl[d] \/ ControlInv(ctl[d])'
        /\ \A d \in Client \ {c} : ctl'[d] = ctl[d]
        /\ ctl'[c].at # "cleanup"
      BY <1>6, <1>7, <2>1, <2>3, <2>5
  <2>7. cleanup' \in [Client -> {NoCall} \cup Calls] /\ CallsAreAttended'
      BY <1>1, <1>2, <2>1, <2>3, <2>6, CallsMove
  <2> QED
      BY <1>1, <1>2, <1>4, <2>1, <2>2, <2>3, <2>4, <2>6, <2>7, ReceiptMoves
<1> QED
    BY <1>9, <1>10, <1>11

-----------------------------------------------------------------------------
(* The journal moves: an operation begins, a drain is forced, a controller *)
(* that is not behind writes what it decided.                              *)

LEMMA JournalMoves ==
    ASSUME JournalInv, NEW o \in Operation, NEW e \in Entries,
           journal' = [journal EXCEPT ![o] = e],
           \/ journal[o] = NoEntry
           \/ /\ journal[o] \in Entries /\ e.kind = journal[o].kind
              /\ e.rev = journal[o].rev + 1 /\ Part(journal[o].stage) <= Part(e.stage),
           Agrees(e, receipt[o]), UNCHANGED <<receipt, daemon, cleanup>>,
           \A d \in Client : \/ ctl'[d] = ctl[d] \/ ctl'[d] = Idle
                             \/ ControlInv(ctl[d])' /\ ctl'[d].at # "cleanup"
    PROVE  JournalInv'
<1>1. /\ journal'[o] = e /\ journal' \in [Operation -> {NoEntry} \cup Entries]
      /\ \A p \in Operation : p # o => journal'[p] = journal[p]
    BY DEF JournalInv, JournalTypes
<1>2. e # NoEntry
    BY DEF Entries, NoEntry, JournalStages, BeforeCleanup
<1>3. JournalTypes'
    BY <1>1 DEF JournalInv, JournalTypes
<1>4. OperationsAgree'
    BY <1>1 DEF JournalInv, OperationsAgree
<1>5. CallsAreAttended'
  <2>1. ASSUME NEW d \in Client, cleanup[d] # NoCall
        PROVE  Attended(cleanup[d], journal'[cleanup[d].op], receipt[cleanup[d].op])
    <3>1. /\ cleanup[d].op \in Operation
          /\ Attended(cleanup[d], journal[cleanup[d].op], receipt[cleanup[d].op])
        BY <2>1 DEF JournalInv, JournalTypes, CallsAreAttended, Calls
    <3>2. CASE cleanup[d].op # o
        BY <1>1, <3>1, <3>2
    <3>3. CASE cleanup[d].op = o
        BY <1>1, <1>2, <3>1, <3>3, PartIsNat DEF Attended
    <3> QED
        BY <3>2, <3>3
  <2>2. \A d \in Client : ctl'[d].at = "cleanup" => ctl'[d] = ctl[d]
      BY DEF Idle
  <2> QED
      BY <2>1, <2>2 DEF JournalInv, CallsAreAttended
<1>6. ASSUME NEW d \in Client, ctl'[d] = ctl[d]
      PROVE  ControlInv(ctl[d])'
  <2>1. ControlInv(ctl[d])
      BY DEF JournalInv, ControlsFollow
  <2>2. CASE ctl[d] = Idle
      BY <1>6, <2>2 DEF ControlInv
  <2>3. CASE ctl[d] # Idle /\ ctl[d].op # o
      BY <1>1, <1>6, <2>1, <2>3 DEF ControlInv
  <2>4. CASE ctl[d] # Idle /\ ctl[d].op = o
    <3>1. Seen(ctl[d].view, journal[o], receipt[o])
        BY <2>1, <2>4 DEF ControlInv
    <3>2. Seen(ctl[d].view, e, receipt[o])
        BY <3>1, SeenBehind DEF Seen
    <3> QED
        BY <1>1, <1>6, <2>1, <2>4, <3>2 DEF ControlInv
  <2> QED
      BY <2>2, <2>3, <2>4
<1>7. \A d \in Client : ctl'[d] = Idle => ControlInv(ctl[d])'
    BY DEF ControlInv
<1> QED
    BY <1>3, <1>4, <1>5, <1>6, <1>7 DEF JournalInv, ControlsFollow

(* A controller that takes up an operation as the journal has it.          *)
LEMMA TakenUp ==
    ASSUME LifecycleInv, NEW c \in Client, NEW o \in Operation, NEW e \in Entries,
           e.outcome = None,
           ctl' = [ctl EXCEPT ![c] = Control(o, e)], journal'[o] = e, Fits(e, receipt'[o])
    PROVE  /\ ControlInv(ctl[c])' /\ ctl'[c].at # "cleanup"
           /\ \A d \in Client \ {c} : ctl'[d] = ctl[d]
<1>1. /\ ctl'[c] = [op |-> o, at |-> "step", view |-> e, todo |-> <<>>]
      /\ \A d \in Client \ {c} : ctl'[d] = ctl[d]
    BY DEF LifecycleInv, ControlsHoldTheGate, Control
<1>2. ctl'[c].op = o /\ ctl'[c].at = "step" /\ ctl'[c].view = e /\ ctl'[c].todo = <<>>
    BY <1>1
<1>3. Seen(e, e, receipt'[o])
  <2>1. e # NoEntry /\ e.rev \in Nat
      BY DEF Entries, NoEntry, JournalStages, BeforeCleanup
  <2>2. Part(e.stage) <= Part(e.stage)
    <3>1. Part(e.stage) \in Int
        BY PartIsNat
    <3> QED
        BY <3>1
  <2> QED
      BY <2>1, <2>2 DEF Seen
<1>4. Placed("step", e, <<>>) /\ Writable(e, <<>>, receipt'[o])
    BY NothingToWrite DEF Placed
<1> QED
    BY <1>1, <1>2, <1>3, <1>4 DEF ControlInv

LEMMA OperationsMove ==
    ASSUME LifecycleInv, JournalInv, NEW c \in Client, NEW o \in Operation,
           (\E kind \in Kinds : Begin(c, o, kind)) \/ Resume(c, o) \/ ForceDrain(c, o)
    PROVE  JournalInv'
<1>1. /\ journal[o] \in {NoEntry} \cup Entries /\ Agrees(journal[o], receipt[o])
      /\ receipt[o] \in {NoReceipt} \cup Receipts /\ daemon \in Daemons
      /\ cleanup \in [Client -> {NoCall} \cup Calls]
    BY DEF JournalInv, JournalTypes, OperationsAgree
<1>2. ASSUME NEW kind \in Kinds, Begin(c, o, kind)
      PROVE  JournalInv'
  <2> DEFINE e == Entry(kind)
  <2>1. /\ journal[o] = NoEntry /\ journal' = [journal EXCEPT ![o] = e]
        /\ ctl' = [ctl EXCEPT ![c] = Control(o, e)] /\ UNCHANGED <<receipt, daemon, cleanup>>
      BY <1>2 DEF Begin
  <2>2. e \in Entries /\ e.stage = "prepared" /\ e.outcome = None
      BY DEF Entry, Entries, JournalStages, BeforeCleanup
  <2>3. receipt[o] = NoReceipt
      BY <1>1, <2>1 DEF Agrees
  <2> HIDE DEF e
  <2>4. Agrees(e, receipt[o]) /\ Fits(e, receipt[o])
      BY <2>2, <2>3 DEF Agrees, Fits, NeedsDaemon, WithoutDaemon
  <2>5. journal'[o] = e
      BY <2>1 DEF JournalInv, JournalTypes
  <2>6. /\ ControlInv(ctl[c])' /\ ctl'[c].at # "cleanup"
        /\ \A d \in Client \ {c} : ctl'[d] = ctl[d]
      BY <2>1, <2>2, <2>4, <2>5, TakenUp
  <2> QED
      BY <2>1, <2>2, <2>4, <2>6, JournalMoves
<1>3. CASE Resume(c, o)
  <2>1. /\ journal[o] # NoEntry /\ journal[o].outcome = None
        /\ ctl' = [ctl EXCEPT ![c] = Control(o, journal[o])]
        /\ UNCHANGED <<journal, receipt, daemon, cleanup>>
      BY <1>3 DEF Resume, Pending
  <2>2. Fits(journal[o], receipt[o])
      BY <1>1, <2>1 DEF Agrees
  <2>3. /\ ControlInv(ctl[c])' /\ ctl'[c].at # "cleanup"
        /\ \A d \in Client \ {c} : ctl'[d] = ctl[d]
      BY <1>1, <2>1, <2>2, TakenUp
  <2>4. CallsAreAttended'
      BY <2>1, <2>3 DEF JournalInv, CallsAreAttended
  <2>5. receipt' = [receipt EXCEPT ![o] = receipt[o]] /\ Moves(receipt[o], receipt[o])
      BY <2>1 DEF JournalInv, JournalTypes, Moves
  <2> QED
      BY <1>1, <2>1, <2>3, <2>4, <2>5, ReceiptMoves
<1>4. CASE ForceDrain(c, o)
  <2> DEFINE e == [journal[o] EXCEPT !.forced = TRUE, !.rev = @ + 1]
  <2>1. /\ journal[o] # NoEntry /\ journal[o].outcome = None /\ journal' = [journal EXCEPT ![o] = e]
        /\ ctl' = [ctl EXCEPT ![c] = Control(o, e)] /\ UNCHANGED <<receipt, daemon, cleanup>>
      BY <1>4 DEF ForceDrain, Pending
  <2>2. /\ journal[o] \in Entries
        /\ e \in Entries /\ e.stage = journal[o].stage /\ e.outcome = None
        /\ e.kind = journal[o].kind /\ e.rev = journal[o].rev + 1
    <3>1. journal[o] \in Entries /\ journal[o].outcome = None
        BY <1>1, <2>1
    <3>2. journal[o].rev + 1 \in Nat
        BY <3>1 DEF Entries
    <3> QED
        BY <3>1, <3>2 DEF Entries
  <2>3. Fits(journal[o], receipt[o])
      BY <1>1, <2>1 DEF Agrees
  <2> HIDE DEF e
  <2>4. Fits(e, receipt[o])
      BY <2>2, <2>3 DEF Fits
  <2>5. Part(journal[o].stage) <= Part(e.stage)
      BY <2>2, PartIsNat
  <2>6. Agrees(e, receipt[o])
      BY <1>1, <2>2, <2>4, <2>5, AgreesWithTheNext
  <2>7. journal'[o] = e
      BY <2>1 DEF JournalInv, JournalTypes
  <2>8. /\ ControlInv(ctl[c])' /\ ctl'[c].at # "cleanup"
        /\ \A d \in Client \ {c} : ctl'[d] = ctl[d]
      BY <2>1, <2>2, <2>4, <2>7, TakenUp
  <2> QED
      BY <2>1, <2>2, <2>5, <2>6, <2>8, JournalMoves
<1> QED
    BY <1>2, <1>3, <1>4

(* A step that moves neither, in which controllers and calls may end.      *)
LEMMA QuietJournal ==
    ASSUME JournalInv, UNCHANGED <<journal, receipt>>, daemon' \in Daemons,
           \/ /\ UNCHANGED cleanup
              /\ \A d \in Client : ctl'[d] = ctl[d] \/ ctl'[d] = Idle
           \/ /\ cleanup' = [d \in Client |-> NoCall]
              /\ \A d \in Client : ctl'[d] = Idle \/ (ctl'[d] = ctl[d] /\ ctl[d].at # "cleanup")
    PROVE  JournalInv'
<1>1. cleanup' \in [Client -> {NoCall} \cup Calls]
    BY DEF JournalInv, JournalTypes
<1>2. CallsAreAttended'
    BY DEF JournalInv, CallsAreAttended, Idle
<1>3. ASSUME NEW d \in Client
      PROVE  ControlInv(ctl[d])'
  <2>1. CASE ctl'[d] = Idle
      BY <2>1 DEF ControlInv
  <2>2. CASE ctl'[d] = ctl[d]
      BY <2>2 DEF JournalInv, ControlsFollow, ControlInv
  <2> QED
      BY <2>1, <2>2
<1> QED
    BY <1>1, <1>2, <1>3 DEF JournalInv, JournalTypes, OperationsAgree, ControlsFollow

LEMMA EntriesMove ==
    ASSUME LifecycleInv, JournalInv, NEW c \in Client, ClientEnds(c) \/ WriteEntry(c)
    PROVE  JournalInv'
<1> DEFINE o == Op(c)
           view == View(c)
           r == receipt[o]
           todo == ctl[c].todo
           e == [Head(todo) EXCEPT !.rev = view.rev + 1]
<1>1. ctl[c] # Idle /\ UNCHANGED <<receipt, daemon, cleanup>>
    BY DEF ClientEnds, WriteEntry
<1>2. /\ view \in Entries /\ o \in Operation /\ journal[o] \in Entries /\ Agrees(journal[o], r)
      /\ Seen(view, journal[o], r) /\ Writable(view, todo, r) /\ Placed(ctl[c].at, view, todo)
      /\ daemon \in Daemons
    BY <1>1, ControlFacts DEF JournalInv, JournalTypes
<1>3. CASE ctl' = [ctl EXCEPT ![c] = Idle]
  <2>1. \A d \in Client : ctl'[d] = ctl[d] \/ ctl'[d] = Idle
      BY <1>3 DEF LifecycleInv, ControlsHoldTheGate
  <2>2. CASE UNCHANGED journal
      BY <1>1, <1>2, <2>1, <2>2, QuietJournal
  <2>3. CASE WriteEntry(c) /\ journal[o].rev = view.rev /\ todo # <<>>
               /\ journal' = [journal EXCEPT ![o] = e]
    <3>1. /\ e \in Entries /\ e.rev = journal[o].rev + 1 /\ e.kind = journal[o].kind
          /\ Part(journal[o].stage) <= Part(e.stage) /\ Fits(e, r)
      <4>1. view = journal[o]
          BY <1>2, <2>3 DEF Seen
      <4>2. Head(todo) = todo[1] /\ 1 \in 1 .. Len(todo)
          BY <1>2, <2>3 DEF Writable
      <4>3. Follows(view, Head(todo), r)
          BY <1>2, <4>2 DEF Writable
      <4>4. view.rev + 1 \in Nat
          BY <1>2 DEF Entries
      <4>5. /\ e \in Entries /\ e.rev = view.rev + 1 /\ e.kind = Head(todo).kind
            /\ e.stage = Head(todo).stage /\ e.outcome = Head(todo).outcome
            /\ e.owner = Head(todo).owner
          BY <4>3, <4>4 DEF Follows, Entries
      <4> HIDE DEF e
      <4> QED
          BY <4>1, <4>3, <4>5 DEF Follows, Fits
    <3> HIDE DEF e
    <3>2. Agrees(e, r)
        BY <1>2, <3>1, AgreesWithTheNext
    <3> QED
        BY <1>1, <1>2, <2>1, <2>3, <3>1, <3>2, JournalMoves
  <2> QED
      BY <2>2, <2>3 DEF ClientEnds, WriteEntry
<1>4. CASE /\ WriteEntry(c) /\ journal[o].rev = view.rev /\ todo # <<>> /\ e.outcome = None
           /\ journal' = [journal EXCEPT ![o] = e]
           /\ ctl' = [ctl EXCEPT ![c].view = e, ![c].todo = Tail(@)]
  <2>1. view = journal[o]
      BY <1>2, <1>4 DEF Seen
  <2>2. Head(todo) = todo[1] /\ 1 \in 1 .. Len(todo)
      BY <1>2, <1>4 DEF Writable
  <2>3. Follows(view, Head(todo), r)
      BY <1>2, <2>2 DEF Writable
  <2>4. /\ e \in Entries /\ e.rev = view.rev + 1 /\ e.kind = Head(todo).kind
        /\ e.stage = Head(todo).stage /\ e.outcome = Head(todo).outcome
        /\ e.owner = Head(todo).owner
    <3>1. view.rev + 1 \in Nat
        BY <1>2 DEF Entries
    <3> QED
        BY <2>3, <3>1 DEF Follows, Entries
  <2>5. e.outcome = None
      BY <1>4
  <2>6. /\ ctl'[c] = [op |-> o, at |-> ctl[c].at, view |-> e, todo |-> Tail(todo)]
        /\ \A d \in Client : d # c => ctl'[d] = ctl[d]
      BY <1>1, <1>4, WrittenBy DEF LifecycleInv, Op
  <2>7. /\ ctl'[c].op = o /\ ctl'[c].at = ctl[c].at /\ ctl'[c].view = e
        /\ ctl'[c].todo = Tail(todo)
      BY <2>6
  <2>8. journal'[o] = e
      BY <1>2, <1>4 DEF JournalInv, JournalTypes
  <2>9. journal' = [journal EXCEPT ![o] = e]
      BY <1>4
  <2> HIDE DEF e
  <2>10. Fits(e, r) /\ Part(view.stage) <= Part(e.stage) /\ e.kind = view.kind
      BY <2>3, <2>4 DEF Follows, Fits
  <2>11. Agrees(e, r)
      BY <1>2, <2>1, <2>4, <2>10, AgreesWithTheNext
  <2>12. Seen(e, e, r)
    <3>1. e # NoEntry /\ e.rev \in Nat
        BY <2>4 DEF Entries, NoEntry, JournalStages, BeforeCleanup
    <3>2. Part(e.stage) <= Part(e.stage)
      <4>1. Part(e.stage) \in Int
          BY PartIsNat
      <4> QED
          BY <4>1
    <3> QED
        BY <2>4, <2>5, <2>10, <3>1, <3>2 DEF Seen
  <2>13. Writable(e, Tail(todo), r)
    <3>1. todo \in Seq(Entries) /\ todo # <<>>
        BY <1>2, <1>4 DEF Writable
    <3>2. /\ Tail(todo) \in Seq(Entries) /\ Len(Tail(todo)) = Len(todo) - 1
          /\ \A i \in 1 .. Len(Tail(todo)) : Tail(todo)[i] = todo[i + 1]
        BY <3>1, HeadTailProperties
    <3>3. ASSUME NEW i \in 1 .. Len(Tail(todo))
          PROVE  /\ Follows(e, Tail(todo)[i], r)
                 /\ \A k \in 1 .. i : Part(Tail(todo)[k].stage) <= Part(Tail(todo)[i].stage)
      <4>1. Len(todo) \in Nat /\ i + 1 \in 1 .. Len(todo) /\ 1 \in 1 .. i + 1
            /\ \A k \in 1 .. i : k + 1 \in 1 .. i + 1 /\ k \in 1 .. Len(Tail(todo))
          BY <3>1, <3>2, <3>3
      <4>2. /\ Follows(view, todo[i + 1], r)
            /\ \A k \in 1 .. i + 1 : Part(todo[k].stage) <= Part(todo[i + 1].stage)
          BY <1>2, <4>1 DEF Writable
      <4>3. Tail(todo)[i] = todo[i + 1] /\ \A k \in 1 .. i : Tail(todo)[k] = todo[k + 1]
          BY <3>2, <3>3, <4>1
      <4>4. Part(e.stage) <= Part(todo[i + 1].stage)
          BY <2>2, <2>4, <4>1, <4>2
      <4>5. Follows(e, todo[i + 1], r)
          BY <2>10, <4>2, <4>4 DEF Follows
      <4> QED
          BY <4>1, <4>2, <4>3, <4>5
    <3> QED
        BY <3>2, <3>3 DEF Writable
  <2>14. Placed(ctl[c].at, e, Tail(todo)) /\ ctl[c].at # "cleanup"
      BY <1>2, <1>4, <2>10 DEF Placed
  <2>15. ControlInv(ctl[c])'
      BY <1>1, <1>2, <2>7, <2>8, <2>12, <2>13, <2>14 DEF ControlInv
  <2> QED
      BY <1>1, <1>2, <2>1, <2>4, <2>6, <2>7, <2>9, <2>10, <2>11, <2>14, <2>15, JournalMoves
<1> QED
    BY <1>3, <1>4 DEF ClientEnds, WriteEntry

-----------------------------------------------------------------------------
(* The end of the Daemon, its starts and its Runs.                         *)

LEMMA ServiceMoves ==
    ASSUME LifecycleInv, JournalInv, NEW c \in Client, StopNative(c)
    PROVE  JournalInv'
<1> DEFINE o == Op(c)
           view == View(c)
           r == receipt[o]
           e == To(view, "process-stopped")
<1>1. /\ ctl[c] # Idle /\ ctl[c].at = "step" /\ UNCHANGED <<journal, receipt>>
      /\ view.stage = "owned-processes-stopped"
      /\ ctl' = [CallsLost EXCEPT ![c].todo = <<e>>]
      /\ cleanup' = [d \in Client |-> NoCall] /\ daemon' = Down(daemon.instance)
    BY DEF StopNative, At, Idle, DaemonGone
<1>2. /\ view \in Entries /\ view.outcome = None /\ o \in Operation
      /\ Seen(view, journal[o], r) /\ Agrees(journal[o], r)
      /\ r \in {NoReceipt} \cup Receipts
    BY <1>1, ControlFacts
<1>3. daemon' \in Daemons
    BY <1>1 DEF Down, Daemons, JournalInv, JournalTypes
<1>4. /\ e \in Entries /\ e.stage = "process-stopped" /\ e.kind = view.kind /\ e.outcome = None
    BY <1>2 DEF To, Entries, JournalStages
<1>5. r.stage \notin {None, "prepared"} /\ Part(view.stage) <= Part("process-stopped")
    BY <1>1, <1>2 DEF Seen, Fits, NeedsDaemon, WithoutDaemon, Part, BeforeCleanup
<1>6. /\ ctl'[c] = [op |-> o, at |-> "step", view |-> view, todo |-> <<e>>]
      /\ \A d \in Client : d # c => ctl'[d] = CallsLost[d]
    BY <1>1, OutlivesTheDaemon DEF LifecycleInv, Op, View
<1> HIDE DEF e
<1>7. Follows(view, e, r)
    BY <1>2, <1>4, <1>5, StageFollows DEF JournalStages
<1>8. Writable(view, <<e>>, r) /\ Placed("step", view, <<e>>)
    BY <1>7, OneToWrite DEF Placed
<1>9. /\ ctl'[c].op = o /\ ctl'[c].at = "step" /\ ctl'[c].view = view /\ ctl'[c].todo = <<e>>
    BY <1>6
<1>10. ControlInv(ctl[c])'
    BY <1>1, <1>2, <1>8, <1>9 DEF ControlInv
<1>11. \A d \in Client : CallsLost[d] = Idle \/ (CallsLost[d] = ctl[d] /\ ctl[d].at # "cleanup")
    BY DEF CallsLost
<1>12. CallsAreAttended'
    BY <1>1, <1>6, <1>9, <1>11 DEF CallsAreAttended, Idle
<1>13. receipt' = [receipt EXCEPT ![o] = r] /\ Moves(r, r)
    BY <1>1 DEF JournalInv, JournalTypes, Moves
<1> QED
    BY <1>1, <1>2, <1>3, <1>6, <1>10, <1>11, <1>12, <1>13, ReceiptMoves

LEMMA DaemonMoves ==
    ASSUME LifecycleInv, JournalInv,
           \/ StartDaemon \/ DaemonReady \/ Dispatch \/ RunsSettle \/ DaemonDies \/ HostRestarts
           \/ UserStarts \/ Supervise
    PROVE  JournalInv'
<1>1. UNCHANGED <<journal, receipt>>
    BY DEF StartDaemon, DaemonReady, Dispatch, RunsSettle, DaemonDies, HostRestarts, UserStarts,
       Supervise
<1>2. daemon \in Daemons /\ DOMAIN ctl = Client
    BY DEF JournalInv, JournalTypes, LifecycleInv, ControlsHoldTheGate
<1>3. daemon' \in Daemons
  <2>1. CASE StartDaemon
    <3>1. daemon' = [Down(daemon.instance + 1) EXCEPT !.held = ActiveDrainHeld]
        BY <2>1 DEF StartDaemon, Started
    <3>2. ActiveDrainHeld \in BOOLEAN
        BY DEF ActiveDrainHeld
    <3>3. daemon.instance + 1 \in Nat
        BY <1>2 DEF Daemons
    <3>4. Down(daemon.instance + 1) \in Daemons
        BY <3>3 DEF Down, Daemons
    <3> HIDE DEF ActiveDrainHeld
    <3> QED
        BY <3>1, <3>2, <3>4 DEF Daemons
  <2>2. CASE DaemonDies \/ HostRestarts
    <3>1. daemon' = Down(daemon.instance)
        BY <2>2 DEF DaemonDies, HostRestarts, DaemonGone
    <3> QED
        BY <1>2, <3>1 DEF Down, Daemons
  <2>3. CASE DaemonReady \/ Dispatch \/ RunsSettle \/ UserStarts \/ Supervise
      BY <1>2, <2>3 DEF DaemonReady, Dispatch, RunsSettle, UserStarts, Supervise, Daemons
  <2> QED
      BY <2>1, <2>2, <2>3
<1>4. CASE DaemonDies \/ HostRestarts
  <2>1. cleanup' = [d \in Client |-> NoCall]
      BY <1>4 DEF DaemonDies, HostRestarts, DaemonGone
  <2>2. \A d \in Client : ctl'[d] = Idle \/ (ctl'[d] = ctl[d] /\ ctl[d].at # "cleanup")
      BY <1>4 DEF DaemonDies, HostRestarts, CallsLost
  <2> QED
      BY <1>1, <1>3, <2>1, <2>2, QuietJournal
<1>5. CASE StartDaemon \/ DaemonReady \/ Dispatch \/ RunsSettle \/ UserStarts \/ Supervise
  <2>1. UNCHANGED <<cleanup, ctl>>
      BY <1>5 DEF StartDaemon, DaemonReady, Dispatch, RunsSettle, UserStarts, Supervise
  <2> QED
      BY <1>1, <1>3, <2>1, QuietJournal
<1> QED
    BY <1>4, <1>5

LEMMA JournalInvNext == LifecycleInv /\ JournalInv /\ [Next]_vars => JournalInv'
<1> SUFFICES ASSUME LifecycleInv, JournalInv, [Next]_vars
             PROVE  JournalInv'
    OBVIOUS
<1>1. CASE UNCHANGED vars
  <2>1. UNCHANGED <<journal, receipt, daemon, cleanup, ctl>>
      BY <1>1 DEF vars
  <2> QED
      BY <2>1, QuietJournal DEF JournalInv, JournalTypes
<1>2. CASE \E c \in Client, o \in Operation :
              (\E kind \in Kinds : Begin(c, o, kind)) \/ Resume(c, o) \/ ForceDrain(c, o)
    BY <1>2, OperationsMove
<1>3. CASE \E c \in Client : ControllerStep(c)
  <2>1. PICK c \in Client : ControllerStep(c)
      BY <1>3
  <2>2. CASE ClientEnds(c) \/ WriteEntry(c)
      BY <2>2, EntriesMove
  <2>3. CASE \/ SwitchAutomaticStart(c) \/ SettleStopped(c) \/ CompleteStop(c)
             \/ SealPurgeSafety(c) \/ StopNativeFails(c) \/ StartReplacement(c)
             \/ ResumeHandoff(c) \/ ResumeAccepted(c)
      BY <2>3, StagesPassed
  <2>4. CASE \/ Preflight(c) \/ BeginDrain(c) \/ ReadDrain(c) \/ PrepareHandoff(c)
             \/ ConfirmControllerReady(c)
      BY <2>4, DrainBegins, DrainEnds, HandoffMoves
  <2>5. CASE CallCleanup(c) \/ FinishCleanup(c) \/ FailCleanup(c)
      BY <2>5, CleanupIsCalled, CleanupEnds
  <2>6. CASE StopNative(c) \/ ConfirmReplacement(c)
      BY <2>6, ServiceMoves, ReplacementMoves
  <2>7. CASE \/ AcquireGate(c) \/ RemoveRegistration(c) \/ RemoveInstallation(c)
             \/ CompleteRemoval(c)
      BY <2>7, RemovalMoves
  <2> QED
      BY <2>1, <2>2, <2>3, <2>4, <2>5, <2>6, <2>7 DEF ControllerStep
<1>4. CASE StartDaemon \/ DaemonReady \/ Dispatch \/ RunsSettle \/ DaemonDies \/ HostRestarts
           \/ UserStarts \/ Supervise
    BY <1>4, DaemonMoves
<1> QED
    BY <1>1, <1>2, <1>3, <1>4 DEF Next

LEMMA JournalStaysSound == Spec => []JournalInv
    BY LifecycleStaysSound, JournalInvInit, JournalInvNext, PTL DEF Spec

(* However many commands drive an operation, resume it or are overtaken,   *)
(* and wherever calls are lost, the journal never runs ahead of the        *)
(* Daemon's receipt.                                                       *)
THEOREM JournalStaysBehind == Spec => []JournalFollowsReceipt
<1>1. JournalInv => JournalFollowsReceipt
  <2> SUFFICES ASSUME JournalInv, NEW o \in Operation, Begun(o)
               PROVE  /\ receipt[o] = NoReceipt =>
                            journal[o].stage \in {"prepared", "process-stopped",
                               "service-unregistered", "installation-removed", "completed"}
                      /\ journal[o].stage \in {"draining", "drained"} => receipt[o].held
                      /\ journal[o].stage = "owned-processes-stopped" =>
                            receipt[o].stage = "process-stopped"
                      /\ journal[o].kind = "restart" /\ journal[o].outcome = "succeeded" =>
                            /\ receipt[o].stage = "replacement-ready"
                            /\ ~receipt[o].held
                            /\ receipt[o].owner = journal[o].owner
      BY DEF JournalFollowsReceipt
  <2>1. /\ Agrees(journal[o], receipt[o]) /\ journal[o] # NoEntry
        /\ receipt[o] \in {NoReceipt} \cup Receipts
      BY DEF JournalInv, OperationsAgree, JournalTypes, Begun
  <2>2. Fits(journal[o], receipt[o])
      BY <2>1 DEF Agrees
  <2>3. /\ NoReceipt.stage = None /\ NoReceipt.held = FALSE
      BY DEF NoReceipt
  <2>4. CASE receipt[o] = NoReceipt
      BY <2>2, <2>3, <2>4 DEF Fits, NeedsDaemon, WithoutDaemon, Over
  <2>5. CASE receipt[o] # NoReceipt
      BY <2>1, <2>2, <2>5 DEF Agrees, Orderly, Receipts, Fits, NeedsDaemon, WithoutDaemon, Over,
         Part, BeforeCleanup
  <2> QED
      BY <2>4, <2>5
<1> QED
    BY <1>1, JournalStaysSound, PTL

-----------------------------------------------------------------------------
(* The drain, when there is one command at a time: the entry a controller  *)
(* works on is then the journal's, and no call is overtaken.  A receipt    *)
(* that an operation under way has is the only one that is not settled,    *)
(* so that the replacement of that operation may drop the Daemon's hold.   *)

DrainedStages == {"drained", "handoff-prepared", "controller-ready", "controller-accepted",
                  "cleanup-started", "owned-processes-stopped", "process-stopped"}

Settled(r) == r = NoReceipt \/ (~r.held /\ r.stage \in Over)

(* The drain of a restart that an entry says is over is over.              *)
Quiet(e, r, executing) ==
    e.kind = "restart" /\ ~e.forced /\ e.stage \in DrainedStages => r.held /\ ~executing

OneIsUnderWay ==
    /\ \A o, p \in Operation : Pending(o) /\ Pending(p) => o = p
    /\ \A o, p \in Operation :
          Pending(o) /\ receipt[o] # NoReceipt /\ p # o => Settled(receipt[p])

ControlsAreCurrent ==
    \A c \in Client : ctl[c] # Idle =>
        /\ View(c) = journal[Op(c)]
        /\ \A i \in 1 .. Len(ctl[c].todo) : Quiet(ctl[c].todo[i], receipt[Op(c)], daemon.executing)

CallsAreCurrent ==
    \A c \in Client : cleanup[c] # NoCall =>
        /\ ~cleanup[c].moved
        /\ cleanup[c].replacement <=> journal[cleanup[c].op].kind = "restart"

HoldsAreKept == child /\ ActiveDrainHeld => daemon.held

DrainsStayOver ==
    \A o \in Operation : journal[o] # NoEntry => Quiet(journal[o], receipt[o], daemon.executing)

DrainInv ==
    OneIsUnderWay /\ ControlsAreCurrent /\ CallsAreCurrent /\ HoldsAreKept /\ DrainsStayOver

LEMMA DrainInvInit == Init => DrainInv
    BY DEF Init, DrainInv, OneIsUnderWay, ControlsAreCurrent, CallsAreCurrent, HoldsAreKept,
       DrainsStayOver, Pending, ActiveDrainHeld, NoReceipt, Down

(* What the only command works on.                                         *)
LEMMA CurrentFacts ==
    ASSUME LifecycleInv, JournalInv, DrainInv, NEW c \in Client, ctl[c] # Idle
    PROVE  /\ Op(c) \in Operation /\ journal[Op(c)] \in Entries /\ View(c) = journal[Op(c)]
           /\ Pending(Op(c)) /\ View(c).outcome = None
           /\ Quiet(View(c), receipt[Op(c)], daemon.executing)
           /\ \A i \in 1 .. Len(ctl[c].todo) :
                 Quiet(ctl[c].todo[i], receipt[Op(c)], daemon.executing)
<1>1. /\ Op(c) \in Operation /\ View(c) \in Entries /\ View(c).outcome = None
    BY ControlFacts
<1>2. /\ View(c) = journal[Op(c)]
      /\ \A i \in 1 .. Len(ctl[c].todo) :
            Quiet(ctl[c].todo[i], receipt[Op(c)], daemon.executing)
    BY DEF DrainInv, ControlsAreCurrent
<1>3. View(c) # NoEntry
    BY <1>1 DEF Entries, NoEntry, JournalStages, BeforeCleanup
<1> QED
    BY <1>1, <1>2, <1>3 DEF Pending, DrainInv, DrainsStayOver

(* The receipt of an operation moves, for the only command or for a call   *)
(* that it does not wait for any more.                                     *)
LEMMA DrainStays ==
    ASSUME LifecycleInv, JournalInv, DrainInv, \A c, d \in Client : c = d,
           NEW o \in Operation, NEW r, receipt' = [receipt EXCEPT ![o] = r], UNCHANGED journal,
           daemon'.executing \in BOOLEAN, daemon'.executing => daemon.executing,
           Settled(receipt[o]) => Settled(r) \/ Pending(o),
           receipt[o] = NoReceipt /\ r # NoReceipt =>
              \A p \in Operation : p # o => Settled(receipt[p]),
           \/ journal[o].kind = "restart" /\ receipt[o].held => r.held
           \/ journal[o].stage \notin DrainedStages,
           HoldsAreKept', CallsAreCurrent',
           \A c \in Client : ctl'[c] # Idle =>
              /\ View(c)' = journal[Op(c)']
              /\ \A i \in 1 .. Len(ctl'[c].todo) :
                    Quiet(ctl'[c].todo[i], receipt'[Op(c)'], daemon'.executing)
    PROVE  DrainInv'
<1>1. receipt'[o] = r /\ \A p \in Operation : p # o => receipt'[p] = receipt[p]
    BY DEF JournalInv, JournalTypes
<1>2. OneIsUnderWay'
  <2>1. \A p \in Operation : Pending(p)' <=> Pending(p)
      BY DEF Pending
  <2>2. ASSUME NEW q \in Operation, NEW p \in Operation, Pending(q), receipt'[q] # NoReceipt, p # q
        PROVE  Settled(receipt'[p])
    <3>1. CASE q = o
        BY <1>1, <2>2, <3>1 DEF DrainInv, OneIsUnderWay
    <3>2. CASE q # o /\ p = o
      <4>1. Settled(receipt[o]) /\ ~Pending(o)
          BY <1>1, <2>2, <3>2 DEF DrainInv, OneIsUnderWay
      <4> QED
          BY <1>1, <3>2, <4>1
    <3>3. CASE q # o /\ p # o
        BY <1>1, <2>2, <3>3 DEF DrainInv, OneIsUnderWay
    <3> QED
        BY <3>1, <3>2, <3>3
  <2> QED
      BY <2>1, <2>2 DEF DrainInv, OneIsUnderWay
<1>3. DrainsStayOver'
  <2> SUFFICES ASSUME NEW p \in Operation, journal[p] # NoEntry
               PROVE  Quiet(journal[p], receipt'[p], daemon'.executing)
      BY DEF DrainsStayOver
  <2>1. Quiet(journal[p], receipt[p], daemon.executing)
      BY DEF DrainInv, DrainsStayOver
  <2> QED
      BY <1>1, <2>1 DEF Quiet
<1>4. ControlsAreCurrent'
    BY DEF ControlsAreCurrent
<1> QED
    BY <1>2, <1>3, <1>4 DEF DrainInv

(* A controller decides what to write, and may have moved its receipt.     *)
LEMMA DrainDecides ==
    ASSUME LifecycleInv, JournalInv, DrainInv, \A c, d \in Client : c = d,
           NEW c \in Client, ctl[c] # Idle, NEW at, NEW entries, NEW r,
           Do(c, at, entries), receipt' = [receipt EXCEPT ![Op(c)] = r], UNCHANGED journal,
           daemon'.executing = daemon.executing,
           receipt[Op(c)] = NoReceipt /\ r # NoReceipt =>
              \A p \in Operation : p # Op(c) => Settled(receipt[p]),
           \/ journal[Op(c)].kind = "restart" /\ receipt[Op(c)].held => r.held
           \/ journal[Op(c)].stage \notin DrainedStages,
           HoldsAreKept', CallsAreCurrent',
           \A i \in 1 .. Len(entries) : Quiet(entries[i], r, daemon.executing)
    PROVE  DrainInv'
<1>1. /\ Op(c) \in Operation /\ View(c) = journal[Op(c)] /\ Pending(Op(c))
    BY CurrentFacts
<1>2. ctl'[c] = [op |-> Op(c), at |-> at, view |-> View(c), todo |-> entries]
    BY DoneBy
<1>3. Op(c)' = Op(c) /\ View(c)' = View(c) /\ ctl'[c].todo = entries
    BY <1>2 DEF Op, View
<1>4. receipt'[Op(c)] = r
    BY <1>1 DEF JournalInv, JournalTypes
<1>5. daemon'.executing \in BOOLEAN
    BY DEF JournalInv, JournalTypes, Daemons
<1>6. \A d \in Client : ctl'[d] # Idle =>
         /\ View(d)' = journal[Op(d)']
         /\ \A i \in 1 .. Len(ctl'[d].todo) :
               Quiet(ctl'[d].todo[i], receipt'[Op(d)'], daemon'.executing)
  <2> SUFFICES ASSUME NEW d \in Client
               PROVE  /\ View(d)' = journal[Op(d)']
                      /\ \A i \in 1 .. Len(ctl'[d].todo) :
                            Quiet(ctl'[d].todo[i], receipt'[Op(d)'], daemon'.executing)
      OBVIOUS
  <2>1. d = c
      OBVIOUS
  <2>2. /\ View(c)' = journal[Op(c)']
        /\ \A i \in 1 .. Len(ctl'[c].todo) :
              Quiet(ctl'[c].todo[i], receipt'[Op(c)'], daemon'.executing)
      BY <1>1, <1>3, <1>4
  <2> QED
      BY <2>1, <2>2
<1> QED
    BY <1>1, <1>5, <1>6, DrainStays

(* The usual case: receipt, Daemon and calls are as they were.             *)
LEMMA DrainDecidesAlone ==
    ASSUME LifecycleInv, JournalInv, DrainInv, \A c, d \in Client : c = d,
           NEW c \in Client, ctl[c] # Idle, NEW at, NEW entries, Do(c, at, entries),
           UNCHANGED <<journal, receipt, cleanup, child>>,
           daemon'.executing = daemon.executing, daemon'.held = daemon.held,
           \A i \in 1 .. Len(entries) : Quiet(entries[i], receipt[Op(c)], daemon.executing)
    PROVE  DrainInv'
<1>1. receipt' = [receipt EXCEPT ![Op(c)] = receipt[Op(c)]]
    BY DEF JournalInv, JournalTypes
<1>2. HoldsAreKept' /\ CallsAreCurrent'
    BY DEF DrainInv, HoldsAreKept, ActiveDrainHeld, CallsAreCurrent
<1> QED
    BY <1>1, <1>2, DrainDecides

-----------------------------------------------------------------------------
(* The steps of the only command.                                          *)

LEMMA StagesKeepDrain ==
    ASSUME LifecycleInv, JournalInv, DrainInv, \A c, d \in Client : c = d, NEW c \in Client,
           \/ SwitchAutomaticStart(c) \/ SettleStopped(c) \/ CompleteStop(c)
           \/ SealPurgeSafety(c) \/ StopNativeFails(c) \/ StartReplacement(c)
           \/ ResumeHandoff(c) \/ ResumeAccepted(c) \/ AcquireGate(c) \/ RemoveRegistration(c)
           \/ RemoveInstallation(c) \/ CompleteRemoval(c)
    PROVE  DrainInv'
<1> DEFINE view == View(c)
           r == receipt[Op(c)]
<1>1. /\ ctl[c] # Idle /\ UNCHANGED <<journal, receipt, cleanup, daemon, child>>
    BY DEF SwitchAutomaticStart, SettleStopped, CompleteStop, SealPurgeSafety, StopNativeFails,
       StartReplacement, StartLauncher, ResumeHandoff, ResumeAccepted, AcquireGate,
       RemoveRegistration, RemoveInstallation, CompleteRemoval, Removing, At, Idle, supervisionVars
<1>2. /\ view \in Entries /\ Quiet(view, r, daemon.executing) /\ daemon.executing \in BOOLEAN
      /\ Placed(ctl[c].at, view, ctl[c].todo)
    BY <1>1, ControlFacts, CurrentFacts DEF JournalInv, JournalTypes, Daemons
<1>3. ASSUME NEW at, NEW e, Do(c, at, <<e>>), Quiet(e, r, daemon.executing)
      PROVE  DrainInv'
  <2>1. \A i \in 1 .. Len(<<e>>) : <<e>>[i] = e
      OBVIOUS
  <2> QED
      BY <1>1, <1>3, <2>1, DrainDecidesAlone
<1>4. ASSUME NEW at, NEW e, Do(c, at, <<e>>),
             e.stage \notin DrainedStages \/ e.kind # "restart"
      PROVE  DrainInv'
    BY <1>3, <1>4 DEF Quiet
<1>5. ASSUME NEW at, NEW e, Do(c, at, <<e>>), view.stage \in DrainedStages,
             e.kind = view.kind, e.forced = view.forced
      PROVE  DrainInv'
    BY <1>2, <1>3, <1>5 DEF Quiet
<1>6. Completed(view).stage = "completed" /\ ToRepair(view).stage = "repair-required"
    BY <1>2 DEF Completed, ToRepair, Entries
<1>7. ASSUME NEW stage
      PROVE  /\ To(view, stage).stage = stage /\ To(view, stage).kind = view.kind
             /\ To(view, stage).forced = view.forced
    BY <1>2 DEF To, Entries
<1>8. CASE \/ Do(c, "step", <<Completed(view)>>) \/ Do(c, "removing", <<Completed(view)>>)
           \/ Do(c, "step", <<ToRepair(view)>>)
    BY <1>4, <1>6, <1>8 DEF DrainedStages
<1>9. CASE SettleStopped(c)
  <2>1. CASE /\ view.kind = "remove"
             /\ Do(c, "step", <<[To(view, "process-stopped") EXCEPT !.evidence = TRUE]>>)
    <3>1. [To(view, "process-stopped") EXCEPT !.evidence = TRUE].kind = view.kind
        BY <1>2 DEF To, Entries
    <3> QED
        BY <1>4, <2>1, <3>1
  <2> QED
      BY <1>8, <1>9, <2>1 DEF SettleStopped
<1>10. CASE SealPurgeSafety(c)
  <2>1. /\ [view EXCEPT !.evidence = TRUE].kind = view.kind
        /\ [view EXCEPT !.evidence = TRUE].forced = view.forced
      BY <1>2 DEF Entries
  <2> QED
      BY <1>5, <1>10, <2>1 DEF SealPurgeSafety, At, DrainedStages
<1>11. CASE StartReplacement(c)
    BY <1>4, <1>7, <1>11 DEF StartReplacement, DrainedStages
<1>12. CASE ResumeHandoff(c) \/ ResumeAccepted(c)
    BY <1>5, <1>7, <1>12 DEF ResumeHandoff, ResumeAccepted, At, DrainedStages
<1>13. CASE AcquireGate(c)
  <2>1. Do(c, "removing", <<>>) /\ \A i \in 1 .. Len(<<>>) : Quiet(<<>>[i], r, daemon.executing)
      BY <1>13 DEF AcquireGate
  <2> QED
      BY <1>1, <2>1, DrainDecidesAlone
<1>14. CASE RemoveRegistration(c) \/ RemoveInstallation(c)
    BY <1>4, <1>7, <1>14 DEF RemoveRegistration, RemoveInstallation, DrainedStages
<1> QED
    BY <1>8, <1>9, <1>10, <1>11, <1>12, <1>13, <1>14
       DEF SwitchAutomaticStart, CompleteStop, StopNativeFails, CompleteRemoval

LEMMA BeginsKeepDrain ==
    ASSUME LifecycleInv, JournalInv, DrainInv, \A c, d \in Client : c = d, NEW c \in Client,
           Preflight(c) \/ BeginDrain(c)
    PROVE  DrainInv'
<1> DEFINE o == Op(c)
           view == View(c)
<1>1. /\ ctl[c] # Idle /\ UNCHANGED <<journal, cleanup, child>> /\ MayPrepare(o)
    BY DEF Preflight, BeginDrain, At, Idle, supervisionVars
<1>2. /\ o \in Operation /\ view \in Entries /\ view = journal[o]
      /\ Placed(ctl[c].at, view, ctl[c].todo) /\ daemon \in Daemons
      /\ receipt[o] \in {NoReceipt} \cup Receipts
    BY <1>1, ControlFacts, CurrentFacts DEF JournalInv, JournalTypes
<1>3. view.stage = "prepared"
    BY <1>2 DEF Preflight, BeginDrain, At, Placed
<1>4. receipt[o] = NoReceipt => \A p \in Operation : p # o => Settled(receipt[p])
    BY <1>1 DEF MayPrepare, Settled, Over
<1>5. CallsAreCurrent'
    BY <1>1 DEF DrainInv, CallsAreCurrent
<1>6. journal[o].stage \notin DrainedStages
    BY <1>2, <1>3 DEF DrainedStages
<1>7. CASE Preflight(c)
  <2>1. /\ receipt' = [receipt EXCEPT ![o] = Prepared(o)] /\ daemon' = daemon
        /\ Do(c, "preflighted", <<>>)
      BY <1>7 DEF Preflight
  <2>2. receipt[o] = NoReceipt => ~Prepared(o).held
      BY DEF Prepared, Receipt
  <2>3. HoldsAreKept'
    <3>1. \A p \in Operation : receipt'[p].held => receipt[p].held
        BY <1>2, <2>1, <2>2 DEF Prepared, JournalInv, JournalTypes
    <3> QED
        BY <1>1, <2>1, <3>1 DEF DrainInv, HoldsAreKept, ActiveDrainHeld
  <2>4. \A i \in 1 .. Len(<<>>) : Quiet(<<>>[i], Prepared(o), daemon.executing)
      OBVIOUS
  <2> QED
      BY <1>1, <1>4, <1>5, <1>6, <2>1, <2>3, <2>4, DrainDecides
<1>8. CASE BeginDrain(c)
  <2> DEFINE next == IF Prepared(o).stage # "prepared" THEN Prepared(o) ELSE Draining(Prepared(o))
             e == [To(view, "draining") EXCEPT !.busy = daemon.executing,
                                               !.owner = daemon.instance]
  <2>1. /\ receipt' = [receipt EXCEPT ![o] = next] /\ daemon' = [daemon EXCEPT !.held = TRUE]
        /\ Do(c, "step", <<e>>)
      BY <1>8 DEF BeginDrain
  <2>2. e.stage = "draining"
      BY <1>2 DEF To, Entries
  <2>3. daemon'.held = TRUE /\ daemon'.executing = daemon.executing
      BY <1>2, <2>1 DEF Daemons
  <2> HIDE DEF next, e
  <2>4. HoldsAreKept'
      BY <2>3 DEF HoldsAreKept
  <2>5. \A i \in 1 .. Len(<<e>>) : Quiet(<<e>>[i], next, daemon.executing)
      BY <2>2 DEF Quiet, DrainedStages
  <2> QED
      BY <1>1, <1>4, <1>5, <1>6, <2>1, <2>3, <2>4, <2>5, DrainDecides
<1> QED
    BY <1>7, <1>8

LEMMA DrainEndsQuietly ==
    ASSUME LifecycleInv, JournalInv, DrainInv, \A c, d \in Client : c = d, NEW c \in Client,
           ReadDrain(c)
    PROVE  DrainInv'
<1> DEFINE view == View(c)
           r == receipt[Op(c)]
           seen == [view EXCEPT !.busy = daemon.executing]
           drained == To(seen, "drained")
           entries == (IF seen = view THEN <<>> ELSE <<seen>>)
                      \o (IF daemon.executing THEN <<>> ELSE <<drained>>)
<1>1. /\ ctl[c] # Idle /\ UNCHANGED <<journal, cleanup, receipt, daemon, child>>
      /\ view.stage = "draining" /\ r.held /\ Do(c, "step", entries)
    BY DEF ReadDrain, At, Idle, supervisionVars
<1>2. view \in Entries /\ daemon.executing \in BOOLEAN
    BY <1>1, ControlFacts DEF JournalInv, JournalTypes, Daemons
<1>3. seen \in Entries /\ seen.stage = "draining" /\ drained \in Entries
    BY <1>1, <1>2 DEF Entries, To, JournalStages, BeforeCleanup
<1>4. /\ Quiet(seen, r, daemon.executing)
      /\ ~daemon.executing => Quiet(drained, r, daemon.executing)
    BY <1>1, <1>3 DEF Quiet, DrainedStages
<1> HIDE DEF seen, drained
<1>5. \A i \in 1 .. Len(entries) : Quiet(entries[i], r, daemon.executing)
  <2> DEFINE s == IF seen = view THEN <<>> ELSE <<seen>>
             t == IF daemon.executing THEN <<>> ELSE <<drained>>
  <2>1. /\ s \in Seq(Entries) /\ \A i \in 1 .. Len(s) : s[i] = seen
        /\ t \in Seq(Entries) /\ \A i \in 1 .. Len(t) : t[i] = drained /\ ~daemon.executing
        /\ Len(s) \in Nat /\ Len(t) \in Nat
    <3>1. /\ <<>> \in Seq(Entries) /\ Len(<<>>) = 0
          /\ <<seen>> \in Seq(Entries) /\ Len(<<seen>>) = 1 /\ <<seen>>[1] = seen
          /\ <<drained>> \in Seq(Entries) /\ Len(<<drained>>) = 1 /\ <<drained>>[1] = drained
        BY <1>3
    <3>2. /\ s \in Seq(Entries) /\ \A i \in 1 .. Len(s) : s[i] = seen
          /\ Len(s) \in Nat
        BY <3>1
    <3>3. /\ t \in Seq(Entries) /\ \A i \in 1 .. Len(t) : t[i] = drained /\ ~daemon.executing
          /\ Len(t) \in Nat
      <4>1. CASE daemon.executing
          BY <3>1, <4>1
      <4>2. CASE ~daemon.executing
          BY <3>1, <4>2
      <4> QED BY <4>1, <4>2
    <3> QED BY <3>2, <3>3
  <2>2. entries = s \o t
      OBVIOUS
  <2> HIDE DEF s, t, entries
  <2>3. /\ Len(entries) = Len(s) + Len(t)
        /\ \A i \in 1 .. Len(s) + Len(t) : entries[i] = IF i <= Len(s) THEN s[i] ELSE t[i - Len(s)]
      BY <2>1, <2>2, ConcatProperties
  <2>4. ASSUME NEW i \in 1 .. Len(entries)
        PROVE  Quiet(entries[i], r, daemon.executing)
    <3>1. CASE i <= Len(s)
        BY <1>4, <2>1, <2>3, <3>1
    <3>2. CASE ~(i <= Len(s))
      <4>1. i - Len(s) \in 1 .. Len(t)
          BY <2>1, <2>3, <3>2
      <4> QED
          BY <1>4, <2>1, <2>3, <3>2, <4>1
    <3> QED
        BY <3>1, <3>2
  <2> QED
      BY <2>4
<1> QED
    BY <1>1, <1>5, DrainDecidesAlone

LEMMA HandoffsKeepDrain ==
    ASSUME LifecycleInv, JournalInv, DrainInv, \A c, d \in Client : c = d, NEW c \in Client,
           PrepareHandoff(c) \/ ConfirmControllerReady(c)
    PROVE  DrainInv'
<1> DEFINE o == Op(c)
           view == View(c)
           r == receipt[o]
<1>1. /\ ctl[c] # Idle /\ UNCHANGED <<journal, cleanup, daemon, child>>
    BY DEF PrepareHandoff, ConfirmControllerReady, At, Idle, supervisionVars
<1>2. /\ view \in Entries /\ view = journal[o] /\ Quiet(view, r, daemon.executing)
      /\ daemon.executing \in BOOLEAN /\ o \in Operation
      /\ r \in {NoReceipt} \cup Receipts
    BY <1>1, ControlFacts, CurrentFacts DEF JournalInv, JournalTypes, Daemons
<1>3. CallsAreCurrent'
    BY <1>1 DEF DrainInv, CallsAreCurrent
<1>4. ASSUME NEW next, next.held = r.held, receipt' = [receipt EXCEPT ![o] = next], r # NoReceipt,
             NEW e, NEW f, Do(c, "step", <<e, f>>),
             view.stage \in DrainedStages \/ view.forced,
             e.kind = view.kind, e.forced = view.forced, f.kind = view.kind, f.forced = view.forced
      PROVE  DrainInv'
  <2>1. HoldsAreKept'
    <3>1. \A p \in Operation : receipt'[p].held = receipt[p].held
        BY <1>2, <1>4 DEF JournalInv, JournalTypes
    <3> QED
        BY <1>1, <3>1 DEF DrainInv, HoldsAreKept, ActiveDrainHeld
  <2>2. Quiet(e, next, daemon.executing) /\ Quiet(f, next, daemon.executing)
      BY <1>2, <1>4 DEF Quiet
  <2>3. \A i \in 1 .. Len(<<e, f>>) : <<e, f>>[i] = e \/ <<e, f>>[i] = f
      OBVIOUS
  <2>4. \A i \in 1 .. Len(<<e, f>>) : Quiet(<<e, f>>[i], next, daemon.executing)
      BY <2>2, <2>3
  <2> QED
      BY <1>1, <1>3, <1>4, <2>1, <2>4, DrainDecides
<1>5. ASSUME NEW stage, NEW owner
      PROVE  /\ To(view, stage).kind = view.kind /\ To(view, stage).forced = view.forced
             /\ [To(view, stage) EXCEPT !.owner = owner].kind = view.kind
             /\ [To(view, stage) EXCEPT !.owner = owner].forced = view.forced
    BY <1>2 DEF To, Entries
<1>6. CASE PrepareHandoff(c)
  <2> DEFINE next == IF r.handoff THEN r
                     ELSE [Advanced(r, "handoff-prepared", daemon.instance) EXCEPT !.handoff = TRUE]
             e == [To(view, "handoff-prepared") EXCEPT !.owner = next.owner]
             f == [To(view, "controller-ready") EXCEPT !.owner = next.owner]
  <2>1. /\ r.held /\ receipt' = [receipt EXCEPT ![o] = next] /\ Do(c, "step", <<e, f>>)
        /\ view.stage = "drained" \/ (view.stage = "draining" /\ view.forced)
      BY <1>6 DEF PrepareHandoff, At
  <2>2. r # NoReceipt /\ r \in Receipts
      BY <1>2, <2>1 DEF NoReceipt
  <2>3. next.held = r.held
      BY <2>2 DEF Advanced, Receipts
  <2>4. /\ e.kind = view.kind /\ e.forced = view.forced
        /\ f.kind = view.kind /\ f.forced = view.forced
      BY <1>5
  <2> HIDE DEF next, e, f
  <2> QED
      BY <1>4, <2>1, <2>2, <2>3, <2>4 DEF DrainedStages
<1>7. CASE ConfirmControllerReady(c)
  <2> DEFINE next == IF r.stage = "controller-accepted" THEN r
                     ELSE Advanced(r, "controller-accepted", daemon.instance)
             e == To(view, "controller-accepted")
             f == To(view, "cleanup-started")
  <2>1. /\ r.stage \in {"handoff-prepared", "controller-accepted"}
        /\ receipt' = [receipt EXCEPT ![o] = next] /\ Do(c, "step", <<e, f>>)
        /\ view.stage = "controller-ready"
      BY <1>7 DEF ConfirmControllerReady, At
  <2>2. r # NoReceipt /\ r \in Receipts
      BY <1>2, <2>1 DEF NoReceipt
  <2>3. next.held = r.held
      BY <2>2 DEF Advanced, Receipts
  <2>4. /\ e.kind = view.kind /\ e.forced = view.forced
        /\ f.kind = view.kind /\ f.forced = view.forced
      BY <1>5
  <2> HIDE DEF next, e, f
  <2> QED
      BY <1>4, <2>1, <2>2, <2>3, <2>4 DEF DrainedStages
<1> QED
    BY <1>6, <1>7

(* A step that moves neither journal nor receipt, in which commands end or *)
(* take up what the journal has.                                           *)
LEMMA DrainRests ==
    ASSUME LifecycleInv, JournalInv, DrainInv, UNCHANGED <<journal, receipt>>,
           daemon.executing \in BOOLEAN, daemon'.executing \in BOOLEAN,
           daemon'.executing => daemon.executing \/ ~ActiveDrainHeld,
           UNCHANGED cleanup \/ cleanup' = [d \in Client |-> NoCall], HoldsAreKept',
           \A d \in Client :
              \/ ctl'[d] = ctl[d] \/ ctl'[d] = Idle
              \/ View(d)' = journal[Op(d)'] /\ ctl'[d].todo = <<>>
    PROVE  DrainInv'
<1>1. ASSUME NEW o \in Operation, NEW e, Quiet(e, receipt[o], daemon.executing)
      PROVE  Quiet(e, receipt'[o], daemon'.executing)
    BY <1>1 DEF Quiet, ActiveDrainHeld
<1>2. OneIsUnderWay' /\ DrainsStayOver'
    BY <1>1 DEF DrainInv, OneIsUnderWay, DrainsStayOver, Pending
<1>3. CallsAreCurrent'
    BY DEF DrainInv, CallsAreCurrent
<1>4. ASSUME NEW d \in Client, ctl'[d] # Idle
      PROVE  /\ View(d)' = journal'[Op(d)']
             /\ \A i \in 1 .. Len(ctl'[d].todo) :
                   Quiet(ctl'[d].todo[i], receipt'[Op(d)'], daemon'.executing)
  <2>1. CASE ctl'[d] = ctl[d]
    <3>1. ctl[d] # Idle /\ View(d)' = View(d) /\ Op(d)' = Op(d)
        BY <1>4, <2>1 DEF View, Op
    <3>2. /\ Op(d) \in Operation /\ View(d) = journal[Op(d)]
          /\ \A i \in 1 .. Len(ctl[d].todo) :
                Quiet(ctl[d].todo[i], receipt[Op(d)], daemon.executing)
        BY <3>1, CurrentFacts
    <3> QED
        BY <1>1, <2>1, <3>1, <3>2
  <2>2. CASE View(d)' = journal[Op(d)'] /\ ctl'[d].todo = <<>>
    <3>1. 1 .. Len(<<>>) = {}
        OBVIOUS
    <3> QED
        BY <2>2, <3>1
  <2> QED
      BY <1>4, <2>1, <2>2
<1> QED
    BY <1>2, <1>3, <1>4 DEF DrainInv, ControlsAreCurrent

LEMMA CallsKeepDrain ==
    ASSUME LifecycleInv, JournalInv, DrainInv, \A c, d \in Client : c = d, NEW c \in Client,
           CallCleanup(c)
    PROVE  DrainInv'
<1> DEFINE o == Op(c)
           view == View(c)
           r == receipt[o]
<1>1. /\ ctl[c] # Idle /\ UNCHANGED <<journal, child>> /\ view.stage = "cleanup-started"
    BY DEF CallCleanup, At, Idle, supervisionVars
<1>2. /\ view \in Entries /\ view = journal[o] /\ Quiet(view, r, daemon.executing)
      /\ daemon \in Daemons /\ o \in Operation /\ r \in {NoReceipt} \cup Receipts
    BY <1>1, ControlFacts, CurrentFacts DEF JournalInv, JournalTypes
<1>3. ASSUME NEW e, Do(c, "step", <<e>>), UNCHANGED <<receipt, daemon, cleanup>>,
             Quiet(e, r, daemon.executing)
      PROVE  DrainInv'
  <2>1. \A i \in 1 .. Len(<<e>>) : Quiet(<<e>>[i], r, daemon.executing)
      BY <1>3
  <2> QED
      BY <1>1, <1>3, <2>1, DrainDecidesAlone
<1>4. CASE Do(c, "step", <<ToRepair(view)>>) /\ UNCHANGED <<receipt, daemon, cleanup>>
  <2>1. ToRepair(view).stage = "repair-required"
      BY <1>2 DEF ToRepair, Entries
  <2> QED
      BY <1>3, <1>4, <2>1 DEF Quiet, DrainedStages
<1>5. CASE Do(c, "step", <<Stopped(c, r.owner)>>) /\ UNCHANGED <<receipt, daemon, cleanup>>
  <2>1. Stopped(c, r.owner).kind = view.kind /\ Stopped(c, r.owner).forced = view.forced
      BY <1>2 DEF Stopped, To, Entries
  <2> QED
      BY <1>1, <1>2, <1>3, <1>5, <2>1 DEF Quiet, DrainedStages
<1>6. ASSUME r.stage \in {"controller-accepted", "cleanup-started"},
             receipt' = [receipt EXCEPT ![o] =
                [Advanced(r, "cleanup-started", daemon.instance)
                    EXCEPT !.forced = @ \/ view.forced]],
             cleanup' = [ReceiptMoved(o) EXCEPT ![c] =
                [op |-> o, moved |-> FALSE, forced |-> view.forced, replacement |-> Replacement(c)]],
             daemon' = [daemon EXCEPT !.stopping = TRUE],
             Do(c, "cleanup", <<>>)
      PROVE  DrainInv'
  <2> DEFINE next == [Advanced(r, "cleanup-started", daemon.instance)
                         EXCEPT !.forced = @ \/ view.forced]
             call == [op |-> o, moved |-> FALSE, forced |-> view.forced,
                      replacement |-> Replacement(c)]
  <2>1. r # NoReceipt /\ r \in Receipts
      BY <1>2, <1>6 DEF NoReceipt
  <2>2. next.held = r.held
      BY <2>1 DEF Advanced, Receipts
  <2>3. receipt' = [receipt EXCEPT ![o] = next]
      BY <1>6
  <2>4. cleanup'[c] = call
    <3>1. DOMAIN ReceiptMoved(o) = Client
        BY DEF ReceiptMoved
    <3> QED
        BY <1>6, <3>1
  <2>5. call.op = o /\ call.moved = FALSE /\ (call.replacement <=> view.kind = "restart")
      BY DEF Replacement
  <2>6. daemon'.held = daemon.held /\ daemon'.executing = daemon.executing
      BY <1>2, <1>6 DEF Daemons
  <2> HIDE DEF next, call
  <2>7. CallsAreCurrent'
      BY <1>1, <1>2, <2>4, <2>5 DEF CallsAreCurrent
  <2>8. HoldsAreKept'
    <3>1. \A p \in Operation : receipt'[p].held = receipt[p].held
        BY <1>2, <2>2, <2>3 DEF JournalInv, JournalTypes
    <3> QED
        BY <1>1, <2>6, <3>1 DEF DrainInv, HoldsAreKept, ActiveDrainHeld
  <2>9. \A i \in 1 .. Len(<<>>) : Quiet(<<>>[i], next, daemon.executing)
      OBVIOUS
  <2> QED
      BY <1>1, <1>6, <2>1, <2>2, <2>3, <2>6, <2>7, <2>8, <2>9, DrainDecides
<1> QED
    BY <1>4, <1>5, <1>6 DEF CallCleanup

LEMMA CleanupsKeepDrain ==
    ASSUME LifecycleInv, JournalInv, DrainInv, \A c, d \in Client : c = d, NEW c \in Client,
           FinishCleanup(c) \/ FailCleanup(c)
    PROVE  DrainInv'
<1> DEFINE call == cleanup[c]
           o == call.op
           r == receipt[o]
           view == View(c)
<1>1. /\ call # NoCall /\ UNCHANGED <<journal, child>>
    BY DEF FinishCleanup, FailCleanup, supervisionVars
<1>2. /\ call \in Calls /\ o \in Operation /\ Attended(call, journal[o], r)
      /\ r \in {NoReceipt} \cup Receipts /\ Agrees(journal[o], r) /\ daemon \in Daemons
      /\ DOMAIN cleanup = Client
    BY <1>1 DEF JournalInv, JournalTypes, CallsAreAttended, OperationsAgree, Calls
<1>3. ~call.moved /\ (call.replacement <=> journal[o].kind = "restart")
    BY <1>1 DEF DrainInv, CallsAreCurrent
<1>4. r.stage = "cleanup-started" /\ r \in Receipts /\ r.held
  <2>1. r.stage = "cleanup-started"
      BY <1>2, <1>3 DEF Attended
  <2>2. r # NoReceipt
      BY <2>1 DEF NoReceipt
  <2> QED
      BY <1>2, <2>1, <2>2 DEF Agrees, Orderly, Over
<1>5. ctl[c].at = "cleanup" =>
         /\ ctl[c] # Idle /\ Op(c) = o /\ view \in Entries /\ view.stage = "cleanup-started"
  <2> SUFFICES ASSUME ctl[c].at = "cleanup"
               PROVE  /\ ctl[c] # Idle /\ Op(c) = o /\ view \in Entries
                      /\ view.stage = "cleanup-started"
      OBVIOUS
  <2>1. ctl[c] # Idle /\ Op(c) = o
      BY DEF JournalInv, CallsAreAttended, Idle, Op
  <2>2. view \in Entries /\ view.stage = "cleanup-started"
      BY <2>1, ControlFacts DEF Placed
  <2> QED
      BY <2>1, <2>2
<1>6. ASSUME NEW next, receipt' = [receipt EXCEPT ![o] = next],
             journal[o].kind = "restart" => next.held,
             daemon'.held = daemon.held, daemon'.executing => daemon.executing,
             daemon'.executing \in BOOLEAN, cleanup'[c] = NoCall,
             NEW e, Answer(c, <<e>>),
             ctl[c].at = "cleanup" => \/ e.stage \notin DrainedStages
                                      \/ e.kind = view.kind /\ e.forced = view.forced
      PROVE  DrainInv'
  <2>1. /\ receipt'[o] = next
        /\ \A p \in Operation : p # o => receipt'[p] = receipt[p]
      BY <1>2, <1>6 DEF JournalInv, JournalTypes
  <2>2. CallsAreCurrent'
      BY <1>6 DEF CallsAreCurrent
  <2>3. HoldsAreKept'
    <3>1. ActiveDrainHeld
        BY <1>2, <1>4 DEF ActiveDrainHeld
    <3> QED
        BY <1>1, <1>6, <3>1 DEF DrainInv, HoldsAreKept
  <2>4. ASSUME NEW p \in Operation, NEW f, Quiet(f, receipt[p], daemon.executing),
               f.kind = journal[p].kind
        PROVE  Quiet(f, receipt'[p], daemon'.executing)
      BY <1>4, <1>6, <2>1, <2>4 DEF Quiet
  <2>5. ctl'[c] # Idle =>
           /\ View(c)' = journal[Op(c)']
           /\ \A i \in 1 .. Len(ctl'[c].todo) :
                 Quiet(ctl'[c].todo[i], receipt'[Op(c)'], daemon'.executing)
    <3>1. CASE ctl[c].at # "cleanup" /\ ctl[c] # Idle
      <4>1. ctl'[c] = ctl[c]
          BY <1>6, <3>1 DEF Answer
      <4>2. /\ Op(c) \in Operation /\ view = journal[Op(c)]
            /\ \A i \in 1 .. Len(ctl[c].todo) :
                  /\ Quiet(ctl[c].todo[i], receipt[Op(c)], daemon.executing)
                  /\ ctl[c].todo[i].kind = journal[Op(c)].kind
          BY <3>1, CurrentFacts, ControlFacts DEF Writable, Follows
      <4> QED
          BY <2>4, <4>1, <4>2 DEF View, Op
    <3>2. CASE ctl[c].at = "cleanup"
      <4>1. Do(c, "step", <<e>>)
          BY <1>6, <3>2 DEF Answer
      <4>2. ctl'[c] = [op |-> o, at |-> "step", view |-> view, todo |-> <<e>>]
          BY <1>5, <3>2, <4>1, DoneBy
      <4>3. /\ Op(c)' = o /\ View(c)' = view /\ ctl'[c].todo = <<e>>
          BY <4>2 DEF Op, View
      <4>4. view = journal[o] /\ Quiet(view, r, daemon.executing)
          BY <1>5, <3>2, CurrentFacts
      <4>5. Quiet(e, next, daemon'.executing)
          BY <1>5, <1>6, <3>2, <4>4 DEF Quiet, DrainedStages
      <4>6. \A i \in 1 .. Len(<<e>>) : <<e>>[i] = e
          OBVIOUS
      <4> QED
          BY <2>1, <4>3, <4>4, <4>5, <4>6
    <3>3. CASE ctl[c].at # "cleanup" /\ ctl[c] = Idle
        BY <1>6, <3>3 DEF Answer
    <3> QED
        BY <3>1, <3>2, <3>3
  <2>6. ~Settled(r) /\ r # NoReceipt
      BY <1>4 DEF Settled, NoReceipt, Over
  <2> HIDE DEF o, r, view
  <2>7. \A d \in Client : ctl'[d] # Idle =>
           /\ View(d)' = journal[Op(d)']
           /\ \A i \in 1 .. Len(ctl'[d].todo) :
                 Quiet(ctl'[d].todo[i], receipt'[Op(d)'], daemon'.executing)
    <3> SUFFICES ASSUME NEW d \in Client, ctl'[d] # Idle
                 PROVE  /\ View(d)' = journal[Op(d)']
                        /\ \A i \in 1 .. Len(ctl'[d].todo) :
                              Quiet(ctl'[d].todo[i], receipt'[Op(d)'], daemon'.executing)
        OBVIOUS
    <3>1. d = c
        OBVIOUS
    <3> QED
        BY <2>5, <3>1
  <2>8. \/ journal[o].kind = "restart" /\ r.held => next.held
        \/ journal[o].stage \notin DrainedStages
      BY <1>6
  <2> QED
      BY <1>1, <1>2, <1>6, <2>2, <2>3, <2>6, <2>7, <2>8, DrainStays DEF r
<1>7. CASE FailCleanup(c)
  <2>1. /\ receipt' = [receipt EXCEPT ![o] = r] /\ daemon' = daemon
        /\ cleanup' = [cleanup EXCEPT ![c] = NoCall] /\ Answer(c, <<ToRepair(view)>>)
      BY <1>7 DEF FailCleanup, JournalInv, JournalTypes
  <2>2. ctl[c].at = "cleanup" => ToRepair(view).stage = "repair-required"
      BY <1>5 DEF ToRepair, Entries
  <2>3. cleanup'[c] = NoCall
      BY <1>2, <2>1
  <2> QED
      BY <1>2, <1>4, <1>6, <2>1, <2>2, <2>3 DEF DrainedStages, Daemons
<1>8. CASE FinishCleanup(c)
  <2> DEFINE next == [Advanced(r, "process-stopped", daemon.instance) EXCEPT !.held = call.replacement]
             e == Stopped(c, daemon.instance)
  <2>1. /\ receipt' = [receipt EXCEPT ![o] = next]
        /\ daemon' = [daemon EXCEPT !.executing = FALSE]
        /\ cleanup' = [ReceiptMoved(o) EXCEPT ![c] = NoCall]
        /\ Answer(c, <<e>>)
      BY <1>3, <1>8 DEF FinishCleanup
  <2>2. next.held <=> journal[o].kind = "restart"
      BY <1>3, <1>4 DEF Advanced, Receipts
  <2>3. cleanup'[c] = NoCall
    <3>1. DOMAIN ReceiptMoved(o) = Client
        BY DEF ReceiptMoved
    <3> QED
        BY <2>1, <3>1
  <2>4. daemon'.held = daemon.held /\ daemon'.executing = FALSE
      BY <1>2, <2>1 DEF Daemons
  <2>5. ctl[c].at = "cleanup" => e.kind = view.kind /\ e.forced = view.forced
      BY <1>5 DEF Stopped, To, Entries
  <2> HIDE DEF next, e
  <2> QED
      BY <1>6, <2>1, <2>2, <2>3, <2>4, <2>5
<1> QED
    BY <1>7, <1>8

LEMMA ServiceKeepsDrain ==
    ASSUME LifecycleInv, JournalInv, DrainInv, \A c, d \in Client : c = d, NEW c \in Client,
           StopNative(c) \/ ConfirmReplacement(c)
    PROVE  DrainInv'
<1> DEFINE o == Op(c)
           view == View(c)
           r == receipt[o]
<1>1. ctl[c] # Idle /\ UNCHANGED journal
    BY DEF StopNative, ConfirmReplacement, At, Idle
<1>2. /\ view \in Entries /\ view = journal[o] /\ Quiet(view, r, daemon.executing)
      /\ daemon \in Daemons /\ o \in Operation /\ r \in {NoReceipt} \cup Receipts
      /\ Pending(o) /\ Agrees(journal[o], r)
    BY <1>1, ControlFacts, CurrentFacts DEF JournalInv, JournalTypes
<1>3. CASE StopNative(c)
  <2> DEFINE e == To(view, "process-stopped")
  <2>1. /\ view.stage = "owned-processes-stopped" /\ ctl[c].at = "step" /\ ~child'
        /\ ctl' = [CallsLost EXCEPT ![c].todo = <<e>>] /\ UNCHANGED receipt
        /\ cleanup' = [d \in Client |-> NoCall] /\ daemon' = Down(daemon.instance)
      BY <1>3 DEF StopNative, At, DaemonGone, StopLauncher
  <2>2. ~daemon'.executing /\ daemon'.executing \in BOOLEAN
      BY <2>1 DEF Down
  <2>3. e.kind = view.kind /\ e.forced = view.forced
      BY <1>2 DEF To, Entries
  <2>4. ctl'[c] = [op |-> o, at |-> "step", view |-> view, todo |-> <<e>>]
      BY <1>1, <2>1, OutlivesTheDaemon DEF LifecycleInv, Op, View
  <2> HIDE DEF e
  <2>5. /\ Op(c)' = o /\ View(c)' = view /\ ctl'[c].todo = <<e>>
      BY <2>4 DEF Op, View
  <2>6. Quiet(e, r, daemon'.executing)
      BY <1>2, <2>1, <2>2, <2>3 DEF Quiet, DrainedStages
  <2>7. \A i \in 1 .. Len(<<e>>) : <<e>>[i] = e
      OBVIOUS
  <2>8. /\ View(c)' = journal[Op(c)']
        /\ \A i \in 1 .. Len(ctl'[c].todo) :
              Quiet(ctl'[c].todo[i], receipt'[Op(c)'], daemon'.executing)
      BY <1>2, <2>1, <2>5, <2>6, <2>7
  <2>9. \A d \in Client : ctl'[d] # Idle =>
           /\ View(d)' = journal[Op(d)']
           /\ \A i \in 1 .. Len(ctl'[d].todo) :
                 Quiet(ctl'[d].todo[i], receipt'[Op(d)'], daemon'.executing)
    <3> SUFFICES ASSUME NEW d \in Client
                 PROVE  /\ View(d)' = journal[Op(d)']
                        /\ \A i \in 1 .. Len(ctl'[d].todo) :
                              Quiet(ctl'[d].todo[i], receipt'[Op(d)'], daemon'.executing)
        OBVIOUS
    <3>1. d = c
        OBVIOUS
    <3> QED
        BY <2>8, <3>1
  <2>10. HoldsAreKept' /\ CallsAreCurrent'
      BY <2>1 DEF HoldsAreKept, CallsAreCurrent
  <2>11. receipt' = [receipt EXCEPT ![o] = r]
      BY <2>1 DEF JournalInv, JournalTypes
  <2> QED
      BY <1>1, <1>2, <2>2, <2>9, <2>10, <2>11, DrainStays
<1>4. CASE ConfirmReplacement(c)
  <2>1. /\ view.stage = "replacement-started" /\ daemon' = [daemon EXCEPT !.held = FALSE]
        /\ UNCHANGED cleanup
      BY <1>4 DEF ConfirmReplacement, At
  <2>2. daemon'.executing = daemon.executing
      BY <1>2, <2>1 DEF Daemons
  <2>3. CallsAreCurrent'
      BY <1>1, <2>1 DEF DrainInv, CallsAreCurrent
  <2>4. ASSUME NEW next, ~next.held, r # NoReceipt, receipt' = [receipt EXCEPT ![o] = next],
               NEW owner, Do(c, "step", <<[Completed(view) EXCEPT !.owner = owner]>>)
        PROVE  DrainInv'
    <3> DEFINE e == [Completed(view) EXCEPT !.owner = owner]
    <3>1. e.stage = "completed"
        BY <1>2 DEF Completed, Entries
    <3>2. \A p \in Operation : p # o => Settled(receipt[p])
        BY <1>2, <2>4 DEF DrainInv, OneIsUnderWay
    <3>3. \A p \in Operation : ~receipt'[p].held
        BY <1>2, <2>4, <3>2 DEF Settled, NoReceipt, JournalInv, JournalTypes
    <3>4. HoldsAreKept'
        BY <3>3 DEF HoldsAreKept, ActiveDrainHeld
    <3>5. Do(c, "step", <<e>>)
        BY <2>4
    <3> HIDE DEF e
    <3>6. \A i \in 1 .. Len(<<e>>) : Quiet(<<e>>[i], next, daemon.executing)
        BY <3>1 DEF Quiet, DrainedStages
    <3>7. journal[o].stage \notin DrainedStages
        BY <1>2, <2>1 DEF DrainedStages
    <3> QED
        BY <1>1, <2>2, <2>3, <2>4, <3>4, <3>5, <3>6, <3>7, DrainDecides
  <2>5. CASE /\ r.stage = "replacement-ready" /\ UNCHANGED receipt
             /\ Do(c, "step", <<[Completed(view) EXCEPT !.owner = r.owner]>>)
    <3>1. r # NoReceipt
        BY <2>5 DEF NoReceipt
    <3>2. ~r.held
        BY <1>2, <2>5, <3>1 DEF Agrees, Orderly
    <3>3. receipt' = [receipt EXCEPT ![o] = r]
        BY <2>5 DEF JournalInv, JournalTypes
    <3> QED
        BY <2>4, <2>5, <3>1, <3>2, <3>3
  <2>6. CASE /\ IsReplacement(c) /\ receipt' = [receipt EXCEPT ![o] = Replaced(r)]
             /\ Do(c, "step", <<[Completed(view) EXCEPT !.owner = daemon.instance]>>)
    <3>1. r # NoReceipt
        BY <2>6 DEF NoReceipt, IsReplacement
    <3>2. ~Replaced(r).held
        BY <1>2, <3>1 DEF Replaced, Advanced, Receipts
    <3> QED
        BY <2>4, <2>6, <3>1, <3>2
  <2> QED
      BY <1>4, <2>5, <2>6 DEF ConfirmReplacement
<1> QED
    BY <1>3, <1>4

(* The journal moves.                                                      *)
LEMMA DrainWritten ==
    ASSUME LifecycleInv, JournalInv, DrainInv, NEW o \in Operation, NEW e,
           journal' = [journal EXCEPT ![o] = e],
           UNCHANGED <<receipt, daemon, cleanup, child>>,
           Quiet(e, receipt[o], daemon.executing),
           \/ Pending(o) /\ e.kind = journal[o].kind
           \/ journal[o] = NoEntry /\ \A p \in Operation : ~Pending(p),
           \A d \in Client : ctl'[d] # Idle =>
              /\ View(d)' = journal'[Op(d)']
              /\ \A i \in 1 .. Len(ctl'[d].todo) :
                    Quiet(ctl'[d].todo[i], receipt[Op(d)'], daemon.executing)
    PROVE  DrainInv'
<1>1. /\ journal'[o] = e /\ \A p \in Operation : p # o => journal'[p] = journal[p]
    BY DEF JournalInv, JournalTypes
<1>2. OneIsUnderWay'
  <2>1. \A p \in Operation : Pending(p)' => Pending(p) \/ p = o
      BY <1>1 DEF Pending
  <2>2. journal[o] = NoEntry => receipt[o] = NoReceipt
      BY DEF JournalInv, OperationsAgree, Agrees
  <2>3. ASSUME NEW p \in Operation, NEW q \in Operation, Pending(p)', Pending(q)'
        PROVE  p = q
      BY <2>1, <2>3 DEF DrainInv, OneIsUnderWay
  <2>4. ASSUME NEW p \in Operation, NEW q \in Operation, Pending(p)', receipt[p] # NoReceipt, q # p
        PROVE  Settled(receipt[q])
    <3>1. Pending(p)
        BY <2>1, <2>2, <2>4
    <3> QED
        BY <2>4, <3>1 DEF DrainInv, OneIsUnderWay
  <2> QED
      BY <2>3, <2>4 DEF OneIsUnderWay
<1>3. CallsAreCurrent'
  <2> SUFFICES ASSUME NEW d \in Client, cleanup[d] # NoCall
               PROVE  /\ ~cleanup[d].moved
                      /\ cleanup[d].replacement <=> journal'[cleanup[d].op].kind = "restart"
      BY DEF CallsAreCurrent
  <2>1. /\ cleanup[d].op \in Operation /\ journal[cleanup[d].op] # NoEntry
      BY DEF JournalInv, JournalTypes, CallsAreAttended, Attended, Calls
  <2>2. /\ ~cleanup[d].moved
        /\ cleanup[d].replacement <=> journal[cleanup[d].op].kind = "restart"
      BY DEF DrainInv, CallsAreCurrent
  <2>3. journal'[cleanup[d].op].kind = journal[cleanup[d].op].kind
      BY <1>1, <2>1
  <2> QED
      BY <2>2, <2>3
<1>4. HoldsAreKept'
    BY DEF DrainInv, HoldsAreKept, ActiveDrainHeld
<1>5. DrainsStayOver'
    BY <1>1 DEF DrainInv, DrainsStayOver
<1>6. ControlsAreCurrent'
    BY DEF ControlsAreCurrent
<1> QED
    BY <1>2, <1>3, <1>4, <1>5, <1>6 DEF DrainInv

LEMMA OperationsKeepDrain ==
    ASSUME LifecycleInv, JournalInv, DrainInv, \A c, d \in Client : c = d, NEW c \in Client,
           NEW o \in Operation,
           (\E kind \in Kinds : Begin(c, o, kind)) \/ Resume(c, o) \/ ForceDrain(c, o)
    PROVE  DrainInv'
<1>1. /\ journal[o] \in {NoEntry} \cup Entries /\ daemon.executing \in BOOLEAN
    BY DEF JournalInv, JournalTypes, Daemons
<1>2. ASSUME NEW e, ctl' = [ctl EXCEPT ![c] = Control(o, e)]
      PROVE  Op(c)' = o /\ View(c)' = e /\ ctl'[c].todo = <<>> /\ 1 .. Len(ctl'[c].todo) = {}
  <2>1. ctl'[c] = [op |-> o, at |-> "step", view |-> e, todo |-> <<>>]
      BY <1>2 DEF LifecycleInv, ControlsHoldTheGate, Control
  <2>2. Op(c)' = o /\ View(c)' = e /\ ctl'[c].todo = <<>>
      BY <2>1 DEF Op, View
  <2> QED
      BY <2>2
<1>3. ASSUME NEW e, journal' = [journal EXCEPT ![o] = e],
             ctl' = [ctl EXCEPT ![c] = Control(o, e)],
             UNCHANGED <<receipt, daemon, cleanup, child>>,
             Quiet(e, receipt[o], daemon.executing),
             \/ Pending(o) /\ e.kind = journal[o].kind
             \/ journal[o] = NoEntry /\ \A p \in Operation : ~Pending(p)
      PROVE  DrainInv'
  <2>1. View(c)' = journal'[Op(c)'] /\ 1 .. Len(ctl'[c].todo) = {}
      BY <1>2, <1>3 DEF JournalInv, JournalTypes
  <2>2. \A d \in Client : ctl'[d] # Idle =>
           /\ View(d)' = journal'[Op(d)']
           /\ \A i \in 1 .. Len(ctl'[d].todo) :
                 Quiet(ctl'[d].todo[i], receipt[Op(d)'], daemon.executing)
    <3> SUFFICES ASSUME NEW d \in Client
                 PROVE  /\ View(d)' = journal'[Op(d)']
                        /\ \A i \in 1 .. Len(ctl'[d].todo) :
                              Quiet(ctl'[d].todo[i], receipt[Op(d)'], daemon.executing)
        OBVIOUS
    <3>1. d = c
        OBVIOUS
    <3> QED
        BY <2>1, <3>1
  <2> QED
      BY <1>3, <2>2, DrainWritten
<1>4. ASSUME NEW kind \in Kinds, Begin(c, o, kind)
      PROVE  DrainInv'
  <2>1. /\ journal[o] = NoEntry /\ \A p \in Operation : ~Pending(p)
        /\ journal' = [journal EXCEPT ![o] = Entry(kind)]
        /\ ctl' = [ctl EXCEPT ![c] = Control(o, Entry(kind))]
        /\ UNCHANGED <<receipt, daemon, cleanup, child>>
      BY <1>4 DEF Begin, supervisionVars
  <2>2. Quiet(Entry(kind), receipt[o], daemon.executing)
      BY DEF Quiet, Entry, DrainedStages
  <2> QED
      BY <1>3, <2>1, <2>2
<1>5. CASE Resume(c, o)
  <2>1. /\ ctl' = [ctl EXCEPT ![c] = Control(o, journal[o])]
        /\ UNCHANGED <<journal, receipt, daemon, cleanup, child>>
      BY <1>5 DEF Resume, supervisionVars
  <2>2. View(c)' = journal[Op(c)'] /\ ctl'[c].todo = <<>>
      BY <1>2, <2>1
  <2>3. \A d \in Client : View(d)' = journal[Op(d)'] /\ ctl'[d].todo = <<>>
    <3> SUFFICES ASSUME NEW d \in Client
                 PROVE  View(d)' = journal[Op(d)'] /\ ctl'[d].todo = <<>>
        OBVIOUS
    <3>1. d = c
        OBVIOUS
    <3> QED
        BY <2>2, <3>1
  <2>4. HoldsAreKept'
      BY <2>1 DEF DrainInv, HoldsAreKept, ActiveDrainHeld
  <2> QED
      BY <1>1, <2>1, <2>3, <2>4, DrainRests
<1>6. CASE ForceDrain(c, o)
  <2> DEFINE e == [journal[o] EXCEPT !.forced = TRUE, !.rev = @ + 1]
  <2>1. /\ Pending(o) /\ journal' = [journal EXCEPT ![o] = e]
        /\ ctl' = [ctl EXCEPT ![c] = Control(o, e)]
        /\ UNCHANGED <<receipt, daemon, cleanup, child>>
      BY <1>6 DEF ForceDrain, supervisionVars
  <2>2. journal[o] \in Entries
      BY <1>1, <2>1 DEF Pending
  <2>3. e.forced = TRUE /\ e.kind = journal[o].kind
      BY <2>2 DEF Entries
  <2>4. Quiet(e, receipt[o], daemon.executing)
      BY <2>3 DEF Quiet
  <2> HIDE DEF e
  <2> QED
      BY <1>3, <2>1, <2>3, <2>4
<1> QED
    BY <1>4, <1>5, <1>6

LEMMA EntriesKeepDrain ==
    ASSUME LifecycleInv, JournalInv, DrainInv, \A c, d \in Client : c = d, NEW c \in Client,
           ClientEnds(c) \/ WriteEntry(c)
    PROVE  DrainInv'
<1> DEFINE o == Op(c)
           view == View(c)
           r == receipt[o]
           todo == ctl[c].todo
           e == [Head(todo) EXCEPT !.rev = view.rev + 1]
<1>1. ctl[c] # Idle /\ UNCHANGED <<receipt, daemon, cleanup, child>>
    BY DEF ClientEnds, WriteEntry, supervisionVars
<1>2. /\ view \in Entries /\ view = journal[o] /\ o \in Operation /\ Pending(o)
      /\ Writable(view, todo, r) /\ daemon.executing \in BOOLEAN
      /\ \A i \in 1 .. Len(todo) : Quiet(todo[i], r, daemon.executing)
    BY <1>1, ControlFacts, CurrentFacts DEF JournalInv, JournalTypes, Daemons
<1>3. ctl' = [ctl EXCEPT ![c] = Idle] => \A d \in Client : ctl'[d] = Idle
  <2> SUFFICES ASSUME ctl' = [ctl EXCEPT ![c] = Idle], NEW d \in Client
               PROVE  ctl'[d] = Idle
      OBVIOUS
  <2>1. d = c
      OBVIOUS
  <2>2. ctl'[c] = Idle
      BY DEF LifecycleInv, ControlsHoldTheGate
  <2> QED
      BY <2>1, <2>2
<1>4. CASE ctl' = [ctl EXCEPT ![c] = Idle] /\ UNCHANGED journal
  <2>1. HoldsAreKept'
      BY <1>1 DEF DrainInv, HoldsAreKept, ActiveDrainHeld
  <2> QED
      BY <1>1, <1>2, <1>3, <1>4, <2>1, DrainRests
<1>5. CASE WriteEntry(c) /\ journal' = [journal EXCEPT ![o] = e]
  <2>1. todo \in Seq(Entries) /\ todo # <<>>
      BY <1>2, <1>5 DEF WriteEntry, Writable
  <2>2. Head(todo) = todo[1] /\ 1 \in 1 .. Len(todo)
      BY <2>1
  <2>3. Follows(view, Head(todo), r) /\ Quiet(Head(todo), r, daemon.executing)
      BY <1>2, <2>2 DEF Writable
  <2>4. /\ e.kind = Head(todo).kind /\ e.stage = Head(todo).stage /\ e.forced = Head(todo).forced
      BY <2>3 DEF Follows, Entries
  <2>5. journal' = [journal EXCEPT ![o] = e]
      BY <1>5
  <2>6. \/ ctl' = [ctl EXCEPT ![c] = Idle]
        \/ ctl' = [ctl EXCEPT ![c].view = e, ![c].todo = Tail(@)]
      BY <1>5 DEF WriteEntry
  <2> HIDE DEF e
  <2>7. Quiet(e, r, daemon.executing) /\ e.kind = journal[o].kind
      BY <1>2, <2>3, <2>4 DEF Quiet, Follows
  <2>8. ctl'[c] # Idle =>
           /\ View(c)' = journal'[Op(c)']
           /\ \A i \in 1 .. Len(ctl'[c].todo) :
                 Quiet(ctl'[c].todo[i], receipt[Op(c)'], daemon.executing)
    <3>1. CASE ctl' = [ctl EXCEPT ![c].view = e, ![c].todo = Tail(@)]
      <4>1. ctl'[c] = [op |-> o, at |-> ctl[c].at, view |-> e, todo |-> Tail(todo)]
          BY <1>1, <3>1, WrittenBy DEF LifecycleInv, Op
      <4>2. Op(c)' = o /\ View(c)' = e /\ ctl'[c].todo = Tail(todo)
          BY <4>1 DEF Op, View
      <4>3. journal'[o] = e
          BY <1>2, <2>5 DEF JournalInv, JournalTypes
      <4>4. /\ Tail(todo) \in Seq(Entries) /\ Len(Tail(todo)) = Len(todo) - 1
            /\ \A i \in 1 .. Len(Tail(todo)) : Tail(todo)[i] = todo[i + 1]
          BY <2>1, HeadTailProperties
      <4>5. \A i \in 1 .. Len(Tail(todo)) : i + 1 \in 1 .. Len(todo)
          BY <2>1, <4>4
      <4>6. \A i \in 1 .. Len(Tail(todo)) : Quiet(Tail(todo)[i], r, daemon.executing)
          BY <1>2, <4>4, <4>5
      <4> QED
          BY <4>2, <4>3, <4>6
    <3> QED
        BY <1>3, <2>6, <3>1
  <2>9. \A d \in Client : ctl'[d] # Idle =>
           /\ View(d)' = journal'[Op(d)']
           /\ \A i \in 1 .. Len(ctl'[d].todo) :
                 Quiet(ctl'[d].todo[i], receipt[Op(d)'], daemon.executing)
    <3> SUFFICES ASSUME NEW d \in Client, ctl'[d] # Idle
                 PROVE  /\ View(d)' = journal'[Op(d)']
                        /\ \A i \in 1 .. Len(ctl'[d].todo) :
                              Quiet(ctl'[d].todo[i], receipt[Op(d)'], daemon.executing)
        OBVIOUS
    <3>1. d = c
        OBVIOUS
    <3> QED
        BY <2>8, <3>1
  <2> QED
      BY <1>1, <1>2, <2>5, <2>7, <2>9, DrainWritten
<1> QED
    BY <1>4, <1>5 DEF ClientEnds, WriteEntry

(* The Daemon's own steps: one that starts takes up the holds, one that    *)
(* holds dispatch for a receipt starts no Run.                             *)
LEMMA DaemonKeepsDrain ==
    ASSUME LifecycleInv, JournalInv, DrainInv,
           \/ StartDaemon \/ DaemonReady \/ Dispatch \/ RunsSettle \/ DaemonDies \/ HostRestarts
           \/ UserStarts \/ Supervise
    PROVE  DrainInv'
<1>1. /\ UNCHANGED <<journal, receipt>>
      /\ daemon \in Daemons /\ daemon.executing \in BOOLEAN /\ daemon.instance \in Nat
      /\ ActiveDrainHeld' = ActiveDrainHeld /\ ActiveDrainHeld \in BOOLEAN
  <2>1. UNCHANGED <<journal, receipt>>
      BY DEF StartDaemon, DaemonReady, Dispatch, RunsSettle, DaemonDies, HostRestarts, UserStarts,
         Supervise
  <2> QED
      BY <2>1 DEF JournalInv, JournalTypes, Daemons, ActiveDrainHeld
<1>2. CASE DaemonDies \/ HostRestarts
  <2>1. cleanup' = [d \in Client |-> NoCall] /\ daemon' = Down(daemon.instance)
      BY <1>2 DEF DaemonDies, HostRestarts, DaemonGone
  <2>2. \A d \in Client : ctl'[d] = Idle \/ ctl'[d] = ctl[d]
      BY <1>2 DEF DaemonDies, HostRestarts, CallsLost
  <2>3. ~child'
      BY <1>2 DEF DaemonDies, HostRestarts, ChildDies, ActivationInterrupted, Reboot
  <2>4. daemon'.executing = FALSE /\ HoldsAreKept'
      BY <2>1, <2>3 DEF Down, HoldsAreKept
  <2> QED
      BY <1>1, <2>1, <2>2, <2>4, DrainRests
<1>3. CASE StartDaemon
  <2>1. UNCHANGED <<cleanup, ctl>>
      BY <1>3 DEF StartDaemon
  <2>2. daemon' = [Down(daemon.instance + 1) EXCEPT !.held = ActiveDrainHeld]
      BY <1>3 DEF StartDaemon, Started
  <2>3. daemon'.held = ActiveDrainHeld /\ daemon'.executing = FALSE
      BY <2>2 DEF Down
  <2>4. HoldsAreKept'
      BY <1>1, <2>3 DEF HoldsAreKept
  <2> QED
      BY <1>1, <2>1, <2>3, <2>4, DrainRests
<1>4. CASE DaemonReady \/ RunsSettle \/ UserStarts \/ Supervise
  <2>1. UNCHANGED <<cleanup, ctl, child>>
      BY <1>4 DEF DaemonReady, RunsSettle, UserStarts, Supervise, RecordReady, StartLauncher,
         supervisionVars, PrepareAttempt, FinishAttempt, RecordOperationSuccess, CheckRepair,
         ApplyRepair
  <2>2. /\ daemon'.held = daemon.held /\ daemon'.executing \in BOOLEAN
        /\ daemon'.executing => daemon.executing
      BY <1>1, <1>4 DEF DaemonReady, RunsSettle, UserStarts, Supervise, Daemons
  <2>3. HoldsAreKept'
      BY <1>1, <2>1, <2>2 DEF DrainInv, HoldsAreKept
  <2> QED
      BY <1>1, <2>1, <2>2, <2>3, DrainRests
<1>5. CASE Dispatch
  <2>1. UNCHANGED <<cleanup, ctl, child>> /\ child /\ ~daemon.held
      BY <1>5 DEF Dispatch, supervisionVars
  <2>2. ~ActiveDrainHeld
      BY <1>1, <2>1 DEF DrainInv, HoldsAreKept
  <2>3. daemon'.executing = TRUE
      BY <1>1, <1>5 DEF Dispatch, Daemons
  <2>4. HoldsAreKept'
      BY <1>1, <2>2 DEF HoldsAreKept
  <2> QED
      BY <1>1, <2>1, <2>2, <2>3, <2>4, DrainRests
<1> QED
    BY <1>2, <1>3, <1>4, <1>5

LEMMA DrainInvNext ==
    ASSUME \A c, d \in Client : c = d
    PROVE  LifecycleInv /\ JournalInv /\ DrainInv /\ [Next]_vars => DrainInv'
<1> SUFFICES ASSUME LifecycleInv, JournalInv, DrainInv, [Next]_vars
             PROVE  DrainInv'
    OBVIOUS
<1>1. CASE UNCHANGED vars
  <2>1. UNCHANGED <<journal, receipt, daemon, cleanup, ctl, child>>
      BY <1>1 DEF vars, supervisionVars
  <2>2. HoldsAreKept' /\ daemon.executing \in BOOLEAN
      BY <2>1 DEF DrainInv, HoldsAreKept, ActiveDrainHeld, JournalInv, JournalTypes, Daemons
  <2> QED
      BY <2>1, <2>2, DrainRests
<1>2. CASE \E c \in Client, o \in Operation :
              (\E kind \in Kinds : Begin(c, o, kind)) \/ Resume(c, o) \/ ForceDrain(c, o)
    BY <1>2, OperationsKeepDrain
<1>3. CASE \E c \in Client : ControllerStep(c)
  <2>1. PICK c \in Client : ControllerStep(c)
      BY <1>3
  <2>2. CASE ClientEnds(c) \/ WriteEntry(c)
      BY <2>2, EntriesKeepDrain
  <2>3. CASE \/ SwitchAutomaticStart(c) \/ SettleStopped(c) \/ CompleteStop(c)
             \/ SealPurgeSafety(c) \/ StopNativeFails(c) \/ StartReplacement(c)
             \/ ResumeHandoff(c) \/ ResumeAccepted(c) \/ AcquireGate(c) \/ RemoveRegistration(c)
             \/ RemoveInstallation(c) \/ CompleteRemoval(c)
      BY <2>3, StagesKeepDrain
  <2>4. CASE \/ Preflight(c) \/ BeginDrain(c) \/ ReadDrain(c) \/ PrepareHandoff(c)
             \/ ConfirmControllerReady(c)
      BY <2>4, BeginsKeepDrain, DrainEndsQuietly, HandoffsKeepDrain
  <2>5. CASE CallCleanup(c) \/ FinishCleanup(c) \/ FailCleanup(c)
      BY <2>5, CallsKeepDrain, CleanupsKeepDrain
  <2>6. CASE StopNative(c) \/ ConfirmReplacement(c)
      BY <2>6, ServiceKeepsDrain
  <2> QED
      BY <2>1, <2>2, <2>3, <2>4, <2>5, <2>6 DEF ControllerStep
<1>4. CASE StartDaemon \/ DaemonReady \/ Dispatch \/ RunsSettle \/ DaemonDies \/ HostRestarts
           \/ UserStarts \/ Supervise
    BY <1>4, DaemonKeepsDrain
<1> QED
    BY <1>1, <1>2, <1>3, <1>4 DEF Next

(* With one command at a time, interrupted and resumed as often as it may  *)
(* be: while a receipt holds dispatch the running Daemon holds it, across  *)
(* crashes, starts and reboots, and once the drain of a restart is over no *)
(* Daemon executes a Run until the replacement starts.                     *)
THEOREM OneCommandKeepsTheDrain ==
    ASSUME \A c, d \in Client : c = d
    PROVE  Spec => []DrainLasts
<1>1. DrainInv => DrainLasts
  <2> SUFFICES ASSUME DrainInv
               PROVE  DrainLasts
      OBVIOUS
  <2>1. HoldsAreKept
      BY DEF DrainInv
  <2>2. \A o \in Operation : Begun(o) => Quiet(journal[o], receipt[o], daemon.executing)
      BY DEF DrainInv, DrainsStayOver, Begun
  <2> QED
      BY <2>1, <2>2 DEF DrainLasts, HoldsAreKept, Quiet, DrainedStages
<1>2. LifecycleInv /\ JournalInv /\ DrainInv /\ [Next]_vars => DrainInv'
    BY DrainInvNext
<1> QED
    BY <1>1, <1>2, DrainInvInit, LifecycleStaysSound, JournalStaysSound, PTL DEF Spec
=============================================================================
