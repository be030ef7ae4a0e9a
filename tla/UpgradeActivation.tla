-------------------------- MODULE UpgradeActivation --------------------------
(***************************************************************************)
(* Activation of a managed release.  As for the other lifecycle operations *)
(* (DaemonLifecycle) a controller keeps the journal and the Daemon keeps a *)
(* receipt, but here the Daemon that ends the operation is another one     *)
(* than the Daemon that began it, and of another release.  The source      *)
(* Daemon drains, holds mutations, repeats the check, backs up and stops;  *)
(* the candidate starts restricted, migrates the data and proves that it   *)
(* is ready; then it is authorized, or the source is selected again, once. *)
(* The launcher's supervision is left out: while the service runs, the     *)
(* Daemon may die and start again at any time.                             *)
(***************************************************************************)
EXTENDS Integers, Sequences, FiniteSets

CONSTANTS
    Operation,          \* identities of upgrades
    Client,             \* commands that drive them
    Release,            \* the releases of the installation
    Reads,              \* data formats that a release reads
    Declares,           \* migrations that a release declares: sets of [from, to]
    Implements,         \* releases whose Daemon contains a migration
    FirstRelease,       \* the release that is installed
    FirstFormat,        \* the format of its data
    StartsMeanwhile,    \* whether others start the service while the controller has it stopped
    MaxInstance         \* bound on the Daemon instances

ASSUME ReadsAssumption ==
    /\ Reads \in [Release -> SUBSET Int]
    /\ FirstRelease \in Release /\ FirstFormat \in Reads[FirstRelease]

None == "none"

ASSUME NoneAssumption == None \notin Operation /\ None \notin Release

VARIABLES
    journal,            \* the entry of each operation
    receipt,            \* the Daemon's receipt of each operation
    selected,           \* the active release of the installation
    launcher,           \* the release whose launcher the service runs, None when it is stopped
    child,              \* TRUE while the Daemon process lives
    daemon,             \* its volatile state
    format,             \* format of the Daemon's data
    ctl,                \* the controllers
    unchanged           \* history: no mutation or Run since the last accepted preflight

vars == <<journal, receipt, selected, launcher, child, daemon, format, ctl, unchanged>>

NoEntry == [stage |-> None, outcome |-> None]
NoReceipt == [stage |-> None, dispatchHeld |-> FALSE, mutationsHeld |-> FALSE]
NoCall == [op |-> None, at |-> None]
Idle == [op |-> None, at |-> None]

Entry(source, candidate) ==
    [source |-> source, candidate |-> candidate, stage |-> "prepared", rev |-> 1,
     forced |-> FALSE, owner |-> 0, readiness |-> 0, rollbackAttempted |-> FALSE,
     outcome |-> None]

Receipt(entry) ==
    [source |-> entry.source, candidate |-> entry.candidate, stage |-> "prepared",
     dispatchHeld |-> FALSE, mutationsHeld |-> FALSE, handoff |-> FALSE, backup |-> FALSE,
     migrated |-> FALSE, readiness |-> 0, by |-> None]

Down(instance) ==
    [instance |-> instance, restricted |-> FALSE, held |-> FALSE,
     holder |-> None, stopping |-> FALSE, executing |-> FALSE, mutating |-> FALSE,
     call |-> NoCall]

Init ==
    /\ journal = [o \in Operation |-> NoEntry]
    /\ receipt = [o \in Operation |-> NoReceipt]
    /\ selected = FirstRelease
    /\ launcher = FirstRelease
    /\ child = FALSE
    /\ daemon = Down(0)
    /\ format = FirstFormat
    /\ ctl = [c \in Client |-> Idle]
    /\ unchanged = FALSE

Pending(o) == journal[o] # NoEntry /\ journal[o].outcome = None
RepairRequired == \E o \in Operation : journal[o].outcome = "repair-required"
View(c) == ctl[c].view
Op(c) == ctl[c].op

\* Stages of a receipt that ends the Daemon's part, once its holds are gone too.
TerminalStages == {"activation-authorized", "rolled-back", "upgrade-refused"}

\* Stages in which a Daemon that starts is restricted, if dispatch is held.
RestrictedStages ==
    {"mutations-held", "final-preflight-refused", "final-preflight-accepted", "handoff-prepared",
     "controller-accepted", "backup-verified", "source-execution-stopped", "candidate-ready",
     "activation-authorized", "rollback-ready", "rolled-back"}

IsActive(o) ==
    /\ receipt[o] # NoReceipt
    /\ receipt[o].stage \notin TerminalStages \/ receipt[o].dispatchHeld \/ receipt[o].mutationsHeld

(***************************************************************************)
(* Clients begin an operation, take up the pending one or force its drain. *)
(***************************************************************************)
Control(o, entry) == [op |-> o, at |-> "step", view |-> entry, todo |-> <<>>, rollback |-> FALSE]

Begin(c, o, candidate) ==
    /\ ctl[c] = Idle
    /\ journal[o] = NoEntry
    /\ \A p \in Operation : ~Pending(p)
    /\ ~RepairRequired
    /\ candidate # selected
    /\ child
    /\ LET entry == Entry(selected, candidate)
       IN  /\ journal' = [journal EXCEPT ![o] = entry]
           /\ ctl' = [ctl EXCEPT ![c] = Control(o, entry)]
    /\ UNCHANGED <<receipt, selected, launcher, child, daemon, format, unchanged>>

Resume(c, o) ==
    /\ ctl[c] = Idle
    /\ Pending(o)
    /\ ctl' = [ctl EXCEPT ![c] = Control(o, journal[o])]
    /\ UNCHANGED <<journal, receipt, selected, launcher, child, daemon, format, unchanged>>

ForcePending(c, o) ==
    /\ ctl[c] = Idle
    /\ Pending(o)
    /\ journal[o].stage = "draining" /\ ~journal[o].forced
    /\ LET entry == [journal[o] EXCEPT !.forced = TRUE, !.rev = @ + 1]
       IN  /\ journal' = [journal EXCEPT ![o] = entry]
           /\ ctl' = [ctl EXCEPT ![c] = Control(o, entry)]
    /\ UNCHANGED <<receipt, selected, launcher, child, daemon, format, unchanged>>

\* Interrupted, refused or out of time, but for the steps below that answer an error.
ClientEnds(c) ==
    /\ ctl[c] # Idle
    /\ ctl' = [ctl EXCEPT ![c] = Idle]
    /\ UNCHANGED <<journal, receipt, selected, launcher, child, daemon, format, unchanged>>

(***************************************************************************)
(* A controller writes the entry its last step led to.  When the revision  *)
(* has moved it goes on with what it finds, if that is the stage it wanted *)
(* to write, and ends otherwise; a failed rollback is left for repair.     *)
(***************************************************************************)
Do(c, at, entries) == ctl' = [ctl EXCEPT ![c].at = at, ![c].todo = entries]
To(entry, stage) == [entry EXCEPT !.stage = stage]
Ended(entry, outcome) == [entry EXCEPT !.stage = outcome, !.outcome = outcome]
ToRepair(entry) == Ended(entry, "repair-required")

At(c, stage) ==
    /\ ctl[c].at = "step" /\ ctl[c].todo = <<>>
    /\ View(c).stage = stage

WriteEntry(c) ==
    /\ ctl[c] # Idle /\ ctl[c].todo # <<>>
    /\ LET now == journal[Op(c)]
           wanted == [Head(ctl[c].todo) EXCEPT !.rev = View(c).rev + 1]
           next == IF now.rev = View(c).rev THEN wanted ELSE now
           agrees == next.stage = wanted.stage
           repairs == now.outcome = None
                      /\ (ctl[c].rollback \/ wanted.outcome = "repair-required")
       IN  /\ journal' = [journal EXCEPT ![Op(c)] =
                 IF agrees THEN next
                 ELSE IF repairs THEN [ToRepair(now) EXCEPT !.rev = @ + 1] ELSE now]
           /\ ctl' = [ctl EXCEPT ![c] =
                 IF agrees /\ next.outcome = None
                 THEN [ctl[c] EXCEPT !.view = next, !.todo = Tail(ctl[c].todo)] ELSE Idle]
    /\ UNCHANGED <<receipt, selected, launcher, child, daemon, format, unchanged>>

(***************************************************************************)
(* The receipts.  One operation is active at a time, and a new one needs   *)
(* the check that accepted its candidate: the data format is one that it   *)
(* reads or declares a migration from.                                     *)
(***************************************************************************)
MayPrepare(o) == receipt[o] # NoReceipt \/ \A p \in Operation : ~IsActive(p)

Compatible(candidate) ==
    \/ format \in Reads[candidate]
    \/ \E migration \in Declares[candidate] :
          migration.from = format /\ migration.to \in Reads[candidate]

Advance(o, r) == receipt' = [receipt EXCEPT ![o] = r]

\* The hold is stored with the stage.
Held(r) == [r EXCEPT !.stage = "mutations-held", !.mutationsHeld = TRUE]

(***************************************************************************)
(* Calls of the controller up to the stop of the source Daemon.  A handler *)
(* that waits (for mutations under way, for runners, for a restore) goes   *)
(* on when its caller is gone; one such call at a time.                    *)
(***************************************************************************)
Free == child /\ daemon.call = NoCall

Calls(c, at, d) ==
    /\ daemon' = [d EXCEPT !.call = [op |-> Op(c), at |-> at]]
    /\ Do(c, "call", <<>>)

Waits(c) == ctl[c].at = "call" /\ Op(c) = daemon.call.op

\* The handler ends and answers the controller that waits for it, if one does.
Answers(at, entries(_)) ==
    ctl' = [c \in Client |->
               IF Waits(c) THEN [ctl[c] EXCEPT !.at = at, !.todo = entries(View(c))] ELSE ctl[c]]

Returned(d) == [d EXCEPT !.call = NoCall]

\* inspectPreflight
Preflight(c) ==
    /\ At(c, "prepared")
    /\ child
    /\ selected = View(c).source /\ Compatible(View(c).candidate)
    /\ MayPrepare(Op(c))
    /\ Advance(Op(c), IF receipt[Op(c)] = NoReceipt THEN Receipt(View(c)) ELSE receipt[Op(c)])
    /\ Do(c, "preflighted", <<>>)
    /\ UNCHANGED <<journal, selected, launcher, child, daemon, format, unchanged>>

BeginDrain(c) ==
    /\ ctl[c].at = "preflighted"
    /\ child
    /\ receipt[Op(c)] # NoReceipt
    /\ LET r == receipt[Op(c)]
       IN  Advance(Op(c), IF r.stage # "prepared" THEN r
                          ELSE [r EXCEPT !.stage = "draining", !.dispatchHeld = TRUE])
    /\ daemon' = [daemon EXCEPT !.held = TRUE]
    /\ Do(c, "step", <<[To(View(c), "draining") EXCEPT !.owner = daemon.instance]>>)
    /\ UNCHANGED <<journal, selected, launcher, child, format, unchanged>>

\* readDrain, once no Run executes
ReadDrain(c) ==
    /\ At(c, "draining") /\ ~View(c).forced
    /\ child /\ receipt[Op(c)].dispatchHeld
    /\ ~daemon.executing
    /\ Do(c, "step", <<To(View(c), "drained")>>)
    /\ UNCHANGED <<journal, receipt, selected, launcher, child, daemon, format, unchanged>>

ForceDrain(c) ==
    /\ At(c, "draining") /\ View(c).forced
    /\ Free
    /\ receipt[Op(c)].dispatchHeld /\ receipt[Op(c)].stage = "draining"
    /\ Calls(c, "force", [daemon EXCEPT !.stopping = TRUE])
    /\ UNCHANGED <<journal, receipt, selected, launcher, child, format, unchanged>>

DrainForced ==
    /\ daemon.call.at = "force"
    /\ daemon' = Returned([daemon EXCEPT !.executing = FALSE, !.stopping = FALSE])
    /\ Answers("step", LAMBDA view : <<To(view, "drained")>>)
    /\ unchanged' = (unchanged /\ ~daemon.executing)
    /\ UNCHANGED <<journal, receipt, selected, launcher, child, format>>

HoldMutations(c) ==
    /\ At(c, "drained")
    /\ Free
    /\ receipt[Op(c)].dispatchHeld
    /\ daemon.holder \in {None, Op(c)}
    /\ Calls(c, "hold", [daemon EXCEPT !.holder = Op(c)])
    /\ UNCHANGED <<journal, receipt, selected, launcher, child, format, unchanged>>

MutationsHeld ==
    /\ daemon.call.at = "hold"
    /\ ~daemon.mutating
    /\ LET o == daemon.call.op
       IN  Advance(o, IF receipt[o].stage = "draining" THEN Held(receipt[o]) ELSE receipt[o])
    /\ daemon' = Returned(daemon)
    /\ Answers("step", LAMBDA view : <<To(view, "mutations-held")>>)
    /\ UNCHANGED <<journal, selected, launcher, child, format, unchanged>>

\* repeatFinalPreflight: the same check on the data as they are now.
RepeatPreflight(c) ==
    /\ At(c, "mutations-held")
    /\ child
    /\ LET r == receipt[Op(c)]
           accepted == <<To(View(c), "final-preflight-accepted")>>
       IN  \/ /\ r.stage = "final-preflight-accepted"
              /\ Do(c, "step", accepted)
              /\ UNCHANGED <<receipt, unchanged>>
           \/ /\ r.stage \in {"final-preflight-refused", "upgrade-refused"}
              /\ Do(c, "refused", <<>>)
              /\ UNCHANGED <<receipt, unchanged>>
           \/ /\ r.stage = "mutations-held" /\ r.mutationsHeld
              /\ Compatible(r.candidate)
              /\ Advance(Op(c), [r EXCEPT !.stage = "final-preflight-accepted"])
              /\ unchanged' = TRUE
              /\ Do(c, "step", accepted)
           \/ /\ r.stage = "mutations-held" /\ r.mutationsHeld
              /\ Advance(Op(c), [r EXCEPT !.stage = "final-preflight-refused"])
              /\ Do(c, "refused", <<>>)
              /\ UNCHANGED unchanged
    /\ UNCHANGED <<journal, selected, launcher, child, daemon, format>>

Released(d) == [d EXCEPT !.held = FALSE, !.holder = None]

HoldsOff(r, stage) == [r EXCEPT !.stage = stage, !.dispatchHeld = FALSE, !.mutationsHeld = FALSE]

ReleaseUpgradeHolds(c) ==
    /\ ctl[c].at = "refused"
    /\ Free
    /\ IF receipt[Op(c)].stage = "upgrade-refused"
       THEN /\ Do(c, "step", <<Ended(View(c), "upgrade-refused")>>)
            /\ UNCHANGED daemon
       ELSE Calls(c, "refuse", Released(daemon))
    /\ UNCHANGED <<journal, receipt, selected, launcher, child, format, unchanged>>

UpgradeRefused ==
    /\ daemon.call.at = "refuse"
    /\ Advance(daemon.call.op, HoldsOff(receipt[daemon.call.op], "upgrade-refused"))
    /\ daemon' = Returned(daemon)
    /\ Answers("step", LAMBDA view : <<Ended(view, "upgrade-refused")>>)
    /\ UNCHANGED <<journal, selected, launcher, child, format, unchanged>>

PrepareHandoff(c) ==
    /\ At(c, "final-preflight-accepted")
    /\ child
    /\ LET r == receipt[Op(c)]
       IN  /\ r.handoff \/ r.stage = "final-preflight-accepted"
           /\ Advance(Op(c), IF r.handoff THEN r
                             ELSE [r EXCEPT !.stage = "handoff-prepared", !.handoff = TRUE])
           /\ Do(c, "step", <<To(View(c), "handoff-prepared")>>)
    /\ UNCHANGED <<journal, selected, launcher, child, daemon, format, unchanged>>

\* Entries that the controller writes without a call.
ContinueHandoff(c) ==
    /\ \/ At(c, "handoff-prepared") /\ Do(c, "step", <<To(View(c), "controller-ready")>>)
       \/ At(c, "backup-verified") /\ Do(c, "step", <<To(View(c), "cleanup-started")>>)
       \/ /\ At(c, "activation-authorized")
          /\ Do(c, "step", <<Ended(View(c), "activated")>>)
    /\ UNCHANGED <<journal, receipt, selected, launcher, child, daemon, format, unchanged>>

ConfirmControllerReady(c) ==
    /\ At(c, "controller-ready")
    /\ child
    /\ LET r == receipt[Op(c)]
       IN  /\ r.handoff /\ r.stage \in {"handoff-prepared", "controller-accepted"}
           /\ Advance(Op(c), [r EXCEPT !.stage = "controller-accepted"])
    /\ Do(c, "step", <<To(View(c), "controller-accepted")>>)
    /\ UNCHANGED <<journal, selected, launcher, child, daemon, format, unchanged>>

CreateVerifiedBackup(c) ==
    /\ At(c, "controller-accepted")
    /\ child
    /\ LET r == receipt[Op(c)]
       IN  /\ r.backup \/ r.stage = "controller-accepted"
           /\ Advance(Op(c), IF r.backup THEN r
                             ELSE [r EXCEPT !.stage = "backup-verified", !.backup = TRUE])
    /\ Do(c, "step", <<To(View(c), "backup-verified")>>)
    /\ UNCHANGED <<journal, selected, launcher, child, daemon, format, unchanged>>

StopOwnedProcesses(c) ==
    /\ At(c, "cleanup-started")
    /\ Free
    /\ \/ /\ receipt[Op(c)].stage = "source-execution-stopped"
          /\ Do(c, "step", <<To(View(c), "owned-processes-stopped")>>)
          /\ UNCHANGED daemon
       \/ /\ receipt[Op(c)].stage = "backup-verified"
          /\ daemon.executing => View(c).forced
          /\ Calls(c, "stop", [daemon EXCEPT !.stopping = TRUE])
    /\ UNCHANGED <<journal, receipt, selected, launcher, child, format, unchanged>>

ExecutionStopped ==
    /\ daemon.call.at = "stop"
    /\ LET o == daemon.call.op
       IN  Advance(o, [receipt[o] EXCEPT !.stage = "source-execution-stopped"])
    /\ daemon' = Returned([daemon EXCEPT !.executing = FALSE])
    /\ Answers("step", LAMBDA view :
                  <<[To(view, "owned-processes-stopped") EXCEPT !.owner = daemon.instance]>>)
    /\ unchanged' = (unchanged /\ ~daemon.executing)
    /\ UNCHANGED <<journal, selected, launcher, child, format>>

\* The stop of a runner is not confirmed: the call fails and so does its caller.
RunnersRemain ==
    /\ daemon.call.at \in {"force", "stop"}
    /\ daemon' = Returned(daemon)
    /\ ctl' = [c \in Client |-> IF Waits(c) THEN Idle ELSE ctl[c]]
    /\ UNCHANGED <<journal, receipt, selected, launcher, child, format, unchanged>>

(***************************************************************************)
(* The switch.  The service manager stops the launcher and the Daemon, the *)
(* candidate is selected and the service started; a service that runs      *)
(* already is left as it is.                                               *)
(***************************************************************************)
ServiceStops ==
    /\ launcher' = None
    /\ child' = FALSE
    /\ daemon' = Down(daemon.instance)

StopNative(c) ==
    /\ At(c, "owned-processes-stopped")
    /\ \/ /\ ServiceStops
          /\ Do(c, "step", <<To(View(c), "process-stopped")>>)
       \/ /\ Do(c, "step", <<ToRepair(View(c))>>)      \* not confirmed in time
          /\ UNCHANGED <<launcher, child, daemon>>
    /\ UNCHANGED <<journal, receipt, selected, format, unchanged>>

Select(expected, next) ==
    /\ selected \in {expected, next}
    /\ selected' = next

SelectCandidate(c) ==
    /\ At(c, "process-stopped")
    /\ Select(View(c).source, View(c).candidate)
    /\ Do(c, "step", <<To(View(c), "candidate-selected")>>)
    /\ UNCHANGED <<journal, receipt, launcher, child, daemon, format, unchanged>>

\* The launcher of the active release is executed, and keeps to that release.
Started == IF launcher = None THEN selected ELSE launcher

StartSelected(c) ==
    /\ At(c, "candidate-selected") \/ At(c, "rollback-selected")
    /\ launcher' = Started
    /\ Do(c, "waiting", <<>>)
    /\ UNCHANGED <<journal, receipt, selected, child, daemon, format, unchanged>>

(***************************************************************************)
(* Readiness.  The Daemon that answers must be restricted, without a       *)
(* runner, and the expected release active; a candidate must be another    *)
(* instance than the source.  It first migrates the data, in the           *)
(* transaction that also records the migration in the receipt.             *)
(***************************************************************************)
RollingBack(c) == View(c).stage = "rollback-selected"

Expected(c) == IF RollingBack(c) THEN View(c).source ELSE View(c).candidate

Ready(c) == IF RollingBack(c) THEN "rollback-ready" ELSE "candidate-ready"

Recorded(c) ==
    /\ receipt[Op(c)].stage = Ready(c)
    /\ receipt[Op(c)].readiness = daemon.instance

MayBeReady(c) ==
    /\ ctl[c].at = "waiting"
    /\ child /\ daemon.restricted
    /\ selected = Expected(c)
    /\ Recorded(c) \/ RollingBack(c) \/ daemon.instance # View(c).owner
    /\ Recorded(c) \/ ~daemon.executing
    /\ receipt[Op(c)].backup

Migrate(c) ==
    /\ MayBeReady(c) /\ ~Recorded(c)
    /\ LET r == receipt[Op(c)]
       IN  /\ format \notin Reads[r.candidate]
           /\ launcher \in Implements
           /\ ~r.migrated /\ r.stage = "source-execution-stopped"
           /\ \E migration \in Declares[r.candidate] :
                 /\ migration.from = format /\ migration.to \in Reads[r.candidate]
                 /\ format' = migration.to
           /\ Advance(Op(c), [r EXCEPT !.migrated = TRUE])
    /\ UNCHANGED <<journal, selected, launcher, child, daemon, ctl, unchanged>>

ReadReadiness(c) ==
    /\ MayBeReady(c)
    /\ Recorded(c) \/ format \in Reads[receipt[Op(c)].candidate]
    /\ Recorded(c) \/ receipt[Op(c)].stage \in
          {"source-execution-stopped", "candidate-ready"} \cup {Ready(c)}
    /\ Advance(Op(c), [receipt[Op(c)] EXCEPT !.stage = Ready(c), !.readiness = daemon.instance,
                                             !.by = IF Recorded(c) THEN @ ELSE launcher])
    /\ Do(c, "step", <<[To(View(c), Ready(c)) EXCEPT !.readiness = daemon.instance]>>)
    /\ UNCHANGED <<journal, selected, launcher, child, daemon, format, unchanged>>

\* No readiness in time.  A candidate that fails is rolled back, a rollback is not repeated.
GiveUp(c) ==
    /\ ctl[c].at = "waiting"
    /\ IF RollingBack(c) \/ View(c).rollbackAttempted
       THEN Do(c, "step", <<ToRepair(View(c))>>)
       ELSE Do(c, "failed", <<>>)
    /\ UNCHANGED <<journal, receipt, selected, launcher, child, daemon, format, unchanged>>

\* A faulty variant: the data format is not looked at.
FaultyRollbackSafe(c) == child /\ ~daemon.executing

RollbackSafe(c) ==
    /\ child
    /\ format \in Reads[View(c).source]
    /\ ~daemon.executing

InspectRollbackSafety(c) ==
    /\ ctl[c].at = "failed"
    /\ IF RollbackSafe(c) THEN Do(c, "rollback", <<>>)
       ELSE Do(c, "step", <<ToRepair(View(c))>>)
    /\ UNCHANGED <<journal, receipt, selected, launcher, child, daemon, format, unchanged>>

RollbackStops(c) ==
    /\ ctl[c].at = "rollback" /\ ctl[c].todo = <<>>
    /\ \/ /\ ServiceStops
          /\ Do(c, "stopped", <<>>)
       \/ /\ Do(c, "step", <<ToRepair(View(c))>>)
          /\ UNCHANGED <<launcher, child, daemon>>
    /\ UNCHANGED <<journal, receipt, selected, format, unchanged>>

RollbackSelects(c) ==
    /\ ctl[c].at = "stopped"
    /\ Select(View(c).candidate, View(c).source)
    /\ ctl' = [ctl EXCEPT ![c].at = "step", ![c].rollback = TRUE,
                  ![c].todo = <<[To(View(c), "rollback-selected")
                                    EXCEPT !.rollbackAttempted = TRUE]>>]
    /\ UNCHANGED <<journal, receipt, launcher, child, daemon, format, unchanged>>

(***************************************************************************)
(* authorizeActivation and authorizeRollback: the receipt is at its end    *)
(* first; then the Daemon restores its Runs and releases what it holds,    *)
(* and then the receipt's holds are gone too.                              *)
(***************************************************************************)
Finish(c) ==
    /\ At(c, "candidate-ready") \/ At(c, "rollback-ready")
    /\ Free
    /\ receipt[Op(c)].readiness = View(c).readiness
    /\ LET r == receipt[Op(c)]
           end == IF View(c).stage = "candidate-ready" THEN "activation-authorized"
                  ELSE "rolled-back"
       IN  Advance(Op(c), IF r.stage = View(c).stage THEN [r EXCEPT !.stage = end] ELSE r)
    /\ Calls(c, "activate", daemon)
    /\ UNCHANGED <<journal, selected, launcher, child, format, unchanged>>

Activate ==
    /\ daemon.call.at = "activate"
    /\ daemon' = [Released(daemon) EXCEPT !.call.at = "settle"]
    /\ UNCHANGED <<journal, receipt, selected, launcher, child, format, ctl, unchanged>>

\* A faulty variant: the holds of the receipt are left to the next start.
FaultySettle ==
    /\ daemon.call.at = "settle"
    /\ daemon' = Returned(daemon)
    /\ Answers("step", LAMBDA view :
                  IF view.stage = "rollback-ready" THEN <<Ended(view, "rolled-back")>>
                  ELSE <<To(view, "activation-authorized")>>)
    /\ UNCHANGED <<journal, receipt, selected, launcher, child, format, unchanged>>

Settle ==
    /\ daemon.call.at = "settle"
    /\ LET o == daemon.call.op
       IN  Advance(o, HoldsOff(receipt[o], receipt[o].stage))
    /\ daemon' = Returned(daemon)
    /\ Answers("step", LAMBDA view :
                  IF view.stage = "rollback-ready" THEN <<Ended(view, "rolled-back")>>
                  ELSE <<To(view, "activation-authorized")>>)
    /\ UNCHANGED <<journal, selected, launcher, child, format, unchanged>>

ControllerStep(c) ==
    \/ ClientEnds(c) \/ WriteEntry(c) \/ Preflight(c) \/ BeginDrain(c) \/ ReadDrain(c)
    \/ ForceDrain(c) \/ HoldMutations(c) \/ RepeatPreflight(c) \/ ReleaseUpgradeHolds(c)
    \/ PrepareHandoff(c) \/ ContinueHandoff(c) \/ ConfirmControllerReady(c)
    \/ CreateVerifiedBackup(c) \/ StopOwnedProcesses(c) \/ StopNative(c) \/ SelectCandidate(c)
    \/ StartSelected(c) \/ Migrate(c) \/ ReadReadiness(c) \/ GiveUp(c)
    \/ InspectRollbackSafety(c) \/ RollbackStops(c) \/ RollbackSelects(c) \/ Finish(c)

CallReturns ==
    DrainForced \/ MutationsHeld \/ UpgradeRefused \/ ExecutionStopped \/ RunnersRemain
    \/ Activate \/ Settle

(***************************************************************************)
(* The Daemon process.  It takes up the holds of the receipts; restricted, *)
(* it restores no Run.  It serves mutations and dispatches Runs.           *)
(***************************************************************************)
Retained(o) == IsActive(o) /\ receipt[o].mutationsHeld

\* A faulty variant: the hold of mutations is not taken up.
FaultyHolders == {None}

Holders == IF \E o \in Operation : Retained(o) THEN {o \in Operation : Retained(o)} ELSE {None}

RestrictedStart ==
    \E o \in Operation : receipt[o].dispatchHeld /\ receipt[o].stage \in RestrictedStages

StartDaemon ==
    /\ launcher # None /\ ~child
    /\ daemon.instance < MaxInstance
    /\ child' = TRUE
    /\ \E holder \in Holders :
          daemon' = [Down(daemon.instance + 1) EXCEPT
                        !.holder = holder, !.restricted = RestrictedStart,
                        !.held = \E o \in Operation :
                                    receipt[o].dispatchHeld \/ receipt[o].mutationsHeld]
    /\ unchanged' = (unchanged /\ RestrictedStart)
    /\ UNCHANGED <<journal, receipt, selected, launcher, format, ctl>>

MutationBegins ==
    /\ child /\ daemon.holder = None /\ ~daemon.mutating
    /\ daemon' = [daemon EXCEPT !.mutating = TRUE]
    /\ UNCHANGED <<journal, receipt, selected, launcher, child, format, ctl, unchanged>>

MutationEnds ==
    /\ daemon.mutating
    /\ daemon' = [daemon EXCEPT !.mutating = FALSE]
    /\ unchanged' = FALSE
    /\ UNCHANGED <<journal, receipt, selected, launcher, child, format, ctl>>

Dispatch ==
    /\ child /\ ~daemon.held /\ ~daemon.stopping /\ ~daemon.executing
    /\ daemon' = [daemon EXCEPT !.executing = TRUE]
    /\ unchanged' = FALSE
    /\ UNCHANGED <<journal, receipt, selected, launcher, child, format, ctl>>

RunsSettle ==
    /\ daemon.executing
    /\ daemon' = [daemon EXCEPT !.executing = FALSE]
    /\ unchanged' = FALSE
    /\ UNCHANGED <<journal, receipt, selected, launcher, child, format, ctl>>

\* A controller whose call is lost ends; within a rollback it leaves the rest to repair.
CallLost(c) ==
    IF ctl[c].at # "call" THEN ctl[c]
    ELSE IF ctl[c].rollback THEN [ctl[c] EXCEPT !.at = "step", !.todo = <<ToRepair(View(c))>>]
    ELSE Idle

DaemonDies ==
    /\ child
    /\ child' = FALSE
    /\ daemon' = Down(daemon.instance)
    /\ ctl' = [c \in Client |-> CallLost(c)]
    /\ UNCHANGED <<journal, receipt, selected, launcher, format, unchanged>>

\* The service is stopped, or is about to be, and the next release is not selected yet.
Switching ==
    \/ \E o \in Operation :
          Pending(o) /\ journal[o].stage \in {"owned-processes-stopped", "process-stopped"}
    \/ \E c \in Client : ctl[c].at = "stopped"

MayStart == Switching => StartsMeanwhile

HostRestarts ==
    /\ launcher' = IF MayStart THEN selected ELSE None
    /\ child' = FALSE
    /\ daemon' = Down(daemon.instance)
    /\ ctl' = [c \in Client |-> Idle]
    /\ UNCHANGED <<journal, receipt, selected, format, unchanged>>

\* daemon start
UserStarts ==
    /\ launcher = None /\ MayStart
    /\ launcher' = Started
    /\ UNCHANGED <<journal, receipt, selected, child, daemon, format, ctl, unchanged>>

Next ==
    \/ \E c \in Client :
          \/ \E o \in Operation : \/ \E candidate \in Release : Begin(c, o, candidate)
                                  \/ Resume(c, o) \/ ForcePending(c, o)
          \/ ControllerStep(c)
    \/ CallReturns
    \/ StartDaemon \/ MutationBegins \/ MutationEnds \/ Dispatch \/ RunsSettle
    \/ DaemonDies \/ HostRestarts \/ UserStarts

Spec == Init /\ [][Next]_vars
-----------------------------------------------------------------------------
Begun(o) == journal[o] # NoEntry

\* Stages between the accepted final check and the end of the operation.
CheckedStages ==
    {"final-preflight-accepted", "handoff-prepared", "controller-accepted", "backup-verified",
     "source-execution-stopped", "candidate-ready", "rollback-ready"}

(***************************************************************************)
(* What the final check accepted is what the candidate takes over: from    *)
(* then on, through the stop of the source and every crash of a Daemon of  *)
(* either release, no mutation is served and no Run executes before the    *)
(* activation or the rollback is authorized.                               *)
(***************************************************************************)
AcceptedStateIsKept ==
    \A o \in Operation : receipt[o].stage \in CheckedStages => unchanged

(***************************************************************************)
(* No Daemon serves a mutation or executes a Run on data that its release  *)
(* cannot read, whichever way the migration and the switch of releases     *)
(* were interrupted, resumed and rolled back.                              *)
(***************************************************************************)
DataAreReadable ==
    child /\ (daemon.executing \/ daemon.mutating) => format \in Reads[launcher]

(***************************************************************************)
(* An operation that has its outcome has released the Daemon: the receipt  *)
(* is at the same end and holds nothing, or the next Daemon would start    *)
(* restricted with nobody left to authorize it.                            *)
(***************************************************************************)
OutcomesReleaseTheDaemon ==
    \A o \in Operation :
        Begun(o) /\ journal[o].outcome \in {"activated", "rolled-back", "upgrade-refused"} =>
            ~IsActive(o)
=============================================================================
