-------------------------- MODULE DaemonLifecycle --------------------------
(***************************************************************************)
(* Lifecycle operations of the Daemon: stop, restart, remove, enable and   *)
(* disable.  An operation has two durable owners.  The controller, a       *)
(* client command that may be interrupted, resumed or run twice, keeps the *)
(* lifecycle journal (files under a lock, a revision each) and drives the  *)
(* service manager.  The Daemon keeps a receipt of the operation in its    *)
(* database and holds its dispatch for it.  They meet in calls over a      *)
(* socket; a call's effect and the journal entry that records its answer   *)
(* are two steps.  Launcher and service manager are DaemonSupervision.     *)
(***************************************************************************)
EXTENDS DaemonSupervision, FiniteSets, Sequences

CONSTANTS
    Operation,          \* identities of lifecycle operations
    Client,             \* commands that drive them
    Kinds,              \* operations that clients ask for
    MaxInstance         \* bound on the Daemon instances

VARIABLES
    journal,            \* the entry of each operation
    receipt,            \* the Daemon's receipt of each operation
    daemon,             \* volatile state of the Daemon process
    cleanup,            \* calls of stopOwnedProcesses under way in the Daemon, per client
    ctl,                \* the controllers: operation, entry as last seen, entries to write
    gate,               \* who has the start gate besides a Daemon
    installed           \* what remains: service registration and managed content

vars == <<journal, receipt, daemon, cleanup, ctl, gate, installed, supervisionVars>>

ReceiptStages ==
    <<"prepared", "draining", "handoff-prepared", "controller-accepted", "cleanup-started",
      "process-stopped", "replacement-ready">>

Rank(stage) == CHOOSE n \in DOMAIN ReceiptStages : ReceiptStages[n] = stage

None == "none"

ASSUME ClientAssumption == None \notin Client
ASSUME OperationAssumption == None \notin Operation

NoEntry == [stage |-> None, outcome |-> None]
NoReceipt == [stage |-> None, held |-> FALSE]
NoCall == [op |-> None]
Idle == [op |-> None, at |-> None]

Entry(kind) ==
    [kind |-> kind, stage |-> "prepared", rev |-> 1, forced |-> FALSE, busy |-> FALSE,
     owner |-> 0, evidence |-> FALSE, outcome |-> None]

Receipt == [stage |-> "prepared", held |-> FALSE, owner |-> daemon.instance,
            handoff |-> FALSE, forced |-> FALSE]

Down(instance) == [instance |-> instance, ready |-> FALSE, held |-> FALSE, stopping |-> FALSE,
                   executing |-> FALSE]

Init ==
    /\ SupervisionInit
    /\ journal = [o \in Operation |-> NoEntry]
    /\ receipt = [o \in Operation |-> NoReceipt]
    /\ daemon = Down(0)
    /\ cleanup = [c \in Client |-> NoCall]
    /\ ctl = [c \in Client |-> Idle]
    /\ gate = None
    /\ installed = [service |-> TRUE, content |-> TRUE]

Pending(o) == journal[o] # NoEntry /\ journal[o].outcome = None
RepairRequired == \E o \in Operation : journal[o].outcome = "repair-required"
View(c) == ctl[c].view
Op(c) == ctl[c].op

(***************************************************************************)
(* The receipts.  A new one is refused while another holds dispatch or has *)
(* not reached the end of its Daemon's part.  An advance names the         *)
(* revision it read; one that comes late is answered with the receipt if   *)
(* that is as far already, and refused otherwise.                          *)
(***************************************************************************)
MayPrepare(o) ==
    \/ receipt[o] # NoReceipt
    \/ \A p \in Operation :
          receipt[p] # NoReceipt =>
             ~receipt[p].held /\ receipt[p].stage \in {"process-stopped", "replacement-ready"}

Prepared(o) == IF receipt[o] = NoReceipt THEN Receipt ELSE receipt[o]

Advanced(r, stage, owner) == [r EXCEPT !.stage = stage, !.owner = owner]

\* The hold is stored with the stage.
\* A faulty variant: it is kept in memory only.
FaultyDraining(r) == Advanced(r, "draining", daemon.instance)

Draining(r) == [Advanced(r, "draining", daemon.instance) EXCEPT !.held = TRUE]

Replaced(r) == [Advanced(r, "replacement-ready", daemon.instance) EXCEPT !.held = FALSE]

\* An advance of a receipt that moved since its revision was read.
AnsweredLate(r, stage, forced) == Rank(r.stage) >= Rank(stage) /\ (forced => r.forced)

ActiveDrainHeld == \E o \in Operation : receipt[o].held

(***************************************************************************)
(* Clients begin an operation, take up the pending one or force its drain. *)
(***************************************************************************)
Control(o, entry) == [op |-> o, at |-> "step", view |-> entry, todo |-> <<>>]

\* A command looks for the endpoint file, which a Daemon that crashed leaves behind.
MayAsk(kind) ==
    \/ daemon.instance > 0
    \/ kind \in {"stop", "disable-now"} /\ native = "stopped"
    \/ kind \in {"remove", "enable", "disable"}

Begin(c, o, kind) ==
    /\ ctl[c] = Idle
    /\ journal[o] = NoEntry
    /\ \A p \in Operation : ~Pending(p)
    /\ ~RepairRequired
    /\ installed.content
    /\ MayAsk(kind)
    /\ journal' = [journal EXCEPT ![o] = Entry(kind)]
    /\ ctl' = [ctl EXCEPT ![c] = Control(o, Entry(kind))]
    /\ UNCHANGED <<receipt, daemon, cleanup, gate, installed, supervisionVars>>

Resume(c, o) ==
    /\ ctl[c] = Idle
    /\ Pending(o)
    /\ ctl' = [ctl EXCEPT ![c] = Control(o, journal[o])]
    /\ UNCHANGED <<journal, receipt, daemon, cleanup, gate, installed, supervisionVars>>

ForceDrain(c, o) ==
    /\ ctl[c] = Idle
    /\ Pending(o)
    /\ journal[o].stage = "draining" /\ ~journal[o].forced
    /\ LET entry == [journal[o] EXCEPT !.forced = TRUE, !.rev = @ + 1]
       IN  /\ journal' = [journal EXCEPT ![o] = entry]
           /\ ctl' = [ctl EXCEPT ![c] = Control(o, entry)]
    /\ UNCHANGED <<receipt, daemon, cleanup, gate, installed, supervisionVars>>

\* Interrupted, out of time or refused: the command ends, the operation stays as it is.
ClientEnds(c) ==
    /\ ctl[c] # Idle
    /\ ctl' = [ctl EXCEPT ![c] = Idle]
    /\ gate' = IF gate = c THEN None ELSE gate
    /\ UNCHANGED <<journal, receipt, daemon, cleanup, installed, supervisionVars>>

(***************************************************************************)
(* A controller writes the entries its last step led to.  A revision that  *)
(* moved since it looked ends it.                                          *)
(***************************************************************************)
Do(c, at, entries) == ctl' = [ctl EXCEPT ![c].at = at, ![c].todo = entries]

At(c, stages) ==
    /\ ctl[c].at = "step" /\ ctl[c].todo = <<>>
    /\ View(c).stage \in stages

Completed(entry) == [entry EXCEPT !.stage = "completed", !.outcome = "succeeded"]
ToRepair(entry) == [entry EXCEPT !.stage = "repair-required", !.outcome = "repair-required"]
To(entry, stage) == [entry EXCEPT !.stage = stage]

WriteEntry(c) ==
    /\ ctl[c] # Idle /\ ctl[c].todo # <<>>
    /\ LET entry == [Head(ctl[c].todo) EXCEPT !.rev = View(c).rev + 1]
           o == Op(c)
       IN  IF journal[o].rev = View(c).rev
           THEN /\ journal' = [journal EXCEPT ![o] = entry]
                /\ IF entry.outcome = None
                   THEN /\ ctl' = [ctl EXCEPT ![c].view = entry, ![c].todo = Tail(@)]
                        /\ UNCHANGED gate
                   ELSE /\ ctl' = [ctl EXCEPT ![c] = Idle]
                        /\ gate' = IF gate = c THEN None ELSE gate
           ELSE /\ ctl' = [ctl EXCEPT ![c] = Idle]
                /\ gate' = IF gate = c THEN None ELSE gate
                /\ UNCHANGED journal
    /\ UNCHANGED <<receipt, daemon, cleanup, installed, supervisionVars>>

(***************************************************************************)
(* prepared: enable and disable finish at once; so does a stop whose       *)
(* service is already stopped, and a removal goes on from there.           *)
(***************************************************************************)
NativeStopConfirmed == native = "stopped" /\ ~child

SwitchAutomaticStart(c) ==
    /\ At(c, {"prepared"})
    /\ View(c).kind \in {"enable", "disable"}
    /\ enabled' = (View(c).kind = "enable")
    /\ Do(c, "step", <<Completed(View(c))>>)
    /\ UNCHANGED <<journal, receipt, daemon, cleanup, gate, installed, supervision, native, child,
                   configured, streak>>

SettleStopped(c) ==
    /\ At(c, {"prepared"})
    /\ \/ /\ View(c).kind \in {"stop", "disable-now"}
          /\ NativeStopConfirmed
          /\ Do(c, "step", <<Completed(View(c))>>)
       \/ /\ View(c).kind = "remove"
          /\ native = "stopped"
          /\ Do(c, "step", <<[To(View(c), "process-stopped") EXCEPT !.evidence = TRUE]>>)
    /\ enabled' = (enabled /\ View(c).kind # "disable-now")
    /\ UNCHANGED <<journal, receipt, daemon, cleanup, gate, installed, supervision, native, child,
                   configured, streak>>

\* inspectPreflight
Preflight(c) ==
    /\ At(c, {"prepared"})
    /\ View(c).kind \in {"stop", "disable-now", "restart", "remove"}
    /\ child /\ MayPrepare(Op(c))
    /\ receipt' = [receipt EXCEPT ![Op(c)] = Prepared(Op(c))]
    /\ enabled' = (enabled /\ View(c).kind # "disable-now")
    /\ Do(c, "preflighted", <<>>)
    /\ UNCHANGED <<journal, daemon, cleanup, gate, installed, supervision, native, child,
                   configured, streak>>

\* beginDrain: the hold is in the receipt before it is in the coordinator.
BeginDrain(c) ==
    /\ ctl[c].at = "preflighted"
    /\ child /\ MayPrepare(Op(c))
    /\ LET r == Prepared(Op(c))
       IN  receipt' = [receipt EXCEPT ![Op(c)] =
              IF r.stage # "prepared" THEN r ELSE Draining(r)]
    /\ daemon' = [daemon EXCEPT !.held = TRUE]
    /\ Do(c, "step", <<[To(View(c), "draining") EXCEPT !.busy = daemon.executing,
                                                       !.owner = daemon.instance]>>)
    /\ UNCHANGED <<journal, cleanup, gate, installed, supervisionVars>>

(***************************************************************************)
(* draining: the controller reads the executing Runs until none is left,   *)
(* unless the drain is forced.                                             *)
(***************************************************************************)
ReadDrain(c) ==
    /\ At(c, {"draining"}) /\ ~View(c).forced
    /\ child /\ receipt[Op(c)].held
    /\ LET seen == [View(c) EXCEPT !.busy = daemon.executing]
       IN  /\ seen # View(c) \/ ~daemon.executing
           /\ Do(c, "step", (IF seen = View(c) THEN <<>> ELSE <<seen>>)
                            \o (IF daemon.executing THEN <<>> ELSE <<To(seen, "drained")>>))
    /\ UNCHANGED <<journal, receipt, daemon, cleanup, gate, installed, supervisionVars>>

PrepareHandoff(c) ==
    /\ \/ At(c, {"drained"})
       \/ At(c, {"draining"}) /\ View(c).forced
    /\ child /\ receipt[Op(c)].held
    /\ LET r == receipt[Op(c)]
           next == IF r.handoff THEN r
                   ELSE [Advanced(r, "handoff-prepared", daemon.instance)
                            EXCEPT !.handoff = TRUE]
       IN  /\ receipt' = [receipt EXCEPT ![Op(c)] = next]
           /\ Do(c, "step", <<[To(View(c), "handoff-prepared") EXCEPT !.owner = next.owner],
                              [To(View(c), "controller-ready") EXCEPT !.owner = next.owner]>>)
    /\ UNCHANGED <<journal, daemon, cleanup, gate, installed, supervisionVars>>

ResumeHandoff(c) ==
    /\ At(c, {"handoff-prepared"})
    /\ Do(c, "step", <<To(View(c), "controller-ready")>>)
    /\ UNCHANGED <<journal, receipt, daemon, cleanup, gate, installed, supervisionVars>>

ConfirmControllerReady(c) ==
    /\ At(c, {"controller-ready"})
    /\ child
    /\ LET r == receipt[Op(c)]
       IN  /\ r.handoff
           /\ r.stage \in {"handoff-prepared", "controller-accepted"}
           /\ receipt' = [receipt EXCEPT ![Op(c)] =
                 IF r.stage = "controller-accepted" THEN r
                 ELSE Advanced(r, "controller-accepted", daemon.instance)]
    /\ Do(c, "step", <<To(View(c), "controller-accepted"), To(View(c), "cleanup-started")>>)
    /\ UNCHANGED <<journal, daemon, cleanup, gate, installed, supervisionVars>>

ResumeAccepted(c) ==
    /\ At(c, {"controller-accepted"})
    /\ Do(c, "step", <<To(View(c), "cleanup-started")>>)
    /\ UNCHANGED <<journal, receipt, daemon, cleanup, gate, installed, supervisionVars>>

(***************************************************************************)
(* cleanup-started: stopOwnedProcesses takes as long as the runners take   *)
(* to stop; another client's call may run meanwhile.  Any error but a lost *)
(* connection leaves the operation for repair.                             *)
(***************************************************************************)
Replacement(c) == View(c).kind = "restart"

\* The revision that the calls under way for o have read is not the receipt's any more.
ReceiptMoved(o) ==
    [c \in Client |-> IF cleanup[c].op = o THEN [cleanup[c] EXCEPT !.moved = TRUE]
                     ELSE cleanup[c]]

Stopped(c, owner) == [To(View(c), "owned-processes-stopped") EXCEPT !.owner = owner]

CallCleanup(c) ==
    /\ At(c, {"cleanup-started"})
    /\ child
    /\ LET r == receipt[Op(c)]
           refused == <<ToRepair(View(c))>>
       IN  \/ /\ r.stage = "process-stopped"
              /\ Do(c, "step", IF r.held = Replacement(c) /\ r.forced = View(c).forced
                               THEN <<Stopped(c, r.owner)>> ELSE refused)
              /\ UNCHANGED <<receipt, daemon, cleanup>>
           \/ /\ r.stage \notin {"controller-accepted", "cleanup-started", "process-stopped"}
              /\ Do(c, "step", refused)
              /\ UNCHANGED <<receipt, daemon, cleanup>>
           \/ /\ r.stage \in {"controller-accepted", "cleanup-started"}
              /\ daemon.executing /\ ~View(c).forced
              /\ Do(c, "step", refused)
              /\ UNCHANGED <<receipt, daemon, cleanup>>
           \/ /\ r.stage \in {"controller-accepted", "cleanup-started"}
              /\ daemon.executing => View(c).forced
              /\ receipt' = [receipt EXCEPT ![Op(c)] =
                    [Advanced(r, "cleanup-started", daemon.instance)
                        EXCEPT !.forced = @ \/ View(c).forced]]
              /\ cleanup[c] = NoCall
              /\ cleanup' = [ReceiptMoved(Op(c)) EXCEPT ![c] =
                    [op |-> Op(c), moved |-> FALSE, forced |-> View(c).forced,
                     replacement |-> Replacement(c)]]
              /\ daemon' = [daemon EXCEPT !.stopping = TRUE]
              /\ Do(c, "cleanup", <<>>)
    /\ UNCHANGED <<journal, gate, installed, supervisionVars>>

Answer(c, entries) ==
    IF ctl[c].at = "cleanup" THEN Do(c, "step", entries) ELSE UNCHANGED ctl

\* The runners stopped; the receipt may have moved under another client's call.
FinishCleanup(c) ==
    /\ cleanup[c] # NoCall
    /\ LET call == cleanup[c]
           r == receipt[call.op]
       IN  /\ supervision' = Planned(supervision)
           /\ daemon' = [daemon EXCEPT !.executing = FALSE]
           /\ IF call.moved
              THEN /\ Answer(c, IF AnsweredLate(r, "process-stopped", call.forced)
                                THEN <<Stopped(c, daemon.instance)>> ELSE <<ToRepair(View(c))>>)
                   /\ cleanup' = [cleanup EXCEPT ![c] = NoCall]
                   /\ UNCHANGED receipt
              ELSE /\ receipt' = [receipt EXCEPT ![call.op] =
                         [Advanced(r, "process-stopped", daemon.instance)
                             EXCEPT !.held = call.replacement]]
                   /\ cleanup' = [ReceiptMoved(call.op) EXCEPT ![c] = NoCall]
                   /\ Answer(c, <<Stopped(c, daemon.instance)>>)
    /\ UNCHANGED <<journal, gate, installed, native, enabled, child, configured, streak>>

\* A runner's stop cannot be confirmed.
FailCleanup(c) ==
    /\ cleanup[c] # NoCall
    /\ Answer(c, <<ToRepair(View(c))>>)
    /\ cleanup' = [cleanup EXCEPT ![c] = NoCall]
    /\ UNCHANGED <<journal, receipt, daemon, gate, installed, supervisionVars>>

(***************************************************************************)
(* owned-processes-stopped: a removal first has the Daemon seal the        *)
(* evidence that a purge may rely on; then the service manager stops the   *)
(* launcher and the Daemon, or fails to.                                   *)
(***************************************************************************)
NeedsEvidence(entry) == entry.kind = "remove" /\ ~entry.evidence

SealPurgeSafety(c) ==
    /\ At(c, {"owned-processes-stopped"}) /\ NeedsEvidence(View(c))
    /\ child
    /\ Do(c, "step", <<[View(c) EXCEPT !.evidence = TRUE]>>)
    /\ UNCHANGED <<journal, receipt, daemon, cleanup, gate, installed, supervisionVars>>

\* The end of the Daemon process: its calls are lost, its Runs interrupted.
DaemonGone ==
    /\ daemon' = Down(daemon.instance)
    /\ cleanup' = [c \in Client |-> NoCall]

CallsLost == [c \in Client |-> IF ctl[c].at = "cleanup" THEN Idle ELSE ctl[c]]

StopNative(c) ==
    /\ At(c, {"owned-processes-stopped"}) /\ ~NeedsEvidence(View(c))
    /\ StopLauncher
    /\ DaemonGone
    /\ ctl' = [CallsLost EXCEPT ![c].todo = <<To(View(c), "process-stopped")>>]
    /\ UNCHANGED <<journal, receipt, gate, installed>>

StopNativeFails(c) ==
    /\ At(c, {"owned-processes-stopped"}) /\ ~NeedsEvidence(View(c))
    /\ Do(c, "step", <<ToRepair(View(c))>>)
    /\ UNCHANGED <<journal, receipt, daemon, cleanup, gate, installed, supervisionVars>>

(***************************************************************************)
(* process-stopped: a stop is complete, a restart starts the service and   *)
(* waits until another instance is ready, a removal unregisters the        *)
(* service and deletes the managed content under the start gate.           *)
(***************************************************************************)
CompleteStop(c) ==
    /\ At(c, {"process-stopped"})
    /\ View(c).kind \in {"stop", "disable-now"}
    /\ Do(c, "step", <<Completed(View(c))>>)
    /\ UNCHANGED <<journal, receipt, daemon, cleanup, gate, installed, supervisionVars>>

StartReplacement(c) ==
    /\ At(c, {"process-stopped"}) /\ View(c).kind = "restart"
    /\ StartLauncher
    /\ Do(c, "step", <<To(View(c), "replacement-started")>>)
    /\ UNCHANGED <<journal, receipt, daemon, cleanup, gate, installed>>

\* The Daemon that answers is the replacement that the receipt waits for.
IsReplacement(c) ==
    /\ At(c, {"replacement-started"})
    /\ child /\ daemon.ready
    /\ receipt[Op(c)].stage = "process-stopped" /\ receipt[Op(c)].held
    /\ daemon.instance # View(c).owner

ConfirmReplacement(c) ==
    /\ At(c, {"replacement-started"})
    /\ child
    /\ LET r == receipt[Op(c)]
       IN  \/ /\ r.stage = "replacement-ready"
              /\ r.owner # View(c).owner
              /\ UNCHANGED <<receipt, supervisionVars>>
              /\ Do(c, "step", <<[Completed(View(c)) EXCEPT !.owner = r.owner]>>)
           \/ /\ IsReplacement(c)
              /\ \E length \in Policies : ActivatePolicy(length)
              /\ receipt' = [receipt EXCEPT ![Op(c)] = Replaced(r)]
              /\ Do(c, "step", <<[Completed(View(c)) EXCEPT !.owner = daemon.instance]>>)
    /\ daemon' = [daemon EXCEPT !.held = FALSE]
    /\ UNCHANGED <<journal, cleanup, gate, installed>>

AcquireGate(c) ==
    /\ At(c, {"process-stopped", "service-unregistered", "installation-removed"})
    /\ View(c).kind = "remove"
    /\ gate = None /\ ~child
    /\ View(c).stage = "process-stopped" => native = "stopped"
    /\ gate' = c
    /\ Do(c, "removing", <<>>)
    /\ UNCHANGED <<journal, receipt, daemon, cleanup, installed, supervisionVars>>

Removing(c, stage) ==
    /\ ctl[c].at = "removing" /\ ctl[c].todo = <<>>
    /\ View(c).stage = stage

RemoveRegistration(c) ==
    /\ Removing(c, "process-stopped")
    /\ installed' = [installed EXCEPT !.service = FALSE]
    /\ enabled' = FALSE
    /\ Do(c, "removing", <<To(View(c), "service-unregistered")>>)
    /\ UNCHANGED <<journal, receipt, daemon, cleanup, gate, supervision, native, child,
                   configured, streak>>

RemoveInstallation(c) ==
    /\ Removing(c, "service-unregistered")
    /\ installed' = [installed EXCEPT !.content = FALSE]
    /\ Do(c, "removing", <<To(View(c), "installation-removed")>>)
    /\ UNCHANGED <<journal, receipt, daemon, cleanup, gate, supervisionVars>>

CompleteRemoval(c) ==
    /\ Removing(c, "installation-removed")
    /\ Do(c, "removing", <<Completed(View(c))>>)
    /\ UNCHANGED <<journal, receipt, daemon, cleanup, gate, installed, supervisionVars>>

ControllerStep(c) ==
    \/ ClientEnds(c) \/ WriteEntry(c) \/ SwitchAutomaticStart(c) \/ SettleStopped(c)
    \/ Preflight(c) \/ BeginDrain(c) \/ ReadDrain(c) \/ PrepareHandoff(c) \/ ResumeHandoff(c)
    \/ ConfirmControllerReady(c) \/ ResumeAccepted(c) \/ CallCleanup(c) \/ FinishCleanup(c)
    \/ FailCleanup(c) \/ SealPurgeSafety(c) \/ StopNative(c) \/ StopNativeFails(c)
    \/ CompleteStop(c) \/ StartReplacement(c) \/ ConfirmReplacement(c) \/ AcquireGate(c)
    \/ RemoveRegistration(c) \/ RemoveInstallation(c) \/ CompleteRemoval(c)

(***************************************************************************)
(* The Daemon process: it starts with dispatch held for the receipts that  *)
(* hold it, becomes ready, executes Runs, and may die at any time.         *)
(***************************************************************************)
\* A faulty variant: a start does not look at the gate of a removal.
FaultyMayStart == installed.content

MayStart == gate = None /\ installed.content

\* A faulty variant: the holds of the receipts are not taken up.
FaultyStarted == Down(daemon.instance + 1)

Started == [Down(daemon.instance + 1) EXCEPT !.held = ActiveDrainHeld]

StartDaemon ==
    /\ daemon.instance < MaxInstance
    /\ MayStart
    /\ StartAttempt
    /\ daemon' = Started
    /\ UNCHANGED <<journal, receipt, cleanup, ctl, gate, installed>>

DaemonReady ==
    /\ RecordReady
    /\ daemon' = [daemon EXCEPT !.ready = TRUE]
    /\ UNCHANGED <<journal, receipt, cleanup, ctl, gate, installed>>

Dispatch ==
    /\ child /\ daemon.ready
    /\ ~daemon.held /\ ~daemon.stopping /\ ~daemon.executing
    /\ daemon' = [daemon EXCEPT !.executing = TRUE]
    /\ UNCHANGED <<journal, receipt, cleanup, ctl, gate, installed, supervisionVars>>

RunsSettle ==
    /\ child /\ daemon.executing
    /\ daemon' = [daemon EXCEPT !.executing = FALSE]
    /\ UNCHANGED <<journal, receipt, cleanup, ctl, gate, installed, supervisionVars>>

DaemonDies ==
    /\ \/ ChildDies
       \/ \E c \in Client, length \in Policies :
             IsReplacement(c) /\ ActivationInterrupted(length)
    /\ DaemonGone
    /\ ctl' = CallsLost
    /\ UNCHANGED <<journal, receipt, gate, installed>>

\* The Host goes down and comes back, the commands with it.
HostRestarts ==
    /\ Reboot
    /\ DaemonGone
    /\ ctl' = [c \in Client |-> Idle]
    /\ gate' = None
    /\ UNCHANGED <<journal, receipt, installed>>

\* daemon start, and the start that follows a supervision repair.
UserStarts ==
    /\ native = "stopped" /\ installed.service
    /\ StartLauncher
    /\ UNCHANGED <<journal, receipt, daemon, cleanup, ctl, gate, installed>>

\* The launcher and the repair command, which change the supervision state only.
Supervise ==
    /\ PrepareAttempt \/ FinishAttempt \/ RecordOperationSuccess \/ CheckRepair \/ ApplyRepair
    /\ UNCHANGED <<journal, receipt, daemon, cleanup, ctl, gate, installed>>

Next ==
    \/ \E c \in Client :
          \/ \E o \in Operation : \/ \E kind \in Kinds : Begin(c, o, kind)
                                  \/ Resume(c, o) \/ ForceDrain(c, o)
          \/ ControllerStep(c)
    \/ StartDaemon \/ DaemonReady \/ Dispatch \/ RunsSettle \/ DaemonDies \/ HostRestarts
    \/ UserStarts \/ Supervise

Spec == Init /\ [][Next]_vars
-----------------------------------------------------------------------------
Begun(o) == journal[o] # NoEntry

(***************************************************************************)
(* The journal never runs ahead of the Daemon: it records a drain only     *)
(* while the receipt holds dispatch, stopped processes only when the       *)
(* receipt has them stopped, and it passes over the Daemon's part only for *)
(* operations that found the service stopped.  A restart that completed    *)
(* was taken over by a replacement: the receipt names the instance the     *)
(* journal names and its hold is gone, so that no later Daemon starts with *)
(* dispatch held for it.                                                   *)
(***************************************************************************)
JournalFollowsReceipt ==
    \A o \in Operation :
        Begun(o) =>
           /\ receipt[o] = NoReceipt =>
                 journal[o].stage \in {"prepared", "process-stopped", "service-unregistered",
                                      "installation-removed", "completed"}
           /\ journal[o].stage \in {"draining", "drained"} => receipt[o].held
           /\ journal[o].stage = "owned-processes-stopped" =>
                 receipt[o].stage = "process-stopped"
           /\ journal[o].kind = "restart" /\ journal[o].outcome = "succeeded" =>
                 /\ receipt[o].stage = "replacement-ready"
                 /\ ~receipt[o].held
                 /\ receipt[o].owner = journal[o].owner

(***************************************************************************)
(* While any receipt holds dispatch the running Daemon holds it: the       *)
(* receipt survives a crash, the hold in memory does not, and a late       *)
(* answer to another operation may drop the one and not the other.  Once   *)
(* the drain of a restart is over, no Daemon executes a Run until the      *)
(* replacement is started, whatever crashes and starts in between, unless  *)
(* the drain was forced.  Holds with one command at a time.                *)
(***************************************************************************)
DrainLasts ==
    /\ child /\ ActiveDrainHeld => daemon.held
    /\ \A o \in Operation :
          /\ Begun(o) /\ journal[o].kind = "restart" /\ ~journal[o].forced
          /\ journal[o].stage \in {"drained", "handoff-prepared", "controller-ready",
                "controller-accepted", "cleanup-started", "owned-processes-stopped",
                "process-stopped"}
          => ~daemon.executing

(***************************************************************************)
(* No Daemon lives when the managed content is deleted, and none starts    *)
(* from what is left, although a start may have been asked meanwhile.      *)
(***************************************************************************)
RemovalIsExclusive == ~installed.content => ~child
=============================================================================
