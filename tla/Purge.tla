------------------------------- MODULE Purge -------------------------------
(***************************************************************************)
(* The end of a Daemon's data.  Before a Daemon gives them up it seals     *)
(* evidence of them: their rows, their files, the leases still open.  From *)
(* valid evidence `purge --check` makes a plan; `purge --confirm` takes    *)
(* the start gate, records the plan in a receipt outside the data, renames *)
(* the data root to a quarantine and deletes that.  Each write is a file   *)
(* operation of its own and the command may die between any two; a receipt *)
(* that is not completed blocks the start of a Daemon and is resumed with  *)
(* its plan only.  Evidence that is gone or stale is sealed anew by a      *)
(* restricted child of `repair --purge-safety`.                            *)
(*                                                                         *)
(* A lifetime is the data between two purges, one data identity.  Of what  *)
(* was sealed only whether it is still so is kept; the contents of rows    *)
(* and files, and signatures, which the code verifies first, are not.      *)
(***************************************************************************)
EXTENDS Naturals, Sequences

CONSTANTS
    MaxLifetime,        \* bound on the data identities
    MaxSeals,           \* bound on the pieces of evidence
    MaxOperations       \* bound on the journal's operations in a lifetime

ASSUME BoundAssumption == MaxLifetime \in Nat

Lifetime == 1 .. MaxLifetime
Gone == 0
Bare == MaxLifetime + 1

VARIABLES
    root,               \* the data root: a lifetime, Bare directories, or Gone
    operations,         \* the lifecycle journal in it, oldest first
    evidence,           \* lifecycle/purge-safety.json in it
    leased,             \* project_resource_leases has a lease that is not released
    seals,              \* the pieces of evidence issued so far
    quarantine,         \* what is left of each lifetime in its quarantine
    stub,               \* purge-control/receipts, outside the data: the stage of each
    recorded,           \* and its plan
    torn,               \* a temporary file of an interrupted write lies beside them
    lock,               \* who has the start gate: "nobody", "daemon", "purge", "child"
    up, automatic,      \* the service manager: is the launcher up, does it start by itself
    plans,              \* the plan tokens that checks have printed
    step, named,        \* the confirming command: its step, and the plan it was given
    repair,             \* the repairing command: its plan, operation and step
    taken               \* history: what each purge took away

dataVars == <<root, operations, evidence, leased>>
receiptVars == <<stub, recorded, torn>>
service == <<up, automatic>>
purge == <<step, named>>
purgeVars == <<dataVars, seals, quarantine, receiptVars, lock, service, plans, purge, repair, taken>>

NoEvidence == [id |-> 0, op |-> 0, leased |-> FALSE, expired |-> FALSE,
               sameRows |-> FALSE, sameFiles |-> FALSE]
NoPlan == [life |-> 0, evidence |-> 0, up |-> FALSE, automatic |-> FALSE]
NoRepair == [at |-> "idle", life |-> 0, op |-> 0, own |-> FALSE]

PurgeInit ==
    /\ root = Gone /\ operations = <<>> /\ evidence = NoEvidence /\ leased = FALSE
    /\ seals = 0
    /\ quarantine = [l \in Lifetime |-> "absent"]
    /\ stub = [l \in Lifetime |-> "absent"]
    /\ recorded = [l \in Lifetime |-> NoPlan]
    /\ torn = FALSE
    /\ lock = "nobody"
    /\ up = FALSE /\ automatic = TRUE
    /\ plans = {}
    /\ step = "idle" /\ named = NoPlan
    /\ repair = NoRepair
    /\ taken = [l \in Lifetime |-> "nothing"]

-----------------------------------------------------------------------------
(* A removal is "prepared" until it asks the Daemon to stop, or finds it   *)
(* stopped, and "stopping" from there.                                     *)
Operation(kind) == [kind |-> kind, stage |-> "prepared", done |-> FALSE, evidence |-> 0]

Pending(op) == op \in DOMAIN operations /\ ~operations[op].done
Removes(op, stage) ==
    Pending(op) /\ operations[op].kind = "remove" /\ operations[op].stage = stage
NonePending == \A op \in DOMAIN operations : operations[op].done

StoppedDisabled == ~up /\ ~automatic

(* What evidence.ownedScope names is there and unchanged.  Entries of the  *)
(* sealing operation may have come since; those of `mine`, the purge, too. *)
ScopeHolds(mine) ==
    /\ evidence.sameRows /\ evidence.sameFiles
    /\ \A op \in DOMAIN operations : operations[op].kind = "purge" => mine

(* Any other write to the data root.                                       *)
FilesChange(e) == [e EXCEPT !.sameFiles = FALSE]
RowsChange(e) == [e EXCEPT !.sameRows = FALSE]

(* seal: the same operation over the same rows gets what it got before.    *)
Sealed(op) ==
    IF evidence.op = op /\ evidence.sameRows
    THEN UNCHANGED <<evidence, seals>>
    ELSE /\ seals < MaxSeals
         /\ seals' = seals + 1
         /\ evidence' = [id |-> seals + 1, op |-> op, leased |-> leased, expired |-> FALSE,
                         sameRows |-> TRUE, sameFiles |-> TRUE]

Busy(l) == stub[l] \in {"prepared", "quarantined"}
InProgress == \E l \in Lifetime : Busy(l)

(* acquireDaemonStartGate, which each start and each removal takes.  A     *)
(* name in the directory of the receipts that is none's is refused.        *)
FaultyStartGateFree == lock = "nobody"

StartGateFree == lock = "nobody" /\ ~torn /\ ~InProgress

-----------------------------------------------------------------------------
(* The Daemon and its launcher.                                            *)

(* The launcher notes its attempt in the data root, there or not.          *)
StartService ==
    /\ ~up /\ up' = TRUE
    /\ root' = IF root = Gone THEN Bare ELSE root
    /\ evidence' = FilesChange(evidence)
    /\ UNCHANGED <<operations, leased, seals, quarantine, receiptVars, lock, automatic, plans,
                   purge, repair, taken>>

(* A root without a database gets a new identity.                          *)
StartDaemon ==
    /\ up
    /\ StartGateFree
    /\ lock' = "daemon"
    /\ IF root \in Lifetime THEN UNCHANGED root
       ELSE \E l \in Lifetime :
              /\ stub[l] = "absent" /\ \A k \in 1 .. l - 1 : stub[k] # "absent"
              /\ root' = l
    /\ evidence' = FilesChange(evidence)
    /\ UNCHANGED <<operations, leased, seals, quarantine, receiptVars, service, plans, purge,
                   repair, taken>>

DaemonWrites ==
    /\ lock = "daemon"
    /\ leased' \in BOOLEAN
    /\ evidence' = RowsChange(evidence)
    /\ UNCHANGED <<root, operations, seals, quarantine, receiptVars, lock, service, plans, purge,
                   repair, taken>>

(* Stopped by the service manager, or dead; the gate goes with it.         *)
DaemonEnds ==
    /\ up /\ up' \in BOOLEAN
    /\ lock' = IF lock = "daemon" THEN "nobody" ELSE lock
    /\ UNCHANGED <<dataVars, seals, quarantine, receiptVars, automatic, plans, purge, repair,
                   taken>>

(* An operation that is done as soon as it has begun, enable or disable.   *)
(* Its journal is made where there is none.                                *)
SwitchStart ==
    /\ NonePending
    /\ root = Gone \/ Len(operations) < MaxOperations
    /\ automatic' = ~automatic
    /\ root' = IF root = Gone THEN Bare ELSE root
    /\ operations' = Append(operations, [Operation("other") EXCEPT !.done = TRUE])
    /\ evidence' = FilesChange(evidence)
    /\ UNCHANGED <<leased, seals, quarantine, receiptVars, lock, up, plans, purge, repair, taken>>

TimePasses ==
    /\ evidence.id # 0 /\ ~evidence.expired
    /\ evidence' = [evidence EXCEPT !.expired = TRUE]
    /\ UNCHANGED <<root, operations, leased, seals, quarantine, receiptVars, lock, service, plans,
                   purge, repair, taken>>

-----------------------------------------------------------------------------
(* The removal, as far as it seals (the rest is DaemonLifecycle).          *)

BeginRemoval ==
    /\ root \in Lifetime
    /\ NonePending /\ Len(operations) < MaxOperations
    /\ operations' = Append(operations, Operation("remove"))
    /\ evidence' = FilesChange(evidence)
    /\ UNCHANGED <<root, leased, seals, quarantine, receiptVars, lock, service, plans, purge,
                   repair, taken>>

(* Its entries are the sealing operation's own.                            *)
AskToStop(op) ==
    /\ lock = "daemon"
    /\ Removes(op, "prepared")
    /\ operations' = [operations EXCEPT ![op].stage = "stopping"]
    /\ UNCHANGED <<root, evidence, leased, seals, quarantine, receiptVars, lock, service, plans,
                   purge, repair, taken>>

(* The Daemon seals; whether the controller still records it or has ended. *)
DaemonSeals(op) ==
    /\ lock = "daemon"
    /\ Removes(op, "stopping") /\ operations[op].evidence = 0
    /\ Sealed(op)
    /\ operations' \in {operations, [operations EXCEPT ![op].evidence = evidence'.id]}
    /\ UNCHANGED <<root, leased, quarantine, receiptVars, lock, service, plans, purge, repair,
                   taken>>

CheckPasses == root \in Lifetime /\ ScopeHolds(FALSE) /\ ~evidence.expired

(* A removal that finds the service stopped asks for current evidence,     *)
(* even if a recovery has recorded some.                                   *)
FindStopped(op) ==
    /\ Removes(op, "prepared")
    /\ ~up
    /\ CheckPasses
    /\ operations' = [operations EXCEPT ![op] =
          [@ EXCEPT !.stage = "stopping", !.evidence = evidence.id]]
    /\ UNCHANGED <<root, evidence, leased, seals, quarantine, receiptVars, lock, service, plans,
                   purge, repair, taken>>

(* The service is unregistered and its content deleted, under the gate.    *)
FinishRemoval(op) ==
    /\ Removes(op, "stopping") /\ operations[op].evidence # 0
    /\ ~up
    /\ StartGateFree
    /\ operations' = [operations EXCEPT ![op].done = TRUE]
    /\ automatic' = FALSE
    /\ UNCHANGED <<root, evidence, leased, seals, quarantine, receiptVars, lock, up, plans, purge,
                   repair, taken>>

-----------------------------------------------------------------------------
(* purge --check and purge --confirm.                                      *)

Plan == [life |-> root, evidence |-> evidence.id, up |-> up, automatic |-> automatic]

Check ==
    /\ CheckPasses
    /\ plans' = plans \cup {Plan}
    /\ UNCHANGED <<dataVars, seals, quarantine, receiptVars, lock, service, purge, repair, taken>>

Command(next) == step' = next /\ UNCHANGED named

(* It ends: done, refused, or it dies.                                     *)
Leave == step' = "idle" /\ named' = NoPlan /\ lock' = "nobody"

ConfirmPlan(plan) ==
    /\ step = "idle"
    /\ lock = "nobody" /\ ~torn
    /\ lock' = "purge"
    /\ step' = "look" /\ named' = plan
    /\ UNCHANGED <<dataVars, seals, quarantine, receiptVars, service, plans, repair, taken>>

(* A pending receipt goes before everything; then a completed one of the   *)
(* lifetime the plan names; then the plan must agree with the evidence.    *)
Authorises(plan) ==
    /\ CheckPasses
    /\ plan = Plan
    /\ ~evidence.leased
    /\ StoppedDisabled
    /\ NonePending

Look ==
    /\ step = "look"
    /\ \/ /\ InProgress
          /\ \E l \in Lifetime : Busy(l) /\ recorded[l] = named
          /\ Command("finish") /\ UNCHANGED lock
       \/ /\ ~InProgress /\ stub[named.life] = "absent"
          /\ Authorises(named)
          /\ Command("authorised") /\ UNCHANGED lock
    /\ UNCHANGED <<dataVars, seals, quarantine, receiptVars, service, plans, repair, taken>>

(* begin and advance of the operation; begin refuses beside a pending one. *)
Authorise ==
    /\ step = "authorised"
    /\ NonePending
    /\ operations' = Append(operations, Operation("purge"))
    /\ Command("prepare")
    /\ UNCHANGED <<root, evidence, leased, seals, quarantine, receiptVars, lock, service, plans,
                   repair, taken>>

Write(stage) ==
    /\ stub' = [stub EXCEPT ![named.life] = stage]
    /\ recorded' = [recorded EXCEPT ![named.life] = named]

WritePrepared ==
    /\ step = "prepare"
    /\ Write("prepared")
    /\ Command("finish")
    /\ UNCHANGED <<dataVars, seals, quarantine, torn, lock, service, plans, repair, taken>>

(* #finish: a data root that is there is still to be moved.                *)
FaultyMayMove == TRUE

MayMove == root = named.life /\ evidence.id = named.evidence /\ ScopeHolds(TRUE)

Finish ==
    /\ step = "finish"
    /\ \/ root = Gone /\ Command("delete")
       \/ root # Gone /\ MayMove /\ Command("move")
    /\ UNCHANGED <<dataVars, seals, quarantine, receiptVars, lock, service, plans, repair, taken>>

(* The data move with the evidence, the journal and whatever came since.   *)
Move ==
    LET l == named.life IN
    /\ step = "move"
    /\ quarantine[l] = "absent"
    /\ quarantine' = [quarantine EXCEPT ![l] =
          IF evidence.sameFiles THEN "whole" ELSE "changed"]
    /\ taken' = [taken EXCEPT ![l] =
          IF root = l /\ evidence.id = named.evidence /\ evidence.sameRows /\ ~leased
          THEN "sealed" ELSE "other"]
    /\ root' = Gone /\ operations' = <<>> /\ evidence' = NoEvidence /\ leased' = FALSE
    /\ Command("moved")
    /\ UNCHANGED <<seals, receiptVars, lock, service, plans, repair>>

WriteQuarantined ==
    /\ step = "moved"
    /\ Write("quarantined")
    /\ Command("delete")
    /\ UNCHANGED <<dataVars, seals, quarantine, torn, lock, service, plans, repair, taken>>

(* deleteTree, node by node, after a look at what is left.                 *)
Delete ==
    LET l == named.life IN
    /\ step = "delete"
    /\ quarantine[l] \in {"whole", "part"}
    /\ \/ quarantine' = [quarantine EXCEPT ![l] = "part"] /\ UNCHANGED purge
       \/ quarantine' = [quarantine EXCEPT ![l] = "absent"] /\ Command("complete")
    /\ UNCHANGED <<dataVars, seals, receiptVars, lock, service, plans, repair, taken>>

NothingLeft == quarantine[named.life] = "absent"

Deleted ==
    /\ step = "delete"
    /\ NothingLeft
    /\ Command("complete")
    /\ UNCHANGED <<dataVars, seals, quarantine, receiptVars, lock, service, plans, repair, taken>>

WriteCompleted ==
    /\ step = "complete"
    /\ Write("completed")
    /\ Leave
    /\ UNCHANGED <<dataVars, seals, quarantine, torn, service, plans, repair, taken>>

(* Refused or answered, or dead; a receipt half written stays as a         *)
(* temporary file.                                                         *)
PurgeEnds ==
    /\ step # "idle"
    /\ Leave
    /\ \/ UNCHANGED torn
       \/ step \in {"prepare", "moved", "complete"} /\ torn' = TRUE
    /\ UNCHANGED <<dataVars, seals, quarantine, stub, recorded, service, plans, repair, taken>>

-----------------------------------------------------------------------------
(* repair --purge-safety.  A token is applied until it succeeds or it      *)
(* expires.  Its operation is its own, or the pending removal.             *)

RepairCheck ==
    /\ repair = NoRepair
    /\ StoppedDisabled
    /\ root \in Lifetime
    /\ \/ /\ NonePending
          /\ repair' = [at |-> "planned", life |-> root, op |-> 0, own |-> TRUE]
       \/ \E op \in DOMAIN operations :
            /\ Removes(op, "prepared")
            /\ repair' = [at |-> "planned", life |-> root, op |-> op, own |-> FALSE]
    /\ UNCHANGED <<dataVars, seals, quarantine, receiptVars, lock, service, plans, purge, taken>>

RepairAt(stage) == repair.at = stage

(* What is already recorded is answered again, however old.                *)
ApplyRepair ==
    /\ RepairAt("planned")
    /\ StoppedDisabled
    /\ root = repair.life
    /\ IF repair.op = 0
       THEN /\ NonePending /\ Len(operations) < MaxOperations
            /\ operations' = Append(operations, Operation("purge-recovery"))
            /\ evidence' = FilesChange(evidence)
            /\ repair' = [repair EXCEPT !.at = "launched", !.op = Len(operations) + 1]
       ELSE /\ operations[repair.op].evidence = 0
            /\ repair.own \/ Removes(repair.op, "prepared")
            /\ repair' = [repair EXCEPT !.at = "launched"]
            /\ UNCHANGED <<operations, evidence>>
    /\ UNCHANGED <<root, leased, seals, quarantine, receiptVars, lock, service, plans, purge,
                   taken>>

ChildTakesGate ==
    /\ RepairAt("launched")
    /\ StoppedDisabled
    /\ StartGateFree
    /\ root = repair.life
    /\ Pending(repair.op) /\ operations[repair.op].stage = "prepared"
    /\ lock' = "child"
    /\ repair' = [repair EXCEPT !.at = "child"]
    /\ UNCHANGED <<dataVars, seals, quarantine, receiptVars, service, plans, purge, taken>>

ChildSeals ==
    /\ RepairAt("child")
    /\ Sealed(repair.op)
    /\ lock' = "nobody"
    /\ repair' = [repair EXCEPT !.at = "sealed"]
    /\ UNCHANGED <<root, operations, leased, quarantine, receiptVars, service, plans, purge, taken>>

RecordRepair ==
    /\ RepairAt("sealed")
    /\ StoppedDisabled
    /\ root = repair.life /\ evidence.op = repair.op
    /\ Pending(repair.op) /\ operations[repair.op].stage = "prepared"
    /\ operations' = [operations EXCEPT ![repair.op] =
          [@ EXCEPT !.evidence = evidence.id, !.done = repair.own]]
    /\ repair' = NoRepair
    /\ UNCHANGED <<root, evidence, leased, seals, quarantine, receiptVars, lock, service, plans,
                   purge, taken>>

(* Refused or dead, the parent or the child; the token is still good.      *)
RepairFails ==
    /\ repair.at \in {"launched", "child", "sealed"}
    /\ repair' = [repair EXCEPT !.at = "planned"]
    /\ lock' = IF RepairAt("child") THEN "nobody" ELSE lock
    /\ UNCHANGED <<dataVars, seals, quarantine, receiptVars, service, plans, purge, taken>>

RepairExpires ==
    /\ RepairAt("planned")
    /\ repair' = NoRepair
    /\ UNCHANGED <<dataVars, seals, quarantine, receiptVars, lock, service, plans, purge, taken>>

-----------------------------------------------------------------------------
PurgeNext ==
    \/ StartService \/ StartDaemon \/ DaemonWrites \/ DaemonEnds \/ SwitchStart \/ TimePasses
    \/ BeginRemoval
    \/ \E op \in DOMAIN operations : \/ AskToStop(op) \/ DaemonSeals(op)
                                   \/ FindStopped(op) \/ FinishRemoval(op)
    \/ Check
    \/ \E plan \in plans : ConfirmPlan(plan)
    \/ Look \/ Authorise \/ WritePrepared \/ Finish \/ Move \/ WriteQuarantined
    \/ Delete \/ Deleted \/ WriteCompleted \/ PurgeEnds
    \/ RepairCheck \/ ApplyRepair \/ ChildTakesGate \/ ChildSeals \/ RecordRepair
    \/ RepairFails \/ RepairExpires

PurgeSpec == PurgeInit /\ [][PurgeNext]_purgeVars

-----------------------------------------------------------------------------
(* What a purge takes away is the lifetime that its plan named, with the   *)
(* rows as they were when its evidence was sealed and no lease left open,  *)
(* though the command may have died and been resumed over a data root that *)
(* others have written to or made anew meanwhile.                          *)
PurgedWasSealed == \A l \in Lifetime : taken[l] # "other"

(* Two lifetimes are never there at once.  While a purge has begun no      *)
(* Daemon runs, over the old data or new ones; a completed one leaves      *)
(* nothing; and no second purge begins beside the first.                   *)
LifetimesDoNotOverlap ==
    /\ lock = "daemon" => \A l \in Lifetime : quarantine[l] = "absent" /\ ~Busy(l)
    /\ \A l \in Lifetime : stub[l] = "completed" => root # l /\ quarantine[l] = "absent"
    /\ \A k, l \in Lifetime : Busy(k) /\ Busy(l) => k = l
=============================================================================
