--------------------------- MODULE RevisionStore ---------------------------
(***************************************************************************)
(* The retained Workflow Revisions: their rows, readers and collection      *)
(* (SqliteRevisionRepository), the files that captureRevision publishes and  *)
(* a collection removes, and those who use a Revision: a Factory Refresh     *)
(* that makes it current, a Start, the runner of a Run, the runner of the    *)
(* Triggers, and the retention that deletes a Run.                         *)
(*                                                                         *)
(* Capture, repair and collection are synchronous: only a failure or a crash *)
(* comes between their steps.  A collection is one transaction, so that its  *)
(* state "collecting" is never committed; the files it has removed stay      *)
(* removed when the transaction is rolled back.                            *)
(***************************************************************************)
EXTENDS Naturals, FiniteSets

CONSTANTS Revision, Workflow, Object,
          WorkflowOf,  \* the Workflow a Revision is captured from
          ObjectsOf,   \* the shared objects a Revision's manifest names
          Run, Runner,
          MaxFaults,   \* interrupted collections and repairs, and crashes
          NoRevision         \* no Revision

ASSUME RevisionAssumption ==
    /\ WorkflowOf \in [Revision -> Workflow] /\ ObjectsOf \in [Revision -> SUBSET Object]
    /\ NoRevision \notin Revision /\ MaxFaults \in Nat
    /\ Run \cap {"none", "inspect", "trigger"} = {}

VARIABLES
    registered,  \* workflow_revisions, with the index of their objects
    current,     \* current_revision_id of the Project's Workflows
    available,   \* Workflows that are available
    run,         \* the Revision of a retained Run
    reader,      \* workflow_readers of the runners there are
    lost,        \* Revisions with a reader whose runner ended with its Daemon
    collection,  \* workflow_revision_collection
    published,   \* revisions/<id> on disk
    objects,     \* objects/ on disk
    runner,      \* what a runner process was started for
    starting,    \* a Start in progress: its Revision
    recent,      \* history: Revisions that had a reader within the last day
    damaged,     \* history: what was interrupted of a Revision, and not made good
    faults

revisionRows == <<registered, current, available, run>>
readers == <<reader, lost, recent>>
files == <<published, objects>>
processes == <<runner, starting>>
history == <<damaged, faults>>
revisionVars == <<revisionRows, readers, collection, files, processes, history>>

RevisionInit ==
    /\ registered = {} /\ available = {}
    /\ current = [w \in Workflow |-> NoRevision]
    /\ run = [x \in Run |-> NoRevision]
    /\ reader = [q \in Runner |-> [r \in Revision |-> "none"]]
    /\ lost = {} /\ recent = {} /\ faults = 0
    /\ damaged = [r \in Revision |-> "none"]
    /\ collection = [r \in Revision |-> "none"]
    /\ published = [r \in Revision |-> "absent"]
    /\ objects = {}
    /\ runner = [q \in Runner |-> "none"]
    /\ starting = [at |-> "idle", revision |-> NoRevision]

-----------------------------------------------------------------------------
(* Protection, grace and the guards of the tables.                         *)

Read(r) == r \in lost \/ \E q \in Runner : reader[q][r] = "held"
Pinned(r) == \E x \in Run : run[x] = r
Current(r) == \E w \in available : current[w] = r

\* #protections.  Nothing in the code protects a validation.
Protected(r) == Current(r) \/ Pinned(r) \/ Read(r)

\* The triggers on readers, Runs and current Workflows.
Usable(r) == collection[r] # "collected"

\* A row in grace is "eligible" once its eligible_at has come.
Reset(c) == IF c \in {"grace", "eligible"} THEN "none" ELSE c
Begun(c) == IF c = "none" THEN "grace" ELSE c

\* #startGraceWhenUnprotected for the Revisions of rs.
GraceFor(rs) ==
    collection' = [r \in Revision |->
        IF r \notin rs THEN collection[r]
        ELSE IF Protected(r)' THEN Reset(collection[r]) ELSE Begun(collection[r])]

\* A faulty variant: a reader leaves the grace period running.
FaultyAcquire(q, r) ==
    /\ Usable(r) /\ reader[q][r] = "none"
    /\ reader' = [reader EXCEPT ![q][r] = "held"]
    /\ recent' = recent \cup {r}
    /\ UNCHANGED <<lost, collection>>

\* acquireReader by a runner that has not had this Revision.
Acquire(q, r) ==
    /\ Usable(r) /\ reader[q][r] = "none"
    /\ reader' = [reader EXCEPT ![q][r] = "held"]
    /\ recent' = recent \cup {r}
    /\ collection' = [collection EXCEPT ![r] = Reset(@)]
    /\ UNCHANGED lost

-----------------------------------------------------------------------------
(* Capture and the Factory Refresh of the Project.                         *)

\* captureWorkflowRevision: the staged directory is put in place unless there is
\* one, which is not looked into ...
Placed(rs) == [r \in Revision |->
                 IF r \in rs /\ published[r] = "absent" THEN "whole" ELSE published[r]]

\* ... and missing objects are published.
Publish(rs) ==
    /\ published' = Placed(rs)
    /\ objects' = objects \cup UNION {ObjectsOf[r] : r \in rs}

\* materializeRevision copies a directory that has every file of the manifest.
Materializes(r) == published[r] = "whole"

Found == {g \in [Workflow -> Revision \cup {NoRevision}] :
            \A w \in Workflow : g[w] # NoRevision => WorkflowOf[g[w]] = w}
Names(g) == {g[w] : w \in Workflow} \ {NoRevision}

\* A faulty variant: a collected Revision becomes current again.
FaultyRefresh(g) ==
    /\ Publish(Names(g))
    /\ registered' = registered \cup Names(g)
    /\ available' = {w \in Workflow : g[w] # NoRevision}
    /\ current' = [w \in Workflow |-> IF g[w] # NoRevision THEN g[w] ELSE current[w]]
    /\ UNCHANGED <<run, readers, collection, processes, history>>

\* The Factory that was found is captured and applied in one transaction; a
\* Workflow that is invalid or gone keeps its Revision and is not available.
Refresh(g) ==
    /\ \A r \in Names(g) : Usable(r)
    /\ Publish(Names(g))
    /\ registered' = registered \cup Names(g)
    /\ available' = {w \in Workflow : g[w] # NoRevision}
    /\ current' = [w \in Workflow |-> IF g[w] # NoRevision THEN g[w] ELSE current[w]]
    /\ UNCHANGED <<run, readers, collection, processes, history>>

\* A later capture fails, the Daemon ends before the transaction, or the
\* transaction is refused for a collected Revision: the files remain.
RefreshFails(g) ==
    /\ Names(g) # {} /\ Publish(Names(g))
    /\ UNCHANGED <<revisionRows, readers, collection, processes, history>>

-----------------------------------------------------------------------------
(* Inspection, collection and repair.                                      *)

\* A faulty variant: the objects of other Revisions are not looked at.
FaultyOwn(r) == ObjectsOf[r]

\* Objects that no other registered Revision has, unless it was collected.
Own(r) == ObjectsOf[r] \ UNION {ObjectsOf[s] : s \in {t \in registered \ {r} : Usable(t)}}

Details(r) ==
    /\ r \in registered
    /\ UNCHANGED <<revisionRows, readers, files, processes, history>>
    /\ GraceFor({r})

\* collect: nothing is removed before the grace period is over.
Collect(r) ==
    /\ r \in registered
    /\ IF Protected(r)
       THEN collection' = [collection EXCEPT ![r] = Reset(@)] /\ UNCHANGED files
       ELSE IF collection[r] = "eligible"
       THEN /\ collection' = [collection EXCEPT ![r] = "collected"]
            /\ published' = [published EXCEPT ![r] = "absent"]
            /\ objects' = objects \ Own(r)
       ELSE collection' = [collection EXCEPT ![r] = Begun(@)] /\ UNCHANGED files
    /\ UNCHANGED <<revisionRows, readers, processes, history>>

\* A file cannot be removed, or the Daemon ends: the transaction is rolled back.
CollectFails(r) ==
    /\ r \in registered /\ ~Protected(r) /\ collection[r] = "eligible"
    /\ faults < MaxFaults /\ faults' = faults + 1
    /\ \/ published' = [published EXCEPT ![r] = "partial"] /\ UNCHANGED objects
       \/ /\ published' = [published EXCEPT ![r] = "absent"]
          /\ \E removed \in SUBSET Own(r) : objects' = objects \ removed
    /\ damaged' = [damaged EXCEPT ![r] = "collection"]
    /\ UNCHANGED <<revisionRows, readers, collection, processes>>

\* repairExact from an exact copy.
Repair(r) ==
    /\ r \in registered /\ Usable(r)
    /\ published' = [published EXCEPT ![r] = "whole"]
    /\ objects' = objects \cup ObjectsOf[r]
    /\ damaged' = [damaged EXCEPT ![r] = "none"]
    /\ UNCHANGED <<revisionRows, readers, processes, faults>>
    /\ GraceFor({r})

\* The Daemon ends with its runners; the next one releases none of their readers.
DaemonEnds ==
    /\ faults < MaxFaults /\ faults' = faults + 1
    /\ lost' = {r \in Revision : Read(r)}
    /\ reader' = [q \in Runner |-> [r \in Revision |-> "none"]]
    /\ runner' = [q \in Runner |-> "none"]
    /\ starting' = [at |-> "idle", revision |-> NoRevision]
    /\ UNCHANGED <<revisionRows, recent, collection>>

DaemonCrash == DaemonEnds /\ UNCHANGED <<files, damaged>>

\* It ends while the old directory is aside and the new one is still staged.
RepairFails(r) ==
    /\ r \in registered /\ Usable(r)
    /\ DaemonEnds
    /\ published' = [published EXCEPT ![r] = "absent"]
    /\ objects' = objects \cup ObjectsOf[r]
    /\ damaged' = [damaged EXCEPT ![r] = "repair"]

DayPasses ==
    /\ recent' = {r \in Revision : Read(r)}
    /\ collection' = [r \in Revision |-> IF collection[r] = "grace" THEN "eligible" ELSE collection[r]]
    /\ collection' # collection \/ recent' # recent
    /\ UNCHANGED <<revisionRows, reader, lost, files, processes, history>>

-----------------------------------------------------------------------------
(* A Start: the current Revision is read and materialized, a runner inspects *)
(* the payload, and the Run is admitted when that runner has ended.         *)

ReadsCurrent(w) ==
    /\ starting.at = "idle" /\ w \in available /\ Materializes(current[w])
    /\ starting' = [at |-> "read", revision |-> current[w]]
    /\ UNCHANGED <<revisionRows, readers, collection, files, runner, history>>

Inspect(q) ==
    /\ starting.at = "read" /\ runner[q] = "none"
    /\ Acquire(q, starting.revision)
    /\ runner' = [runner EXCEPT ![q] = "inspect"]
    /\ starting' = [starting EXCEPT !.at = "inspecting"]
    /\ UNCHANGED <<revisionRows, files, history>>

Admit(x) ==
    /\ starting.at = "inspected" /\ run[x] = NoRevision /\ Usable(starting.revision)
    /\ run' = [run EXCEPT ![x] = starting.revision]
    /\ starting' = [at |-> "idle", revision |-> NoRevision]
    /\ UNCHANGED <<registered, current, available, readers, collection, files, runner, history>>

StartFails ==
    /\ starting.at \in {"read", "inspected"}
    /\ starting' = [at |-> "idle", revision |-> NoRevision]
    /\ UNCHANGED <<revisionRows, readers, collection, files, runner, history>>

-----------------------------------------------------------------------------
(* The runner of a Run, and the runner of the Project's Triggers.           *)

Execute(x, q) ==
    /\ run[x] # NoRevision /\ Materializes(run[x])
    /\ runner[q] = "none" /\ \A p \in Runner : runner[p] # x
    /\ Acquire(q, run[x])
    /\ runner' = [runner EXCEPT ![q] = x]
    /\ UNCHANGED <<revisionRows, files, starting, history>>

\* ensure: a Revision that this runner has disposed of is not loaded again
\* (READER_CONFLICT).
Poll(q, w) ==
    /\ w \in available /\ Materializes(current[w])
    /\ runner[q] \in {"none", "trigger"}
    /\ \A p \in Runner : runner[p] = "trigger" => p = q
    /\ Acquire(q, current[w])
    /\ runner' = [runner EXCEPT ![q] = "trigger"]
    /\ UNCHANGED <<revisionRows, files, starting, history>>

Dispose(q, r) ==
    /\ runner[q] = "trigger" /\ reader[q][r] = "held"
    /\ reader' = [reader EXCEPT ![q][r] = "released"]
    /\ UNCHANGED <<revisionRows, lost, recent, files, processes, history>>
    /\ GraceFor({r})

AdmitEvent(q, r, x) ==
    /\ runner[q] = "trigger" /\ reader[q][r] = "held" /\ run[x] = NoRevision
    /\ Usable(r)
    /\ run' = [run EXCEPT ![x] = r]
    /\ UNCHANGED <<registered, current, available, readers, collection, files, processes, history>>

\* A runner has ended: confirmProcessExit.  Its identity is never used again.
Exit(q) ==
    /\ runner[q] # "none"
    /\ reader' = [reader EXCEPT ![q] = [r \in Revision |-> "none"]]
    /\ runner' = [runner EXCEPT ![q] = "none"]
    /\ starting' = IF runner[q] = "inspect" THEN [starting EXCEPT !.at = "inspected"] ELSE starting
    /\ UNCHANGED <<revisionRows, lost, recent, files, history>>
    /\ GraceFor({r \in Revision : reader[q][r] = "held"})

\* #deleteRunCorrectness, #startRevisionGrace: a Run that is over is deleted.
DeleteRun(x) ==
    /\ run[x] # NoRevision /\ \A q \in Runner : runner[q] # x
    /\ run' = [run EXCEPT ![x] = NoRevision]
    /\ UNCHANGED <<registered, current, available, readers, files, processes, history>>
    /\ \E r \in {run[x]} : collection' = IF Protected(r)' THEN collection
                                         ELSE [collection EXCEPT ![r] = Begun(@)]

RevisionNext ==
    \/ \E g \in Found : Refresh(g) \/ RefreshFails(g)
    \/ \E r \in Revision :
         Details(r) \/ Collect(r) \/ CollectFails(r) \/ Repair(r) \/ RepairFails(r)
    \/ DayPasses
    \/ \E w \in Workflow : ReadsCurrent(w)
    \/ \E q \in Runner :
         \/ Inspect(q) \/ Exit(q)
         \/ \E w \in Workflow : Poll(q, w)
         \/ \E r \in Revision : Dispose(q, r) \/ \E x \in Run : AdmitEvent(q, r, x)
         \/ \E x \in Run : Execute(x, q)
    \/ \E x \in Run : Admit(x) \/ DeleteRun(x)
    \/ StartFails \/ DaemonCrash

RevisionSpec == RevisionInit /\ [][RevisionNext]_revisionVars

-----------------------------------------------------------------------------
RevisionTypeOK ==
    /\ registered \subseteq Revision /\ available \subseteq Workflow
    /\ current \in [Workflow -> Revision \cup {NoRevision}]
    /\ run \in [Run -> Revision \cup {NoRevision}]
    /\ reader \in [Runner -> [Revision -> {"none", "held", "released"}]]
    /\ lost \subseteq Revision /\ recent \subseteq Revision
    /\ damaged \in [Revision -> {"none", "collection", "repair"}]
    /\ collection \in [Revision -> {"none", "grace", "eligible", "collected"}]
    /\ published \in [Revision -> {"absent", "partial", "whole"}]
    /\ objects \subseteq Object
    /\ runner \in [Runner -> {"none", "inspect", "trigger"} \cup Run]
    /\ starting \in [at : {"idle", "read", "inspecting", "inspected"}, revision : Revision \cup {NoRevision}]
    /\ faults \in 0..MaxFaults

(* A Revision that was collected is never used again, and none is collected *)
(* that a Workflow, a Run or a reader has: the guards of five tables and the *)
(* check of the collection keep this together, across a Start that spans a  *)
(* refresh and a collection, a source that returns to an old Revision, and  *)
(* the events of a runner that loaded it long ago.                         *)
CollectedIsUnused == \A r \in Revision : collection[r] = "collected" => ~Protected(r)

(* Whoever uses a Revision finds its content whole: the published directory *)
(* of every Revision that a Run, a reader or an available Workflow has, and *)
(* the shared objects of every registered Revision that was not collected,  *)
(* whatever was collected beside it, but for what an interrupted collection *)
(* or repair has damaged.                                                  *)
UsedIsWhole == \A r \in Revision :
    /\ Protected(r) /\ damaged[r] = "none" => published[r] = "whole"
    /\ r \in registered /\ Usable(r) /\ damaged[r] = "none" => ObjectsOf[r] \subseteq objects

(* The grace period follows the last use by a reader: a Revision is not     *)
(* collected within a day after a runner had it loaded, although its row may *)
(* have been in grace before.                                              *)
GraceFollowsTheLastReader ==
    [][\A r \in recent : Usable(r) => Usable(r)']_revisionVars
=============================================================================
