-------------------------- MODULE ProjectRegistry --------------------------
(***************************************************************************)
(* The registered Projects: their rows and location history                *)
(* (SqliteProjectRepository), the location changes that ProjectApi begins,  *)
(* drains and commits for client requests, the snapshot that notices        *)
(* missing working trees, the Factory Refresh of DaemonComposition, and the *)
(* starts that RunCoordinator admits.  A Project has one Workflow here.     *)
(*                                                                         *)
(* A transaction is one step; what a handler does after an await is another *)
(* one, and a crash of the Daemon ends every handler between two of them.   *)
(* The working trees belong to the user: whenever the code looks at one, it *)
(* finds whatever Tree allows.                                             *)
(***************************************************************************)
EXTENDS Naturals, FiniteSets

CONSTANTS Project,
          Location,  \* canonical Git working-tree roots
          Request,   \* client requests for a location change
          Handler,   \* calls of locationChange in progress, at most that many
          Tree,      \* what a Factory Refresh may find, a subset of Trees
          None       \* no location, no request

Trees == {"empty", "invalid", "manual", "trigger"}

ASSUME RegistryAssumption ==
    /\ Tree \subseteq Trees
    /\ None \notin Location /\ None \notin Request

VARIABLES
    row,       \* projects
    open,      \* locations of the history records that are not released
    workflow,  \* project_workflows
    poller,    \* trigger_pollers
    asked,     \* what a request asks for, once it was sent
    receipt,   \* client_receipts
    held,      \* #projectDispatchHolds
    handler,   \* the calls of locationChange
    snapshot,  \* the call of snapshot: the rows it read, the Projects it holds
    refresh,   \* a Factory Refresh in progress: its Project and the location it read
    start      \* a Start in progress: its Project and the Revision it read

rows == <<row, open, workflow, poller>>
requests == <<asked, receipt>>
memory == <<held, handler, snapshot, refresh, start>>
vars == <<rows, requests, memory>>

NoRow == [state |-> "none", at |-> None, action |-> "none", wanted |-> None, refresh |-> "none"]
NoWorkflow == [activity |-> "inactive", availability |-> "none", mode |-> "none", revision |-> None]
NoHandler == [at |-> "idle", request |-> None]
NoSnapshot == [at |-> "idle", seen |-> {}, hold |-> {}]
NoTask == [project |-> None, read |-> None]

RegistryInit ==
    /\ row = [p \in Project |-> NoRow]
    /\ open = [p \in Project |-> {}]
    /\ workflow = [p \in Project |-> NoWorkflow]
    /\ poller = {}
    /\ asked = [q \in Request |-> None]
    /\ receipt = [q \in Request |-> [status |-> "none", at |-> None]]
    /\ held = {}
    /\ handler = [h \in Handler |-> NoHandler]
    /\ snapshot = NoSnapshot
    /\ refresh = NoTask /\ start = NoTask

Asks(q) == asked[q]
Reserved(l) == {p \in Project : row[p].wanted = l /\ row[p].action \in {"relocate", "restore"}}
Holders(l)  == {p \in Project : row[p].at = l /\ row[p].state \in {"available", "unavailable"}}

\* The columns location_active and location_confirmed follow the state.
Eligible(p) == row[p].state = "available" /\ row[p].action = "none"

-----------------------------------------------------------------------------
(* A Factory is applied: what it no longer names is removed; a Workflow keeps *)
(* the Revision it has unless a new one was captured, and the Trigger state   *)
(* it got when its name was first seen.                                      *)

Applied(p, l, t) ==
    LET w == workflow[p]
        mode == IF w.mode # "none" THEN w.mode ELSE IF t = "trigger" THEN "trigger" ELSE "manual"
    IN CASE t = "empty" ->
              IF w.availability = "none" THEN w ELSE [w EXCEPT !.availability = "removed"]
         [] t = "invalid" -> [w EXCEPT !.availability = "invalid", !.mode = mode]
         [] OTHER -> [w EXCEPT !.availability = "available", !.mode = mode, !.revision = l]

\* What an observation of a location may record: it, or that it failed.
Observes(p, l, t, standing) ==
    /\ row' = [row EXCEPT ![p].refresh = standing]
    /\ workflow' = IF standing = "current"
                   THEN [workflow EXCEPT ![p] = Applied(p, l, t)] ELSE workflow

\* A location that no Project has and none has reserved becomes a new Project;
\* the registration of a location that a Project has changes nothing.  A
\* registration's Factory is applied whatever became of its capture.
Register(p, l) ==
    /\ row[p].state = "none"
    /\ Reserved(l) = {} /\ Holders(l) = {}
    /\ \E standing \in {"current", "failed"}, t \in Tree \cup {"empty"} :
         /\ IF standing = "current" THEN t \in Tree ELSE t = "empty"
         /\ row' = [row EXCEPT ![p] = [state |-> "available", at |-> l, action |-> "none",
                                      wanted |-> None, refresh |-> standing]]
         /\ workflow' = [workflow EXCEPT ![p] = Applied(p, l, t)]
    /\ open' = [open EXCEPT ![p] = {l}]
    /\ UNCHANGED <<poller, requests, memory>>

-----------------------------------------------------------------------------
(* A location change.                                                      *)

Inactivate(ps) ==
    /\ workflow' = [p \in Project |-> IF p \in ps THEN [workflow[p] EXCEPT !.activity = "inactive"]
                                      ELSE workflow[p]]
    /\ poller' = poller \ ps

\* A faulty variant: the reservations of other changes are not looked at.
FaultyMayBegin(p, action, l) ==
    /\ row[p].action = "none" /\ row[p].state # "none"
    /\ (action = "restore") <=> (row[p].state = "archived")
    /\ action # "archive" => Holders(l) \ {p} = {}

MayBegin(p, action, l) ==
    /\ row[p].action = "none" /\ row[p].state # "none"
    /\ (action = "restore") <=> (row[p].state = "archived")
    /\ action # "archive" => (Reserved(l) \cup Holders(l)) \ {p} = {}

\* beginLocationChange of a new request.
Begin(h, q, p, action, l) ==
    /\ handler[h].at = "idle" /\ asked[q] = None
    /\ (action = "archive") <=> (l = None)
    /\ MayBegin(p, action, l)
    /\ asked' = [asked EXCEPT ![q] = [project |-> p, action |-> action, to |-> l]]
    /\ receipt' = [receipt EXCEPT ![q].status = "accepted"]
    /\ row' = [row EXCEPT ![p] = [@ EXCEPT !.action = action, !.wanted = l]]
    /\ Inactivate({p})
    /\ handler' = [handler EXCEPT ![h] = [at |-> "hold", request |-> q]]
    /\ UNCHANGED <<open, held, snapshot, refresh, start>>

\* A request that was accepted is sent again: after an answer was lost, a drain
\* that failed, or a crash.
Resend(h, q) ==
    /\ handler[h].at = "idle" /\ receipt[q].status = "accepted"
    /\ handler' = [handler EXCEPT ![h] = [at |-> "hold", request |-> q]]
    /\ UNCHANGED <<rows, requests, held, snapshot, refresh, start>>

\* drainProject holds the Project's dispatch, and ends when nothing of it is left.
HoldDispatch(h) ==
    /\ handler[h].at = "hold"
    /\ held' = held \cup {Asks(handler[h].request).project}
    /\ handler' = [handler EXCEPT ![h].at = "commit"]
    /\ UNCHANGED <<rows, requests, snapshot, refresh, start>>

\* The drain throws when the recovery or a lease of the Project is not settled, and
\* the commit when the change is lost or the location taken: the request stays
\* accepted, and the dispatch held.
ChangeFails(h) ==
    /\ handler[h].at = "commit"
    /\ handler' = [handler EXCEPT ![h] = NoHandler]
    /\ UNCHANGED <<rows, requests, held, snapshot, refresh, start>>

\* A faulty variant: the record of the prior location stays open.
FaultyMoves(p, action, to) ==
    IF action = "archive" THEN open' = [open EXCEPT ![p] = {}]
    ELSE open' = IF action = "restore" \/ to # row[p].at THEN [open EXCEPT ![p] = @ \cup {to}] ELSE open

\* The location history of a committed change.
Moves(p, action, to) ==
    IF action = "archive" THEN open' = [open EXCEPT ![p] = {}]
    ELSE open' = IF action = "restore" \/ to # row[p].at THEN [open EXCEPT ![p] = {to}] ELSE open

\* commitLocationChange: what the row wants is done, if its action is still the
\* request's; a row whose location another Project has fails on the UNIQUE column.
Commit(h) ==
    LET q == handler[h].request
        p == Asks(q).project
        to == row[p].wanted
        change == row[p].action
    IN /\ handler[h].at = "commit" /\ change = Asks(q).action
       /\ change # "archive" => Holders(to) \subseteq {p}
       /\ Moves(p, change, to)
       /\ row' = [row EXCEPT ![p] =
            IF change = "archive"
            THEN [@ EXCEPT !.state = "archived", !.action = "none", !.wanted = None]
            ELSE [state |-> "available", at |-> to, action |-> "none", wanted |-> None,
                  refresh |-> "pending"]]
       /\ receipt' = [receipt EXCEPT ![q] = [status |-> "committed", at |-> to]]
       /\ handler' = [handler EXCEPT ![h] = IF change = "archive" THEN NoHandler
                                            ELSE [@ EXCEPT !.at = "release"]]
       /\ UNCHANGED <<workflow, poller, asked, held, snapshot, refresh, start>>

ReleaseDispatch(h) ==
    /\ handler[h].at = "release"
    /\ held' = held \ {Asks(handler[h].request).project}
    /\ handler' = [handler EXCEPT ![h] = NoHandler]
    /\ UNCHANGED <<rows, requests, snapshot, refresh, start>>

-----------------------------------------------------------------------------
(* The snapshot notices the working trees that are gone.                   *)

SnapshotReads ==
    /\ snapshot.at = "idle"
    /\ snapshot' = [NoSnapshot EXCEPT !.at = "mark",
                      !.seen = {<<p, row[p].at>> : p \in {x \in Project : row[x].state = "available"}}]
    /\ UNCHANGED <<rows, requests, held, handler, refresh, start>>

\* markMissingLocations takes locations, not Projects.
SnapshotMarks ==
    /\ snapshot.at = "mark"
    /\ \E missing \in SUBSET {s[2] : s \in snapshot.seen} :
         LET lost == {p \in Project : row[p].state = "available" /\ row[p].at \in missing}
         IN /\ row' = [p \in Project |-> IF p \in lost THEN [row[p] EXCEPT !.state = "unavailable"]
                                         ELSE row[p]]
            /\ Inactivate(lost)
            /\ snapshot' = IF missing = {} THEN NoSnapshot
                  ELSE [at |-> "hold", seen |-> {},
                        hold |-> {s[1] : s \in {x \in snapshot.seen : x[2] \in missing}}]
    /\ UNCHANGED <<open, requests, held, handler, refresh, start>>

SnapshotHolds ==
    /\ snapshot.at = "hold"
    /\ held' = held \cup snapshot.hold
    /\ snapshot' = NoSnapshot
    /\ UNCHANGED <<rows, requests, handler, refresh, start>>

-----------------------------------------------------------------------------
(* The Factory Refresh: the location is read with the row, the Factory a     *)
(* quarter of a second and a capture later.                                *)

RefreshBegins(p) ==
    /\ refresh = NoTask /\ row[p].state = "available"
    /\ refresh' = [project |-> p, read |-> row[p].at]
    /\ row' = [row EXCEPT ![p].refresh = "pending"]
    /\ UNCHANGED <<open, workflow, poller, requests, held, handler, snapshot, start>>

RefreshApplies(p) ==
    /\ refresh.project = p
    /\ \E standing \in {"current", "failed", "pending"}, t \in Tree :
         Observes(p, refresh.read, t, standing)
    /\ refresh' = NoTask
    /\ UNCHANGED <<open, poller, requests, held, handler, snapshot, start>>

-----------------------------------------------------------------------------
(* Starts.                                                                 *)

\* A faulty variant: a Project that drains for a location change still starts.
FaultyStartTrigger(p) ==
    /\ row[p].state = "available"
    /\ workflow[p].availability = "available" /\ workflow[p].mode = "trigger"
    /\ workflow' = [workflow EXCEPT ![p].activity = "active"]
    /\ poller' = poller \cup {p}
    /\ UNCHANGED <<row, open, requests, memory>>

\* startActivity of a Workflow with a Trigger.
StartTrigger(p) ==
    /\ Eligible(p) /\ workflow[p].availability = "available" /\ workflow[p].mode = "trigger"
    /\ workflow' = [workflow EXCEPT ![p].activity = "active"]
    /\ poller' = poller \cup {p}
    /\ UNCHANGED <<row, open, requests, memory>>

\* stopActivity, and the end of a manual Workflow's last Run (settleManualActivity).
StopWorkflow(p) ==
    /\ workflow[p].activity = "active"
    /\ Inactivate({p})
    /\ UNCHANGED <<row, open, requests, memory>>

\* admissibleRevision: a Factory Refresh that is pending or failed is waited for.
Admissible(p) ==
    /\ row[p].state = "available" /\ row[p].refresh = "current"
    /\ workflow[p].availability = "available"

\* A Start of a manual Workflow: its Revision is read, a runner inspects the payload ...
StartReads(p) ==
    /\ start = NoTask /\ Admissible(p) /\ workflow[p].mode = "manual"
    /\ start' = [project |-> p, read |-> workflow[p].revision]
    /\ UNCHANGED <<rows, requests, held, handler, snapshot, refresh>>

\* ... and the Run is admitted with that Revision, if the location is eligible and
\* the Revision the client has reviewed is still the Workflow's.
StartAdmits(p) ==
    /\ start.project = p /\ Eligible(p)
    /\ workflow[p].availability = "available" /\ workflow[p].revision = start.read
    /\ workflow' = [workflow EXCEPT ![p].activity = "active"]
    /\ start' = NoTask
    /\ UNCHANGED <<row, open, poller, requests, held, handler, snapshot, refresh>>

StartRefused(p) ==
    /\ start.project = p
    /\ ~Eligible(p) \/ workflow[p].availability # "available" \/ workflow[p].revision # start.read
    /\ start' = NoTask
    /\ UNCHANGED <<rows, requests, held, handler, snapshot, refresh>>

-----------------------------------------------------------------------------
Crash ==
    /\ held' = {} /\ snapshot' = NoSnapshot
    /\ handler' = [h \in Handler |-> NoHandler]
    /\ refresh' = NoTask /\ start' = NoTask
    /\ UNCHANGED <<rows, requests>>

Changes == \E h \in Handler :
    \/ \E q \in Request :
         \/ Resend(h, q)
         \/ \E p \in Project, action \in {"relocate", "archive", "restore"},
               l \in Location \cup {None} : Begin(h, q, p, action, l)
    \/ HoldDispatch(h) \/ ChangeFails(h) \/ Commit(h) \/ ReleaseDispatch(h)

Projects == \E p \in Project :
    \/ \E l \in Location : Register(p, l)
    \/ RefreshBegins(p) \/ RefreshApplies(p)
    \/ StartTrigger(p) \/ StopWorkflow(p) \/ StartReads(p) \/ StartAdmits(p) \/ StartRefused(p)

RegistryNext ==
    \/ Changes \/ Projects
    \/ SnapshotReads \/ SnapshotMarks \/ SnapshotHolds
    \/ Crash

RegistrySpec == RegistryInit /\ [][RegistryNext]_vars

-----------------------------------------------------------------------------
RegistryTypeOK ==
    /\ row \in [Project -> [state : {"none", "available", "unavailable", "archived"},
                            at : Location \cup {None},
                            action : {"none", "relocate", "archive", "restore"},
                            wanted : Location \cup {None},
                            refresh : {"none", "pending", "failed", "current"}]]
    /\ open \in [Project -> SUBSET Location]
    /\ poller \subseteq Project /\ held \subseteq Project

(* A location belongs to one Project: a change that was accepted finds the *)
(* location it reserved free when it commits, and no two Projects that are *)
(* not archived have the same one, whatever was registered, relocated or   *)
(* restored during its drain.                                              *)
LocationsAreExclusive == \A l \in Location :
    /\ Cardinality(Holders(l)) <= 1
    /\ Reserved(l) # {} => Holders(l) \subseteq Reserved(l) /\ Cardinality(Reserved(l)) = 1

(* The location history agrees with the row: a Project has one open record, *)
(* of its location, unless it is archived.                                 *)
HistoryFollowsTheRow == \A p \in Project :
    open[p] = IF row[p].state \in {"available", "unavailable"} THEN {row[p].at} ELSE {}

(* No Workflow is active in a Project whose location is missing, drains or  *)
(* was released, and no poller is left of it, though starts and stops       *)
(* overlap the change; only a Project that is available polls.              *)
QuietProjectsAreInactive == \A p \in Project :
    /\ ~Eligible(p) => workflow[p].activity = "inactive"
    /\ p \in poller => workflow[p].activity = "active" /\ workflow[p].mode = "trigger"
=============================================================================
