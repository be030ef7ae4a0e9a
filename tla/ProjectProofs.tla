--------------------------- MODULE ProjectProofs ---------------------------
(***************************************************************************)
(* Proofs about ProjectRegistry, for any number of Projects, locations,    *)
(* requests and calls: a location is one Project's, the location history   *)
(* is that of the rows, and a Project that is not available does nothing.  *)
(* Proofs about RevisionStore, for any number of Workflows, Revisions,     *)
(* Runs and runners: what is used was not collected and is whole, and the  *)
(* grace period is kept.                                                   *)
(***************************************************************************)
EXTENDS ProjectRegistry, RevisionStore, FiniteSetTheorems, TLAPS

-----------------------------------------------------------------------------
(* The rows, location changes and starts of Projects (ProjectRegistry).     *)

Rows == [state : {"none", "available", "unavailable", "archived"},
         at : Location \cup {None},
         action : {"none", "relocate", "archive", "restore"},
         wanted : Location \cup {None},
         refresh : {"none", "pending", "failed", "current"}]

Workflows == [activity : {"inactive", "active"},
              availability : {"none", "available", "removed", "invalid"},
              mode : {"none", "manual", "trigger"},
              revision : Location \cup {None}]

Asked == [project : Project, action : {"relocate", "archive", "restore"},
          to : Location \cup {None}]

(* A handler at work has a request that was sent, for a Project.           *)
RequestsAreAsked ==
    /\ asked = [q \in Request |-> asked[q]]
    /\ receipt = [q \in Request |-> receipt[q]]
    /\ \A q \in Request : receipt[q] = [status |-> receipt[q].status, at |-> receipt[q].at]
    /\ \A q \in Request : receipt[q].status = "accepted" => asked[q] \in Asked
    /\ handler = [h \in Handler |-> handler[h]]
    /\ \A h \in Handler : handler[h] = [at |-> handler[h].at, request |-> handler[h].request]
    /\ \A h \in Handler : handler[h].at # "idle" =>
          handler[h].request \in Request /\ asked[handler[h].request] \in Asked

(* What a row may have under way, by its state.                            *)
ActionFits(x) ==
    /\ x.action \in {"relocate", "archive"} => x.state \in {"available", "unavailable"}
    /\ x.action = "restore" => x.state = "archived"
    /\ x.action \in {"relocate", "restore"} => x.wanted \in Location
    /\ x.state \in {"available", "unavailable"} => x.at \in Location

Has(x, l) == x.at = l /\ x.state \in {"available", "unavailable"}
Wants(x, l) == x.wanted = l /\ x.action \in {"relocate", "restore"}

(* What two Projects have and want is apart.                               *)
Apart(x, y) == \A l \in Location :
    /\ ~(Has(x, l) /\ Has(y, l)) /\ ~(Wants(x, l) /\ Wants(y, l))
    /\ ~(Wants(x, l) /\ Has(y, l)) /\ ~(Has(x, l) /\ Wants(y, l))

RowsAreApart == \A p, q \in Project : p # q => Apart(row[p], row[q])

RegistryInv ==
    /\ row \in [Project -> Rows]
    /\ workflow \in [Project -> Workflows]
    /\ open \in [Project -> SUBSET Location]
    /\ poller \subseteq Project /\ held \subseteq Project
    /\ refresh.read \in Location \cup {None}
    /\ snapshot.hold \subseteq Project /\ {s[1] : s \in snapshot.seen} \subseteq Project
    /\ RequestsAreAsked
    /\ \A p \in Project : ActionFits(row[p])
    /\ RowsAreApart
    /\ HistoryFollowsTheRow
    /\ QuietProjectsAreInactive

USE RegistryAssumption DEF Rows, Workflows

LEMMA RegistryInvInit == RegistryInit => RegistryInv
<1> SUFFICES ASSUME RegistryInit
             PROVE  RegistryInv
    OBVIOUS
<1>1. /\ row \in [Project -> Rows] /\ workflow \in [Project -> Workflows]
      /\ \A p \in Project : row[p] = NoRow /\ workflow[p] = NoWorkflow /\ open[p] = {}
    BY DEF RegistryInit, NoRow, NoWorkflow
<1>2. RequestsAreAsked
    BY DEF RegistryInit, RequestsAreAsked, NoHandler
<1>3. \A p \in Project : ActionFits(row[p])
    BY <1>1 DEF ActionFits, NoRow
<1>4. RowsAreApart
    BY <1>1 DEF RowsAreApart, Apart, Has, Wants, NoRow
<1>5. HistoryFollowsTheRow /\ QuietProjectsAreInactive
    BY <1>1 DEF RegistryInit, HistoryFollowsTheRow, QuietProjectsAreInactive, NoRow, NoWorkflow
<1> QED
    BY <1>1, <1>2, <1>3, <1>4, <1>5 DEF RegistryInit, RegistryInv, NoTask, NoSnapshot

-----------------------------------------------------------------------------
(* What a change of one row keeps.                                         *)

LEMMA ApartIsSymmetric ==
    ASSUME NEW x, NEW y, Apart(x, y)
    PROVE  Apart(y, x)
    BY DEF Apart

LEMMA OneRowMoves ==
    ASSUME RegistryInv, NEW p \in Project, NEW x \in Rows, row' = [row EXCEPT ![p] = x],
           ActionFits(x), \A q \in Project : q # p => Apart(x, row[q])
    PROVE  /\ row' \in [Project -> Rows] /\ row'[p] = x
           /\ \A q \in Project : q # p => row'[q] = row[q]
           /\ \A q \in Project : ActionFits(row'[q])
           /\ RowsAreApart'
<1>1. /\ row' \in [Project -> Rows] /\ row'[p] = x
      /\ \A q \in Project : q # p => row'[q] = row[q]
    BY DEF RegistryInv
<1>2. \A q \in Project : ActionFits(row'[q])
    BY <1>1 DEF RegistryInv
<1>3. ASSUME NEW q \in Project, NEW r \in Project, q # r
      PROVE  Apart(row'[q], row'[r])
  <2>1. CASE q = p
      BY <1>1, <1>3, <2>1
  <2>2. CASE r = p
      BY <1>1, <1>3, <2>2, ApartIsSymmetric
  <2>3. CASE q # p /\ r # p
      BY <1>1, <1>3, <2>3 DEF RegistryInv, RowsAreApart
  <2> QED
      BY <2>1, <2>2, <2>3
<1> QED
    BY <1>1, <1>2, <1>3 DEF RowsAreApart

(* A step that changes no row, no location and no Workflow's activity.     *)
LEMMA QuietRegistryKeeps ==
    ASSUME RegistryInv, UNCHANGED <<rows, held>>, refresh'.read \in Location \cup {None},
           snapshot'.hold \subseteq Project, {s[1] : s \in snapshot'.seen} \subseteq Project,
           RequestsAreAsked'
    PROVE  RegistryInv'
    BY DEF RegistryInv, rows, RowsAreApart, HistoryFollowsTheRow, QuietProjectsAreInactive, Eligible

LEMMA AppliedIsTyped ==
    ASSUME NEW p \in Project, workflow[p] \in Workflows, NEW l \in Location \cup {None},
           NEW t \in Trees
    PROVE  /\ Applied(p, l, t) \in Workflows
           /\ Applied(p, l, t).activity = workflow[p].activity
           /\ workflow[p].mode # "none" => Applied(p, l, t).mode = workflow[p].mode
<1> DEFINE w == workflow[p]
           mode == IF w.mode # "none" THEN w.mode ELSE IF t = "trigger" THEN "trigger" ELSE "manual"
<1>1. w \in Workflows /\ mode \in {"manual", "trigger"} /\ (w.mode # "none" => mode = w.mode)
    OBVIOUS
<1>2. \/ Applied(p, l, t) = w
      \/ Applied(p, l, t) = [w EXCEPT !.availability = "removed"]
      \/ Applied(p, l, t) = [w EXCEPT !.availability = "invalid", !.mode = mode]
      \/ Applied(p, l, t) = [w EXCEPT !.availability = "available", !.mode = mode, !.revision = l]
  <2>1. CASE t = "empty"
      BY <2>1 DEF Applied
  <2>2. CASE t = "invalid"
      BY <2>2 DEF Applied
  <2>3. CASE t # "empty" /\ t # "invalid"
      BY <2>3 DEF Applied
  <2> QED
      BY <2>1, <2>2, <2>3
<1> HIDE DEF mode
<1> QED
    BY <1>1, <1>2

-----------------------------------------------------------------------------
(* The registration and the Refresh.                                       *)

LEMMA RegisterKeeps ==
    ASSUME RegistryInv, NEW p \in Project, NEW l \in Location, Register(p, l)
    PROVE  RegistryInv'
<1>1. PICK standing \in {"current", "failed"}, t \in Trees :
        /\ row' = [row EXCEPT ![p] = [state |-> "available", at |-> l, action |-> "none",
                                      wanted |-> None, refresh |-> standing]]
        /\ workflow' = [workflow EXCEPT ![p] = Applied(p, l, t)]
    BY DEF Register, Trees
<1> DEFINE x == [state |-> "available", at |-> l, action |-> "none", wanted |-> None,
                 refresh |-> standing]
<1>2. row' = [row EXCEPT ![p] = x] /\ x \in Rows /\ ActionFits(x)
    BY <1>1 DEF ActionFits
<1>3. \A q \in Project : q # p => Apart(x, row[q])
    BY DEF Register, Reserved, Holders, Apart, Has, Wants
<1>4. /\ row' \in [Project -> Rows] /\ row'[p] = x
      /\ \A q \in Project : q # p => row'[q] = row[q]
      /\ \A q \in Project : ActionFits(row'[q])
      /\ RowsAreApart'
    BY <1>2, <1>3, OneRowMoves
<1>5. /\ workflow' \in [Project -> Workflows]
      /\ \A q \in Project : workflow'[q].activity = workflow[q].activity
      /\ \A q \in Project : workflow[q].mode = "trigger" => workflow'[q].mode = "trigger"
  <2>1. /\ Applied(p, l, t) \in Workflows
        /\ Applied(p, l, t).activity = workflow[p].activity
        /\ workflow[p].mode # "none" => Applied(p, l, t).mode = workflow[p].mode
      BY AppliedIsTyped DEF RegistryInv
  <2> QED
      BY <1>1, <2>1 DEF RegistryInv
<1>6. open' = [open EXCEPT ![p] = {l}] /\ row[p].state = "none"
      /\ UNCHANGED <<poller, requests, memory>>
    BY DEF Register
<1>7. HistoryFollowsTheRow'
  <2>1. \A q \in Project : open'[q] = IF q = p THEN {l} ELSE open[q]
      BY <1>6 DEF RegistryInv
  <2>2. row'[p].state = "available" /\ row'[p].at = l
      BY <1>4
  <2> QED
      BY <1>4, <2>1, <2>2 DEF RegistryInv, HistoryFollowsTheRow
<1>8. QuietProjectsAreInactive'
  <2>1. workflow[p].activity = "inactive"
      BY <1>6 DEF RegistryInv, QuietProjectsAreInactive, Eligible
  <2>2. \A q \in Project : q # p => (Eligible(q))' = Eligible(q)
      BY <1>4 DEF Eligible
  <2> QED
      BY <1>5, <1>6, <2>1, <2>2 DEF RegistryInv, QuietProjectsAreInactive
<1> QED
    BY <1>4, <1>5, <1>6, <1>7, <1>8 DEF RegistryInv, RequestsAreAsked, requests, memory

LEMMA RefreshKeeps ==
    ASSUME RegistryInv, NEW p \in Project, RefreshBegins(p) \/ RefreshApplies(p)
    PROVE  RegistryInv'
<1>1. PICK standing \in {"none", "pending", "failed", "current"} :
        row' = [row EXCEPT ![p] = [row[p] EXCEPT !.refresh = standing]]
    BY DEF RefreshBegins, RefreshApplies, Observes, RegistryInv
<1> DEFINE x == [row[p] EXCEPT !.refresh = standing]
<1>2. /\ row' = [row EXCEPT ![p] = x] /\ x \in Rows
      /\ x.state = row[p].state /\ x.at = row[p].at /\ x.action = row[p].action
      /\ x.wanted = row[p].wanted
  <2>1. row[p] \in Rows
      BY DEF RegistryInv
  <2> QED
      BY <1>1, <2>1
<1> HIDE DEF x
<1>3. ActionFits(x) /\ \A q \in Project : q # p => Apart(x, row[q])
    BY <1>2 DEF RegistryInv, ActionFits, RowsAreApart, Apart, Has, Wants
<1>4. /\ row' \in [Project -> Rows] /\ row'[p] = x
      /\ \A q \in Project : q # p => row'[q] = row[q]
      /\ \A q \in Project : ActionFits(row'[q])
      /\ RowsAreApart'
    BY <1>2, <1>3, OneRowMoves
<1>5. /\ workflow' \in [Project -> Workflows]
      /\ \A q \in Project : workflow'[q].activity = workflow[q].activity
      /\ \A q \in Project : workflow[q].mode = "trigger" => workflow'[q].mode = "trigger"
  <2>1. CASE UNCHANGED workflow
      BY <2>1 DEF RegistryInv
  <2>2. ASSUME NEW t \in Trees, workflow' = [workflow EXCEPT ![p] = Applied(p, refresh.read, t)]
        PROVE  <1>5!1 /\ <1>5!2 /\ <1>5!3
    <3>1. /\ Applied(p, refresh.read, t) \in Workflows
          /\ Applied(p, refresh.read, t).activity = workflow[p].activity
          /\ workflow[p].mode # "none" => Applied(p, refresh.read, t).mode = workflow[p].mode
        BY AppliedIsTyped DEF RegistryInv
    <3> QED
        BY <2>2, <3>1 DEF RegistryInv
  <2> QED
      BY <2>1, <2>2 DEF RefreshBegins, RefreshApplies, Observes, Trees
<1>6. /\ UNCHANGED <<open, poller, requests, held, handler, snapshot>>
      /\ refresh'.read \in Location \cup {None}
    BY DEF RefreshBegins, RefreshApplies, RegistryInv, NoTask
<1>7. HistoryFollowsTheRow' /\ QuietProjectsAreInactive'
    BY <1>2, <1>4, <1>5, <1>6 DEF RegistryInv, HistoryFollowsTheRow, QuietProjectsAreInactive, Eligible
<1> QED
    BY <1>4, <1>5, <1>6, <1>7 DEF RegistryInv, RequestsAreAsked, requests

-----------------------------------------------------------------------------
(* The location change.                                                    *)

LEMMA InactivateKeeps ==
    ASSUME RegistryInv, NEW ps \in SUBSET Project, Inactivate(ps)
    PROVE  /\ workflow' \in [Project -> Workflows] /\ poller' \subseteq Project
           /\ \A q \in Project : workflow[q].activity = "inactive" =>
                 workflow'[q].activity = "inactive"
           /\ \A q \in ps : workflow'[q].activity = "inactive"
           /\ \A q \in Project : q \in poller' =>
                 workflow'[q].activity = "active" /\ workflow'[q].mode = "trigger"
<1>1. \A q \in Project : workflow[q] \in Workflows
    BY DEF RegistryInv
<1>2. \A q \in Project : workflow'[q] =
         IF q \in ps THEN [workflow[q] EXCEPT !.activity = "inactive"] ELSE workflow[q]
    BY DEF Inactivate
<1>3. workflow' = [q \in Project |-> workflow'[q]]
    BY DEF Inactivate
<1>4. \A q \in Project : workflow'[q] \in Workflows
    BY <1>1, <1>2
<1>5. \A q \in Project : /\ q \in ps => workflow'[q].activity = "inactive"
                         /\ q \notin ps => workflow'[q] = workflow[q]
    BY <1>1, <1>2
<1> QED
    BY <1>3, <1>4, <1>5 DEF Inactivate, RegistryInv, QuietProjectsAreInactive

LEMMA BeginKeeps ==
    ASSUME RegistryInv, NEW h \in Handler, NEW q \in Request, NEW p \in Project,
           NEW action \in {"relocate", "archive", "restore"}, NEW l \in Location \cup {None},
           Begin(h, q, p, action, l)
    PROVE  RegistryInv'
<1>1. row[p] \in Rows
    BY DEF RegistryInv
<1> DEFINE x == [row[p] EXCEPT !.action = action, !.wanted = l]
<1>2. row' = [row EXCEPT ![p] = x]
    BY DEF Begin
<1>3. /\ x \in Rows
      /\ x.state = row[p].state /\ x.at = row[p].at /\ x.action = action /\ x.wanted = l
    BY <1>1
<1> HIDE DEF x
<1>4. action # "archive" => l \in Location
    BY DEF Begin
<1>5. ActionFits(x)
    BY <1>1, <1>3, <1>4 DEF Begin, MayBegin, ActionFits, RegistryInv
<1>6. \A r \in Project : r # p => Apart(x, row[r])
  <2>1. \A r \in Project : r # p => Apart(row[p], row[r])
      BY DEF RegistryInv, RowsAreApart
  <2>2. ASSUME NEW r \in Project, r # p, action # "archive"
        PROVE  ~Wants(row[r], l) /\ ~Has(row[r], l)
      BY <2>2 DEF Begin, MayBegin, Reserved, Holders, Has, Wants
  <2> QED
      BY <1>3, <2>1, <2>2 DEF Apart, Has, Wants
<1>7. /\ row' \in [Project -> Rows] /\ row'[p] = x
      /\ \A r \in Project : r # p => row'[r] = row[r]
      /\ \A r \in Project : ActionFits(row'[r])
      /\ RowsAreApart'
    BY <1>2, <1>3, <1>5, <1>6, OneRowMoves
<1>9. Inactivate({p}) /\ UNCHANGED <<open, held, snapshot, refresh>>
    BY DEF Begin
<1>10. /\ workflow' \in [Project -> Workflows] /\ poller' \subseteq Project
       /\ \A r \in Project : workflow[r].activity = "inactive" =>
             workflow'[r].activity = "inactive"
       /\ workflow'[p].activity = "inactive"
       /\ \A r \in Project : r \in poller' =>
             workflow'[r].activity = "active" /\ workflow'[r].mode = "trigger"
    BY <1>9, InactivateKeeps
<1>11. HistoryFollowsTheRow'
    BY <1>3, <1>7, <1>9 DEF RegistryInv, HistoryFollowsTheRow
<1>12. QuietProjectsAreInactive'
    BY <1>3, <1>7, <1>10 DEF RegistryInv, QuietProjectsAreInactive, Eligible
<1>13. RequestsAreAsked'
  <2>1. /\ asked' = [asked EXCEPT ![q] = [project |-> p, action |-> action, to |-> l]]
        /\ receipt' = [receipt EXCEPT ![q].status = "accepted"]
        /\ handler' = [handler EXCEPT ![h] = [at |-> "hold", request |-> q]]
      BY DEF Begin
  <2>2. /\ asked' = [r \in Request |-> asked'[r]] /\ asked'[q] \in Asked
        /\ \A r \in Request : r # q => asked'[r] = asked[r]
      BY <2>1 DEF RegistryInv, RequestsAreAsked, Asked
  <2>3. receipt[q] = [status |-> receipt[q].status, at |-> receipt[q].at]
      BY DEF RegistryInv, RequestsAreAsked
  <2>4. /\ receipt' = [r \in Request |-> receipt'[r]]
        /\ receipt'[q] = [status |-> "accepted", at |-> receipt[q].at]
        /\ \A r \in Request : r # q => receipt'[r] = receipt[r]
      BY <2>1, <2>3 DEF RegistryInv, RequestsAreAsked
  <2>5. \A r \in Request : receipt'[r] = [status |-> receipt'[r].status, at |-> receipt'[r].at]
      BY <2>4 DEF RegistryInv, RequestsAreAsked
  <2>6. /\ handler' = [g \in Handler |-> handler'[g]]
        /\ handler'[h] = [at |-> "hold", request |-> q]
        /\ \A g \in Handler : g # h => handler'[g] = handler[g]
      BY <2>1 DEF RegistryInv, RequestsAreAsked
  <2>7. \A g \in Handler : handler'[g] = [at |-> handler'[g].at, request |-> handler'[g].request]
      BY <2>6 DEF RegistryInv, RequestsAreAsked
  <2>8. \A r \in Request : asked[r] \in Asked => asked'[r] \in Asked
      BY <2>2
  <2>9. \A r \in Request : receipt'[r].status = "accepted" => asked'[r] \in Asked
      BY <2>2, <2>4 DEF RegistryInv, RequestsAreAsked
  <2>10. \A g \in Handler : handler'[g].at # "idle" =>
            handler'[g].request \in Request /\ asked'[handler'[g].request] \in Asked
      BY <2>2, <2>6, <2>8 DEF RegistryInv, RequestsAreAsked
  <2> QED
      BY <2>2, <2>4, <2>5, <2>6, <2>7, <2>9, <2>10 DEF RequestsAreAsked
<1> QED
    BY <1>7, <1>9, <1>10, <1>11, <1>12, <1>13 DEF RegistryInv

(* A handler goes on with a request that was asked.                        *)
LEMMA HandlerGoesOn ==
    ASSUME RequestsAreAsked, NEW h \in Handler, NEW at, NEW q, UNCHANGED asked,
           receipt' = [r \in Request |-> receipt'[r]],
           \A r \in Request :
              /\ receipt'[r] = [status |-> receipt'[r].status, at |-> receipt'[r].at]
              /\ receipt'[r].status = "accepted" => asked[r] \in Asked,
           handler' = [handler EXCEPT ![h] = [at |-> at, request |-> q]],
           at # "idle" => q \in Request /\ asked[q] \in Asked
    PROVE  RequestsAreAsked'
<1>1. /\ handler' = [g \in Handler |-> handler'[g]]
      /\ handler'[h] = [at |-> at, request |-> q]
      /\ \A g \in Handler : g # h => handler'[g] = handler[g]
    BY DEF RequestsAreAsked
<1>2. \A g \in Handler : handler'[g] = [at |-> handler'[g].at, request |-> handler'[g].request]
    BY <1>1 DEF RequestsAreAsked
<1> QED
    BY <1>1, <1>2 DEF RequestsAreAsked

LEMMA QuietHandlersKeep ==
    ASSUME RegistryInv, NEW h \in Handler,
           (\E q \in Request : Resend(h, q)) \/ HoldDispatch(h) \/ ChangeFails(h)
              \/ ReleaseDispatch(h)
    PROVE  RegistryInv'
<1>1. UNCHANGED <<rows, requests, snapshot, refresh>>
    BY DEF Resend, HoldDispatch, ChangeFails, ReleaseDispatch
<1>2. handler[h] = [at |-> handler[h].at, request |-> handler[h].request]
    BY DEF RegistryInv, RequestsAreAsked
<1>3. PICK at, q : /\ handler' = [handler EXCEPT ![h] = [at |-> at, request |-> q]]
                   /\ at # "idle" => q \in Request /\ asked[q] \in Asked
  <2>1. CASE \E q \in Request : Resend(h, q)
      BY <2>1 DEF Resend, RegistryInv, RequestsAreAsked
  <2>2. CASE HoldDispatch(h)
    <3>1. handler' = [handler EXCEPT ![h] = [at |-> "commit", request |-> handler[h].request]]
      <4>1. handler' = [handler EXCEPT ![h] = [handler[h] EXCEPT !.at = "commit"]]
          BY <2>2 DEF HoldDispatch
      <4>2. [handler[h] EXCEPT !.at = "commit"] = [at |-> "commit", request |-> handler[h].request]
          BY <1>2
      <4> QED
          BY <4>1, <4>2
    <3>2. handler[h].request \in Request /\ asked[handler[h].request] \in Asked
        BY <2>2 DEF HoldDispatch, RegistryInv, RequestsAreAsked
    <3> QED
        BY <3>1, <3>2
  <2>3. CASE ChangeFails(h) \/ ReleaseDispatch(h)
      BY <2>3 DEF ChangeFails, ReleaseDispatch, NoHandler
  <2> QED
      BY <2>1, <2>2, <2>3
<1>4. RequestsAreAsked'
  <2>1. UNCHANGED <<asked, receipt>> /\ RequestsAreAsked
      BY <1>1 DEF RegistryInv, requests
  <2> QED
      BY <1>3, <2>1, HandlerGoesOn DEF RequestsAreAsked
<1>5. held' \subseteq Project
    BY DEF Resend, HoldDispatch, ChangeFails, ReleaseDispatch, Asks, Asked, RegistryInv,
       RequestsAreAsked
<1> QED
    BY <1>1, <1>4, <1>5 DEF RegistryInv, rows, RowsAreApart, HistoryFollowsTheRow,
       QuietProjectsAreInactive, Eligible

(* What is committed was wanted and reserved, so nobody else has it.       *)
LEMMA CommitKeeps ==
    ASSUME RegistryInv, NEW h \in Handler, Commit(h)
    PROVE  RegistryInv'
<1> DEFINE q == handler[h].request
           p == asked[q].project
           change == row[p].action
<1>1. q \in Request /\ p \in Project /\ change \in {"relocate", "archive", "restore"}
    BY DEF Commit, RegistryInv, RequestsAreAsked, Asked, Asks
<1>2. row[p] \in Rows /\ ActionFits(row[p])
    BY <1>1 DEF RegistryInv
<1>3. PICK x \in Rows : /\ row' = [row EXCEPT ![p] = x]
                        /\ x.action = "none" /\ x.state \in {"available", "archived"}
                        /\ x.state = "archived" <=> change = "archive"
                        /\ x.state = "available" => x.at = row[p].wanted /\ x.at \in Location
  <2>1. CASE change = "archive"
    <3>1. [row[p] EXCEPT !.state = "archived", !.action = "none", !.wanted = None] \in Rows
        BY <1>2
    <3>2. row' = [row EXCEPT ![p] =
                    [row[p] EXCEPT !.state = "archived", !.action = "none", !.wanted = None]]
        BY <2>1 DEF Commit, Asks
    <3> QED
        BY <1>2, <2>1, <3>1, <3>2
  <2>2. CASE change # "archive"
    <3>1. row[p].wanted \in Location
        BY <1>1, <1>2, <2>2 DEF ActionFits
    <3>2. row' = [row EXCEPT ![p] =
                    [state |-> "available", at |-> row[p].wanted, action |-> "none",
                     wanted |-> None, refresh |-> "pending"]]
        BY <2>2 DEF Commit, Asks
    <3> DEFINE y == [state |-> "available", at |-> row[p].wanted, action |-> "none",
                     wanted |-> None, refresh |-> "pending"]
    <3>3. y \in Rows /\ y.action = "none" /\ y.state = "available" /\ y.at = row[p].wanted
        BY <3>1
    <3>4. row' = [row EXCEPT ![p] = y]
        BY <3>2
    <3> HIDE DEF y
    <3> QED
        BY <2>2, <3>1, <3>3, <3>4
  <2> QED
      BY <2>1, <2>2
<1>4. \A r \in Project : r # p => Apart(x, row[r])
  <2>1. ASSUME NEW r \in Project, r # p, x.state = "available"
        PROVE  Apart(x, row[r])
    <3>1. Apart(row[p], row[r])
        BY <1>1, <2>1 DEF RegistryInv, RowsAreApart
    <3>2. Wants(row[p], x.at)
        BY <1>1, <1>3, <2>1 DEF Wants
    <3>3. ~Has(row[r], x.at)
        BY <1>1, <1>3, <2>1 DEF Commit, Asks, Holders, Has
    <3>4. ~Wants(row[r], x.at)
        BY <1>3, <2>1, <3>1, <3>2 DEF Apart
    <3> QED
        BY <1>3, <2>1, <3>3, <3>4 DEF Apart, Has, Wants
  <2>2. ASSUME x.state = "archived", NEW r \in Project
        PROVE  Apart(x, row[r])
      BY <1>3, <2>2 DEF Apart, Has, Wants
  <2> QED
      BY <1>3, <2>1, <2>2
<1>5. ActionFits(x)
    BY <1>3 DEF ActionFits
<1>6. /\ row' \in [Project -> Rows] /\ row'[p] = x
      /\ \A r \in Project : r # p => row'[r] = row[r]
      /\ \A r \in Project : ActionFits(row'[r])
      /\ RowsAreApart'
    BY <1>1, <1>3, <1>4, <1>5, OneRowMoves
<1>7. UNCHANGED <<workflow, poller, asked, held, snapshot, refresh>>
    BY DEF Commit
<1>8. /\ open' \in [Project -> SUBSET Location]
      /\ open'[p] = IF x.state = "available" THEN {x.at} ELSE {}
      /\ \A r \in Project : r # p => open'[r] = open[r]
  <2>1. Moves(p, change, row[p].wanted)
      BY DEF Commit, Asks
  <2>2. open \in [Project -> SUBSET Location]
      BY DEF RegistryInv
  <2>3. CASE change = "archive"
    <3>1. open' = [open EXCEPT ![p] = {}] /\ x.state # "available"
        BY <1>3, <2>1, <2>3 DEF Moves
    <3>2. open' \in [Project -> SUBSET Location] /\ open'[p] = {}
        BY <1>1, <2>2, <3>1
    <3>3. \A r \in Project : r # p => open'[r] = open[r]
        BY <2>2, <3>1
    <3> QED
        BY <3>1, <3>2, <3>3
  <2>4. CASE change # "archive" /\ (change = "restore" \/ row[p].wanted # row[p].at)
    <3>1. open' = [open EXCEPT ![p] = {x.at}] /\ x.state = "available" /\ x.at \in Location
        BY <1>1, <1>3, <2>1, <2>4 DEF Moves
    <3>2. open' \in [Project -> SUBSET Location] /\ open'[p] = {x.at}
        BY <1>1, <2>2, <3>1
    <3>3. \A r \in Project : r # p => open'[r] = open[r]
        BY <2>2, <3>1
    <3> QED
        BY <3>1, <3>2, <3>3
  <2>5. CASE change = "relocate" /\ row[p].wanted = row[p].at
    <3>1. open' = open
        BY <2>1, <2>5 DEF Moves
    <3>2. row[p].state \in {"available", "unavailable"} /\ open[p] = {row[p].at}
        BY <1>1, <1>2, <2>5 DEF ActionFits, RegistryInv, HistoryFollowsTheRow
    <3> QED
        BY <1>1, <1>3, <2>2, <2>5, <3>1, <3>2
  <2> QED
      BY <1>1, <2>3, <2>4, <2>5
<1>9. HistoryFollowsTheRow'
    BY <1>3, <1>6, <1>8 DEF RegistryInv, HistoryFollowsTheRow
<1>10. QuietProjectsAreInactive'
    BY <1>1, <1>6, <1>7 DEF RegistryInv, QuietProjectsAreInactive, Eligible
<1>11. RequestsAreAsked'
  <2>1. /\ receipt' = [receipt EXCEPT ![q] = [status |-> "committed", at |-> row[p].wanted]]
        /\ handler' = [handler EXCEPT ![h] = IF change = "archive" THEN NoHandler
                                             ELSE [handler[h] EXCEPT !.at = "release"]]
        /\ UNCHANGED asked
      BY DEF Commit, Asks
  <2>2. handler[h] = [at |-> handler[h].at, request |-> q] /\ asked[q] \in Asked
      BY DEF Commit, RegistryInv, RequestsAreAsked
  <2>3. [handler[h] EXCEPT !.at = "release"] = [at |-> "release", request |-> q]
      BY <2>2
  <2>4. PICK at, asker : /\ handler' = [handler EXCEPT ![h] = [at |-> at, request |-> asker]]
                         /\ at # "idle" => asker \in Request /\ asked[asker] \in Asked
    <3>1. CASE handler' = [handler EXCEPT ![h] = NoHandler]
        BY <3>1 DEF NoHandler
    <3>2. CASE handler' = [handler EXCEPT ![h] = [at |-> "release", request |-> q]]
        BY <1>1, <2>2, <3>2
    <3> QED
        BY <2>1, <2>3, <3>1, <3>2
  <2>5. /\ receipt' = [r \in Request |-> receipt'[r]]
        /\ receipt'[q] = [status |-> "committed", at |-> row[p].wanted]
        /\ \A r \in Request : r # q => receipt'[r] = receipt[r]
      BY <1>1, <2>1 DEF RegistryInv, RequestsAreAsked
  <2>6. \A r \in Request : /\ receipt'[r] = [status |-> receipt'[r].status, at |-> receipt'[r].at]
                           /\ receipt'[r].status = "accepted" => asked[r] \in Asked
      BY <2>1, <2>5 DEF RegistryInv, RequestsAreAsked
  <2>7. RequestsAreAsked /\ UNCHANGED asked /\ receipt' = [r \in Request |-> receipt'[r]]
      BY <2>1, <2>5 DEF RegistryInv
  <2> HIDE DEF q, p, change
  <2> QED
      BY <2>4, <2>6, <2>7, HandlerGoesOn
<1> QED
    BY <1>6, <1>7, <1>8, <1>9, <1>10, <1>11 DEF RegistryInv

-----------------------------------------------------------------------------
(* The snapshot.                                                           *)

LEMMA SnapshotReadsAndHolds ==
    ASSUME RegistryInv, SnapshotReads \/ SnapshotHolds
    PROVE  RegistryInv'
<1>1. UNCHANGED <<rows, requests, handler, refresh>>
    BY DEF SnapshotReads, SnapshotHolds
<1>2. held' \subseteq Project
    BY DEF SnapshotReads, SnapshotHolds, RegistryInv
<1>3. snapshot'.hold \subseteq Project /\ {s[1] : s \in snapshot'.seen} \subseteq Project
  <2>1. CASE SnapshotReads
    <3> DEFINE seen == {<<p, row[p].at>> : p \in {x \in Project : row[x].state = "available"}}
    <3>1. snapshot' = [at |-> "mark", seen |-> seen, hold |-> {}]
        BY <2>1 DEF SnapshotReads, NoSnapshot
    <3>2. {s[1] : s \in seen} \subseteq Project
        OBVIOUS
    <3> HIDE DEF seen
    <3> QED
        BY <3>1, <3>2
  <2>2. CASE SnapshotHolds
      BY <2>2 DEF SnapshotHolds, NoSnapshot
  <2> QED
      BY <2>1, <2>2
<1>4. RequestsAreAsked'
    BY <1>1 DEF RegistryInv, RequestsAreAsked, requests
<1> QED
    BY <1>1, <1>2, <1>3, <1>4 DEF RegistryInv, rows, RowsAreApart, HistoryFollowsTheRow,
       QuietProjectsAreInactive, Eligible

(* A missing location is still its Project's.                              *)
LEMMA SnapshotMarksKeep ==
    ASSUME RegistryInv, SnapshotMarks
    PROVE  RegistryInv'
<1>1. PICK missing : 
        LET gone == {p \in Project : row[p].state = "available" /\ row[p].at \in missing}
        IN /\ row' = [p \in Project |-> IF p \in gone THEN [row[p] EXCEPT !.state = "unavailable"]
                                        ELSE row[p]]
           /\ Inactivate(gone)
           /\ snapshot' = IF missing = {} THEN NoSnapshot
                 ELSE [at |-> "hold", seen |-> {},
                       hold |-> {s[1] : s \in {x \in snapshot.seen : x[2] \in missing}}]
    BY DEF SnapshotMarks
<1> DEFINE gone == {p \in Project : row[p].state = "available" /\ row[p].at \in missing}
<1>2. \A p \in Project :
         /\ row[p] \in Rows
         /\ row'[p] = IF p \in gone THEN [row[p] EXCEPT !.state = "unavailable"] ELSE row[p]
    BY <1>1 DEF RegistryInv
<1>3. \A p \in Project :
         /\ row'[p] \in Rows
         /\ row'[p].at = row[p].at /\ row'[p].action = row[p].action
         /\ row'[p].wanted = row[p].wanted
         /\ row'[p].state = IF p \in gone THEN "unavailable" ELSE row[p].state
         /\ p \in gone => row[p].state = "available"
    BY <1>2
<1>4. gone \in SUBSET Project /\ Inactivate(gone)
    BY <1>1
<1>5. row' = [p \in Project |-> row'[p]]
    BY <1>1
<1>6. snapshot'.hold \subseteq Project /\ {s[1] : s \in snapshot'.seen} \subseteq Project
  <2>1. CASE missing = {}
      BY <1>1, <2>1 DEF NoSnapshot
  <2>2. CASE missing # {}
    <3> DEFINE hold == {s[1] : s \in {x \in snapshot.seen : x[2] \in missing}}
    <3>1. snapshot' = [at |-> "hold", seen |-> {}, hold |-> hold]
        BY <1>1, <2>2
    <3>2. hold \subseteq {s[1] : s \in snapshot.seen}
        OBVIOUS
    <3> HIDE DEF hold
    <3> QED
        BY <3>1, <3>2 DEF RegistryInv
  <2> QED
      BY <2>1, <2>2
<1> HIDE DEF gone
<1>7. row' \in [Project -> Rows] /\ \A p \in Project : ActionFits(row'[p])
    BY <1>3, <1>5 DEF RegistryInv, ActionFits
<1>8. RowsAreApart'
  <2>1. \A p \in Project : \A l : /\ Has(row'[p], l) <=> Has(row[p], l)
                                  /\ Wants(row'[p], l) <=> Wants(row[p], l)
      BY <1>3 DEF Has, Wants
  <2> QED
      BY <2>1 DEF RegistryInv, RowsAreApart, Apart
<1>9. UNCHANGED <<open, requests, held, handler, refresh>>
    BY DEF SnapshotMarks
<1>10. HistoryFollowsTheRow'
    BY <1>3, <1>9 DEF RegistryInv, HistoryFollowsTheRow
<1>11. /\ workflow' \in [Project -> Workflows] /\ poller' \subseteq Project
       /\ \A q \in Project : workflow[q].activity = "inactive" =>
             workflow'[q].activity = "inactive"
       /\ \A q \in gone : workflow'[q].activity = "inactive"
       /\ \A q \in Project : q \in poller' =>
             workflow'[q].activity = "active" /\ workflow'[q].mode = "trigger"
    BY <1>4, InactivateKeeps
<1>12. QuietProjectsAreInactive'
    BY <1>3, <1>11 DEF RegistryInv, QuietProjectsAreInactive, Eligible
<1>13. RequestsAreAsked'
    BY <1>9 DEF RegistryInv, RequestsAreAsked, requests
<1> QED
    BY <1>6, <1>7, <1>8, <1>9, <1>10, <1>11, <1>12, <1>13 DEF RegistryInv

-----------------------------------------------------------------------------
(* Starts, stops and the crash.                                            *)

LEMMA StartsKeep ==
    ASSUME RegistryInv, NEW p \in Project,
           StartTrigger(p) \/ StartAdmits(p)
    PROVE  RegistryInv'
<1>1. /\ workflow' = [workflow EXCEPT ![p].activity = "active"] /\ Eligible(p)
      /\ UNCHANGED <<row, open, requests, held, handler, snapshot, refresh>>
      /\ poller' = poller \/ (poller' = poller \cup {p} /\ workflow[p].mode = "trigger")
    BY DEF StartTrigger, StartAdmits, memory
<1>2. workflow[p] \in Workflows
    BY DEF RegistryInv
<1>3. /\ workflow' \in [Project -> Workflows]
      /\ workflow'[p].activity = "active" /\ workflow'[p].mode = workflow[p].mode
      /\ \A q \in Project : q # p => workflow'[q] = workflow[q]
    BY <1>1, <1>2 DEF RegistryInv
<1>4. QuietProjectsAreInactive'
    BY <1>1, <1>3 DEF RegistryInv, QuietProjectsAreInactive, Eligible
<1> QED
    BY <1>1, <1>3, <1>4 DEF RegistryInv, RequestsAreAsked, RowsAreApart, HistoryFollowsTheRow,
       requests

LEMMA StopsKeep ==
    ASSUME RegistryInv, NEW p \in Project, StopWorkflow(p)
    PROVE  RegistryInv'
<1>1. Inactivate({p}) /\ UNCHANGED <<row, open, requests, memory>>
    BY DEF StopWorkflow
<1>2. /\ workflow' \in [Project -> Workflows] /\ poller' \subseteq Project
      /\ \A q \in Project : workflow[q].activity = "inactive" =>
            workflow'[q].activity = "inactive"
      /\ \A q \in Project : q \in poller' =>
            workflow'[q].activity = "active" /\ workflow'[q].mode = "trigger"
    BY <1>1, InactivateKeeps
<1>3. QuietProjectsAreInactive'
    BY <1>1, <1>2 DEF RegistryInv, QuietProjectsAreInactive, Eligible
<1> QED
    BY <1>1, <1>2, <1>3 DEF RegistryInv, RequestsAreAsked, RowsAreApart, HistoryFollowsTheRow,
       requests, memory

LEMMA TasksKeep ==
    ASSUME RegistryInv,
           (\E p \in Project : StartReads(p) \/ StartRefused(p)) \/ Crash \/ UNCHANGED vars
    PROVE  RegistryInv'
<1>1. UNCHANGED <<rows, requests>> /\ (UNCHANGED held \/ held' = {})
    BY DEF StartReads, StartRefused, Crash, vars, memory
<1>2. UNCHANGED refresh \/ refresh' = NoTask
    BY DEF StartReads, StartRefused, Crash, vars, memory
<1>3. UNCHANGED snapshot \/ snapshot' = NoSnapshot
    BY DEF StartReads, StartRefused, Crash, vars, memory
<1>4. RequestsAreAsked'
  <2>1. UNCHANGED handler \/ handler' = [h \in Handler |-> NoHandler]
      BY DEF StartReads, StartRefused, Crash, vars, memory
  <2> QED
      BY <1>1, <2>1 DEF RegistryInv, RequestsAreAsked, requests, NoHandler
<1>5. /\ refresh'.read \in Location \cup {None}
      /\ snapshot'.hold \subseteq Project /\ {s[1] : s \in snapshot'.seen} \subseteq Project
    BY <1>2, <1>3 DEF RegistryInv, NoTask, NoSnapshot
<1> QED
    BY <1>1, <1>4, <1>5 DEF RegistryInv, rows, RowsAreApart, HistoryFollowsTheRow,
       QuietProjectsAreInactive, Eligible

-----------------------------------------------------------------------------
(* The invariant of every step.                                            *)
LEMMA RegistryInvNext == RegistryInv /\ [RegistryNext]_vars => RegistryInv'
<1> SUFFICES ASSUME RegistryInv, [RegistryNext]_vars
             PROVE  RegistryInv'
    OBVIOUS
<1>1. CASE Changes
    BY <1>1, BeginKeeps, QuietHandlersKeep, CommitKeeps DEF Changes
<1>2. CASE Projects
    BY <1>2, RegisterKeeps, RefreshKeeps, StartsKeep, StopsKeep, TasksKeep DEF Projects
<1>3. CASE SnapshotReads \/ SnapshotMarks \/ SnapshotHolds
    BY <1>3, SnapshotReadsAndHolds, SnapshotMarksKeep
<1>4. CASE Crash \/ UNCHANGED vars
    BY <1>4, TasksKeep
<1> QED
    BY <1>1, <1>2, <1>3, <1>4 DEF RegistryNext

LEMMA RegistryStaysSound == RegistrySpec => []RegistryInv
    BY RegistryInvInit, RegistryInvNext, PTL DEF RegistrySpec

(* Type correctness, for any number of Projects and calls.                 *)
THEOREM RegistryTypes == RegistrySpec => []RegistryTypeOK
<1>1. RegistryInv => RegistryTypeOK
    BY DEF RegistryInv, RegistryTypeOK
<1> QED
    BY <1>1, RegistryStaysSound, PTL

(* Whatever is registered, relocated, restored and archived at once, a     *)
(* location has one Project, and a reserved one is free for who reserved it.*)
THEOREM LocationsAreOneProjects == RegistrySpec => []LocationsAreExclusive
<1>1. ASSUME RegistryInv, NEW l \in Location
      PROVE  /\ Cardinality(Holders(l)) <= 1
             /\ Reserved(l) # {} => Holders(l) \subseteq Reserved(l) /\ Cardinality(Reserved(l)) = 1
  <2>1. \A p, q \in Project : p # q =>
           /\ ~(Has(row[p], l) /\ Has(row[q], l)) /\ ~(Wants(row[p], l) /\ Wants(row[q], l))
           /\ ~(Wants(row[p], l) /\ Has(row[q], l))
      BY <1>1 DEF RegistryInv, RowsAreApart, Apart
  <2>2. \A p, q \in Holders(l) : p = q
      BY <2>1 DEF Holders, Has
  <2>3. \A p, q \in Reserved(l) : p = q
      BY <2>1 DEF Reserved, Wants
  <2>4. ASSUME NEW p \in Reserved(l), NEW q \in Holders(l)
        PROVE  p = q
      BY <2>1, <2>4 DEF Reserved, Holders, Wants, Has
  <2>5. Cardinality(Holders(l)) <= 1
    <3>1. CASE Holders(l) = {}
        BY <3>1, FS_EmptySet
    <3>2. ASSUME NEW p \in Holders(l)
          PROVE  Cardinality(Holders(l)) <= 1
      <4>1. Holders(l) = {p}
          BY <2>2
      <4> QED
          BY <4>1, FS_Singleton
    <3> QED
        BY <3>1, <3>2
  <2>6. ASSUME NEW p \in Reserved(l)
        PROVE  Cardinality(Reserved(l)) = 1 /\ Holders(l) \subseteq Reserved(l)
    <3>1. Reserved(l) = {p}
        BY <2>3
    <3> QED
        BY <2>4, <3>1, FS_Singleton
  <2> QED
      BY <2>5, <2>6
<1>2. RegistryInv => LocationsAreExclusive
    BY <1>1 DEF LocationsAreExclusive
<1> QED
    BY <1>2, RegistryStaysSound, PTL

(* The location history is that of the row at every moment.                *)
THEOREM HistoriesFollow == RegistrySpec => []HistoryFollowsTheRow
<1>1. RegistryInv => HistoryFollowsTheRow
    BY DEF RegistryInv
<1> QED
    BY <1>1, RegistryStaysSound, PTL

(* However starts, stops, Refreshes, crashes and snapshots overlap location *)
(* changes, nothing of a Project is active that is not available.          *)
THEOREM QuietProjectsStayInactive == RegistrySpec => []QuietProjectsAreInactive
<1>1. RegistryInv => QuietProjectsAreInactive
    BY DEF RegistryInv
<1> QED
    BY <1>1, RegistryStaysSound, PTL

-----------------------------------------------------------------------------
(* The retained Workflow Revisions (RevisionStore).                         *)

(* Who reads a Revision does so with its grace period over, and a Revision *)
(* that was read within a day is not eligible for a collection.            *)
ReadersAreFresh ==
    /\ \A r \in Revision : Read(r) => r \in recent /\ r \in registered /\ collection[r] = "none"
    /\ \A r \in recent : collection[r] # "eligible"

UsesAreRegistered ==
    /\ \A w \in available : current[w] \in registered /\ Usable(current[w])
    /\ \A x \in Run : run[x] # NoRevision => run[x] \in registered /\ Usable(run[x])
    /\ starting.at # "idle" => starting.revision \in registered

(* The one runner that inspects is that of the Start.                      *)
OneInspection ==
    /\ \A q \in Runner : runner[q] = "inspect" => starting.at = "inspecting"
    /\ \A p, q \in Runner : runner[p] = "inspect" /\ runner[q] = "inspect" => p = q

(* What was registered is whole, and what was not has no directory in part. *)
WholeFor(r, files_, objects_) == files_[r] = "whole" /\ ObjectsOf[r] \subseteq objects_

FilesAreWhole ==
    /\ \A r \in registered : Usable(r) /\ damaged[r] = "none" => WholeFor(r, published, objects)
    /\ \A r \in Revision : r \notin registered => published[r] # "partial"

RowsInv == ReadersAreFresh /\ UsesAreRegistered /\ OneInspection

RevisionInv == RevisionTypeOK /\ RowsInv /\ FilesAreWhole

(* One step of GraceFollowsTheLastReader.                                  *)
GraceKept == \A r \in recent : Usable(r) => Usable(r)'

USE RevisionAssumption DEF RevisionTypeOK

LEMMA RevisionInvInit == RevisionInit => RevisionInv
<1> SUFFICES ASSUME RevisionInit
             PROVE  RevisionInv
    OBVIOUS
<1>1. RevisionTypeOK
    BY DEF RevisionInit
<1>2. ReadersAreFresh
    BY DEF RevisionInit, ReadersAreFresh, Read
<1>3. UsesAreRegistered /\ OneInspection /\ FilesAreWhole
    BY DEF RevisionInit, UsesAreRegistered, OneInspection, FilesAreWhole
<1> QED
    BY <1>1, <1>2, <1>3 DEF RevisionInv, RowsInv

-----------------------------------------------------------------------------
(* What the helpers keep.                                                  *)

(* How a step that collects nothing may move the rows of collection.       *)
CollectionMoves ==
    /\ collection' \in [Revision -> {"none", "grace", "eligible", "collected"}]
    /\ \A r \in Revision :
          /\ collection'[r] = "collected" <=> collection[r] = "collected"
          /\ collection'[r] = "eligible" => collection[r] = "eligible"
          /\ Read(r)' /\ collection[r] = "none" => collection'[r] = "none"

LEMMA GraceMoves ==
    ASSUME RevisionTypeOK, NEW rs, GraceFor(rs)
    PROVE  CollectionMoves
<1> DEFINE old(r) == collection[r]
<1>1. \A r \in Revision : /\ old(r) \in {"none", "grace", "eligible", "collected"}
                          /\ Read(r)' => Protected(r)'
    BY DEF Protected
<1>2. collection' = [r \in Revision |-> collection'[r]]
    BY DEF GraceFor
<1>3. \A r \in Revision :
         \/ collection'[r] = old(r)
         \/ collection'[r] = Reset(old(r))
         \/ collection'[r] = Begun(old(r)) /\ ~Protected(r)'
    BY DEF GraceFor
<1>4. \A r \in Revision : /\ collection'[r] \in {"none", "grace", "eligible", "collected"}
                          /\ collection'[r] = "collected" <=> old(r) = "collected"
                          /\ collection'[r] = "eligible" => old(r) = "eligible"
                          /\ Read(r)' /\ old(r) = "none" => collection'[r] = "none"
    BY <1>1, <1>3 DEF Reset, Begun
<1> QED
    BY <1>2, <1>4 DEF CollectionMoves

(* A step that collects nothing and leaves the files alone.                *)
LEMMA FilesStay ==
    ASSUME FilesAreWhole, UNCHANGED <<registered, published, objects, damaged>>,
           registered \subseteq Revision,
           \A r \in Revision : collection'[r] = "collected" <=> collection[r] = "collected"
    PROVE  FilesAreWhole'
    BY DEF FilesAreWhole, WholeFor, Usable

LEMMA AcquireMoves ==
    ASSUME RevisionTypeOK, ReadersAreFresh, NEW q \in Runner, NEW r \in registered, Acquire(q, r)
    PROVE  /\ reader' \in [Runner -> [Revision -> {"none", "held", "released"}]]
           /\ recent' \subseteq Revision /\ UNCHANGED lost
           /\ collection' \in [Revision -> {"none", "grace", "eligible", "collected"}]
           /\ \A s \in Revision : collection'[s] = "collected" <=> collection[s] = "collected"
           /\ \A s \in Revision : Read(s)' =>
                 s \in recent' /\ s \in registered /\ collection'[s] = "none"
           /\ \A s \in recent' : collection'[s] # "eligible"
<1>1. /\ Usable(r) /\ reader' = [reader EXCEPT ![q][r] = "held"] /\ recent' = recent \cup {r}
      /\ collection' = [collection EXCEPT ![r] = Reset(collection[r])] /\ UNCHANGED lost
    BY DEF Acquire
<1>2. r \in Revision
    OBVIOUS
<1>3. /\ reader' \in [Runner -> [Revision -> {"none", "held", "released"}]]
      /\ \A p \in Runner, s \in Revision : reader'[p][s] = "held" => reader[p][s] = "held" \/ s = r
    BY <1>1, <1>2
<1>4. Reset(collection[r]) \in {"none", "collected"} /\ collection[r] # "collected"
      /\ (Reset(collection[r]) = "collected" <=> collection[r] = "collected")
    BY <1>1, <1>2 DEF Reset, Usable
<1>5. /\ collection' \in [Revision -> {"none", "grace", "eligible", "collected"}]
      /\ collection'[r] = "none"
      /\ \A s \in Revision : s # r => collection'[s] = collection[s]
    BY <1>1, <1>2, <1>4
<1>6. \A s \in Revision : Read(s)' => Read(s) \/ s = r
    BY <1>1, <1>3 DEF Read
<1> QED
    BY <1>1, <1>2, <1>3, <1>4, <1>5, <1>6 DEF ReadersAreFresh

-----------------------------------------------------------------------------
(* Capture and Refresh.                                                    *)

LEMMA PublishKeeps ==
    ASSUME RevisionInv, NEW g \in Found, Publish(Names(g))
    PROVE  /\ Names(g) \subseteq Revision
           /\ published' \in [Revision -> {"absent", "partial", "whole"}]
           /\ objects' \subseteq Object
           /\ objects \subseteq objects'
           /\ \A r \in Names(g) : ObjectsOf[r] \subseteq objects'
           /\ \A r \in Revision : published[r] = "whole" => published'[r] = "whole"
           /\ \A r \in Revision : published'[r] = "partial" => published[r] = "partial"
           /\ \A r \in Names(g) : published[r] # "partial" => published'[r] = "whole"
<1>1. Names(g) \subseteq Revision
    BY DEF Found, Names
<1>2. /\ published' = [r \in Revision |-> published'[r]]
      /\ \A r \in Revision : published'[r] =
            IF r \in Names(g) /\ published[r] = "absent" THEN "whole" ELSE published[r]
    BY DEF Publish, Placed
<1>3. \A r \in Revision : published[r] \in {"absent", "partial", "whole"}
    BY DEF RevisionInv
<1>4. objects' = objects \cup UNION {ObjectsOf[r] : r \in Names(g)}
    BY DEF Publish
<1>5. (\A r \in Names(g) : ObjectsOf[r] \subseteq objects') /\ objects' \subseteq Object
    BY <1>1, <1>4 DEF RevisionInv
<1> QED
    BY <1>1, <1>2, <1>3, <1>4, <1>5 DEF RevisionInv

LEMMA RefreshKeepsRevisions ==
    ASSUME RevisionInv, NEW g \in Found, Refresh(g) \/ RefreshFails(g)
    PROVE  RevisionInv' /\ GraceKept
<1>1. /\ Names(g) \subseteq Revision
      /\ published' \in [Revision -> {"absent", "partial", "whole"}]
      /\ objects' \subseteq Object /\ objects \subseteq objects'
      /\ \A r \in Names(g) : ObjectsOf[r] \subseteq objects'
      /\ \A r \in Revision : published[r] = "whole" => published'[r] = "whole"
      /\ \A r \in Revision : published'[r] = "partial" => published[r] = "partial"
      /\ \A r \in Names(g) : published[r] # "partial" => published'[r] = "whole"
    BY PublishKeeps DEF Refresh, RefreshFails
<1>2. /\ UNCHANGED <<run, reader, lost, recent, collection, runner, starting, damaged, faults>>
      /\ registered \subseteq registered' /\ registered' \subseteq registered \cup Names(g)
    BY DEF Refresh, RefreshFails, revisionRows, readers, processes, history
<1>3. /\ available' \subseteq Workflow /\ current' \in [Workflow -> Revision \cup {NoRevision}]
      /\ \A w \in available' : current'[w] \in registered' /\ Usable(current'[w])
  <2>1. CASE Refresh(g)
    <3>1. /\ \A r \in Names(g) : Usable(r)
          /\ registered' = registered \cup Names(g)
          /\ available' = {w \in Workflow : g[w] # NoRevision}
          /\ current' = [w \in Workflow |-> IF g[w] # NoRevision THEN g[w] ELSE current[w]]
        BY <2>1 DEF Refresh
    <3>2. \A w \in Workflow : g[w] # NoRevision => g[w] \in Names(g)
        BY DEF Names
    <3>3. \A w \in Workflow : g[w] \in Revision \cup {NoRevision}
        BY DEF Found
    <3> QED
        BY <3>1, <3>2, <3>3 DEF RevisionInv
  <2>2. CASE RefreshFails(g)
      BY <2>2 DEF RefreshFails, revisionRows, RevisionInv, RowsInv, UsesAreRegistered
  <2> QED
      BY <2>1, <2>2
<1>4. ReadersAreFresh'
    BY <1>2 DEF RevisionInv, RowsInv, ReadersAreFresh, Read
<1>5. UsesAreRegistered' /\ OneInspection'
    BY <1>2, <1>3 DEF RevisionInv, RowsInv, UsesAreRegistered, OneInspection, Usable
<1>6. FilesAreWhole'
  <2>1. ASSUME NEW r \in registered', Usable(r)', damaged'[r] = "none"
        PROVE  published'[r] = "whole" /\ ObjectsOf[r] \subseteq objects'
    <3>1. CASE r \in registered
        BY <1>1, <1>2, <2>1, <3>1 DEF RevisionInv, FilesAreWhole, WholeFor, Usable
    <3>2. CASE r \notin registered
        BY <1>1, <1>2, <2>1, <3>2 DEF RevisionInv, FilesAreWhole
    <3> QED
        BY <3>1, <3>2
  <2>2. \A r \in Revision : r \notin registered' => published'[r] # "partial"
      BY <1>1, <1>2 DEF RevisionInv, FilesAreWhole
  <2> QED
      BY <2>1, <2>2 DEF FilesAreWhole, WholeFor
<1>7. GraceKept
    BY <1>2 DEF GraceKept, Usable
<1> QED
    BY <1>1, <1>2, <1>3, <1>4, <1>5, <1>6, <1>7 DEF RevisionInv, RowsInv

-----------------------------------------------------------------------------
(* Inspection, collection and repair.                                      *)

(* A step that moves only the rows of collection and gives readers back.   *)
LEMMA GraceKeeps ==
    ASSUME RevisionInv, CollectionMoves, UNCHANGED <<registered, current, available, recent>>,
           \A r \in Revision : Read(r)' => Read(r)
    PROVE  /\ ReadersAreFresh' /\ GraceKept
           /\ \A r \in Revision : Usable(r)' <=> Usable(r)
<1>1. \A r \in Revision : Usable(r)' <=> Usable(r)
    BY DEF CollectionMoves, Usable
<1>2. recent \subseteq Revision /\ registered \subseteq Revision
    BY DEF RevisionInv
<1>3. GraceKept
    BY <1>1, <1>2 DEF GraceKept
<1>4. ReadersAreFresh'
    BY <1>2 DEF RevisionInv, RowsInv, ReadersAreFresh, CollectionMoves
<1> QED
    BY <1>1, <1>3, <1>4

LEMMA DetailsKeep ==
    ASSUME RevisionInv, NEW r \in Revision, Details(r)
    PROVE  RevisionInv' /\ GraceKept
<1>1. /\ UNCHANGED <<registered, current, available, run, reader, lost, recent, published, objects,
                     runner, starting, damaged, faults>>
      /\ CollectionMoves
    BY GraceMoves DEF Details, revisionRows, readers, files, processes, history, RevisionInv
<1>2. ReadersAreFresh' /\ GraceKept /\ \A s \in Revision : Usable(s)' <=> Usable(s)
    BY <1>1, GraceKeeps DEF Read
<1>3. FilesAreWhole'
    BY <1>1, FilesStay DEF RevisionInv, CollectionMoves
<1>4. UsesAreRegistered' /\ OneInspection'
    BY <1>1, <1>2 DEF RevisionInv, RowsInv, UsesAreRegistered, OneInspection
<1> QED
    BY <1>1, <1>2, <1>3, <1>4 DEF RevisionInv, RowsInv, CollectionMoves

(* What is collected has no use, was not read within a day, and its own    *)
(* objects are nobody else's.                                              *)
LEMMA CollectKeeps ==
    ASSUME RevisionInv, NEW r \in Revision, Collect(r)
    PROVE  RevisionInv' /\ GraceKept
<1>1. UNCHANGED <<registered, current, available, run, reader, lost, recent, runner, starting, damaged,
                  faults>>
    BY DEF Collect, revisionRows, readers, processes, history
<1>2. collection[r] \in {"none", "grace", "eligible", "collected"} /\ r \in registered
    BY DEF RevisionInv, Collect
<1>3. CASE ~Protected(r) /\ collection[r] = "eligible"
  <2>1. /\ collection' = [collection EXCEPT ![r] = "collected"]
        /\ published' = [published EXCEPT ![r] = "absent"]
        /\ objects' = objects \ Own(r)
      BY <1>3 DEF Collect
  <2>2. /\ collection' \in [Revision -> {"none", "grace", "eligible", "collected"}]
        /\ published' \in [Revision -> {"absent", "partial", "whole"}] /\ objects' \subseteq Object
        /\ collection'[r] = "collected" /\ published'[r] = "absent"
        /\ \A s \in Revision : s # r => collection'[s] = collection[s] /\ published'[s] = published[s]
      BY <2>1 DEF RevisionInv
  <2>3. ~Read(r) /\ ~Pinned(r) /\ ~Current(r)
      BY <1>3 DEF Protected
  <2>4. ReadersAreFresh'
      BY <1>1, <2>2, <2>3 DEF RevisionInv, RowsInv, ReadersAreFresh, Read
  <2>5. UsesAreRegistered' /\ OneInspection'
      BY <1>1, <2>2, <2>3 DEF RevisionInv, RowsInv, UsesAreRegistered, OneInspection, Usable, Pinned,
         Current
  <2>6. \A s \in registered : s # r /\ Usable(s) => ObjectsOf[s] \cap Own(r) = {}
      BY DEF Own
  <2>7. FilesAreWhole'
      BY <1>1, <1>2, <2>1, <2>2, <2>6 DEF RevisionInv, FilesAreWhole, WholeFor, Usable
  <2>8. GraceKept
      BY <1>3, <2>2 DEF GraceKept, RevisionInv, RowsInv, ReadersAreFresh, Usable
  <2> QED
      BY <1>1, <2>2, <2>4, <2>5, <2>7, <2>8 DEF RevisionInv, RowsInv
<1>4. CASE ~(~Protected(r) /\ collection[r] = "eligible")
  <2>1. /\ UNCHANGED <<published, objects>>
        /\ \/ collection' = [collection EXCEPT ![r] = Reset(collection[r])]
           \/ collection' = [collection EXCEPT ![r] = Begun(collection[r])] /\ ~Protected(r)
      BY <1>4 DEF Collect, files
  <2>2. CollectionMoves
    <3>1. /\ collection' \in [Revision -> {"none", "grace", "eligible", "collected"}]
          /\ \A s \in Revision : s # r => collection'[s] = collection[s]
          /\ \/ collection'[r] = Reset(collection[r])
             \/ collection'[r] = Begun(collection[r]) /\ ~Protected(r)
        BY <1>2, <2>1 DEF RevisionInv, Reset, Begun
    <3>2. Read(r)' => Protected(r)
        BY <1>1 DEF Read, Protected
    <3> QED
        BY <1>2, <3>1, <3>2 DEF CollectionMoves, Reset, Begun
  <2>3. ReadersAreFresh' /\ GraceKept /\ \A s \in Revision : Usable(s)' <=> Usable(s)
      BY <1>1, <2>2, GraceKeeps DEF Read
  <2>4. FilesAreWhole'
      BY <1>1, <2>1, <2>2, FilesStay DEF RevisionInv, CollectionMoves
  <2>5. UsesAreRegistered' /\ OneInspection'
      BY <1>1, <2>3 DEF RevisionInv, RowsInv, UsesAreRegistered, OneInspection
  <2> QED
      BY <1>1, <2>1, <2>2, <2>3, <2>4, <2>5 DEF RevisionInv, RowsInv, CollectionMoves
<1> QED
    BY <1>3, <1>4

LEMMA CollectFailsKeeps ==
    ASSUME RevisionInv, NEW r \in Revision, CollectFails(r)
    PROVE  RevisionInv' /\ GraceKept
<1>1. /\ UNCHANGED <<registered, current, available, run, reader, lost, recent, collection, runner,
                     starting>>
      /\ faults' = faults + 1 /\ faults < MaxFaults
      /\ r \in registered
    BY DEF CollectFails, revisionRows, readers, processes
<1>2. /\ damaged' \in [Revision -> {"none", "collection", "repair"}] /\ damaged'[r] = "collection"
      /\ \A s \in Revision : s # r => damaged'[s] = damaged[s]
    BY DEF CollectFails, RevisionInv
<1>3. /\ published' \in [Revision -> {"absent", "partial", "whole"}]
      /\ \A s \in Revision : s # r => published'[s] = published[s]
    BY DEF CollectFails, RevisionInv
<1>4. objects \ Own(r) \subseteq objects' /\ objects' \subseteq Object
    BY DEF CollectFails, RevisionInv
<1>5. \A s \in registered : s # r /\ Usable(s) => ObjectsOf[s] \cap Own(r) = {}
    BY DEF Own
<1>6. FilesAreWhole'
    BY <1>1, <1>2, <1>3, <1>4, <1>5 DEF RevisionInv, FilesAreWhole, WholeFor, Usable
<1>7. ReadersAreFresh' /\ UsesAreRegistered' /\ OneInspection' /\ GraceKept
    BY <1>1 DEF RevisionInv, RowsInv, ReadersAreFresh, UsesAreRegistered, OneInspection, GraceKept,
       Usable, Read
<1>8. faults' \in 0..MaxFaults
    BY <1>1 DEF RevisionInv
<1> QED
    BY <1>1, <1>2, <1>3, <1>4, <1>6, <1>7, <1>8 DEF RevisionInv, RowsInv

LEMMA RepairKeeps ==
    ASSUME RevisionInv, NEW r \in Revision, Repair(r)
    PROVE  RevisionInv' /\ GraceKept
<1>1. /\ UNCHANGED <<registered, current, available, run, reader, lost, recent, runner, starting, faults>>
      /\ CollectionMoves /\ r \in registered
    BY GraceMoves DEF Repair, revisionRows, readers, processes, RevisionInv
<1>2. ReadersAreFresh' /\ GraceKept /\ \A s \in Revision : Usable(s)' <=> Usable(s)
    BY <1>1, GraceKeeps DEF Read
<1>3. /\ published' \in [Revision -> {"absent", "partial", "whole"}] /\ published'[r] = "whole"
      /\ damaged' \in [Revision -> {"none", "collection", "repair"}]
      /\ objects' = objects \cup ObjectsOf[r] /\ objects' \subseteq Object
      /\ \A s \in Revision : s # r => published'[s] = published[s] /\ damaged'[s] = damaged[s]
    BY DEF Repair, RevisionInv
<1>4. FilesAreWhole'
    BY <1>1, <1>2, <1>3 DEF RevisionInv, FilesAreWhole, WholeFor
<1>5. UsesAreRegistered' /\ OneInspection'
    BY <1>1, <1>2 DEF RevisionInv, RowsInv, UsesAreRegistered, OneInspection
<1> QED
    BY <1>1, <1>2, <1>3, <1>4, <1>5 DEF RevisionInv, RowsInv, CollectionMoves

-----------------------------------------------------------------------------
(* The end of a Daemon, and of a day.                                      *)

LEMMA DaemonEndsKeeps ==
    ASSUME RevisionInv, DaemonEnds
    PROVE  /\ ReadersAreFresh' /\ UsesAreRegistered' /\ OneInspection' /\ GraceKept
           /\ UNCHANGED <<registered, current, available, run, recent, collection>>
           /\ reader' \in [Runner -> [Revision -> {"none", "held", "released"}]]
           /\ lost' \subseteq Revision /\ runner' \in [Runner -> {"none", "inspect", "trigger"} \cup Run]
           /\ starting' \in [at : {"idle", "read", "inspecting", "inspected"},
                          revision : Revision \cup {NoRevision}]
           /\ faults' \in 0..MaxFaults
<1>1. /\ UNCHANGED <<registered, current, available, run, recent, collection>>
      /\ lost' = {r \in Revision : Read(r)}
      /\ reader' = [q \in Runner |-> [r \in Revision |-> "none"]]
      /\ runner' = [q \in Runner |-> "none"]
      /\ starting' = [at |-> "idle", revision |-> NoRevision]
      /\ faults' = faults + 1 /\ faults < MaxFaults
    BY DEF DaemonEnds, revisionRows
<1>2. \A r \in Revision : Read(r)' => Read(r)
    BY <1>1 DEF Read
<1>3. ReadersAreFresh'
    BY <1>1, <1>2 DEF RevisionInv, RowsInv, ReadersAreFresh
<1>4. UsesAreRegistered' /\ OneInspection'
    BY <1>1 DEF RevisionInv, RowsInv, UsesAreRegistered, OneInspection, Usable
<1>5. GraceKept /\ faults' \in 0..MaxFaults
    BY <1>1 DEF GraceKept, Usable, RevisionInv
<1> QED
    BY <1>1, <1>3, <1>4, <1>5

LEMMA CrashKeeps ==
    ASSUME RevisionInv, DaemonCrash
    PROVE  RevisionInv' /\ GraceKept
<1>1. UNCHANGED <<published, objects, damaged>>
    BY DEF DaemonCrash, files
<1>2. FilesAreWhole'
    BY <1>1, DaemonEndsKeeps, FilesStay DEF DaemonCrash, RevisionInv
<1> QED
    BY <1>1, <1>2, DaemonEndsKeeps DEF DaemonCrash, RevisionInv, RowsInv

LEMMA RepairFailsKeeps ==
    ASSUME RevisionInv, NEW r \in Revision, RepairFails(r)
    PROVE  RevisionInv' /\ GraceKept
<1>1. /\ published' \in [Revision -> {"absent", "partial", "whole"}] /\ published'[r] = "absent"
      /\ damaged' \in [Revision -> {"none", "collection", "repair"}] /\ damaged'[r] = "repair"
      /\ objects' = objects \cup ObjectsOf[r] /\ objects' \subseteq Object
      /\ \A s \in Revision : s # r => published'[s] = published[s] /\ damaged'[s] = damaged[s]
    BY DEF RepairFails, RevisionInv
<1>2. /\ UNCHANGED <<registered, current, available, run, recent, collection>>
      /\ ReadersAreFresh' /\ UsesAreRegistered' /\ OneInspection' /\ GraceKept
    BY DaemonEndsKeeps DEF RepairFails
<1>3. FilesAreWhole'
    BY <1>1, <1>2 DEF RevisionInv, FilesAreWhole, WholeFor, Usable
<1> QED
    BY <1>1, <1>2, <1>3, DaemonEndsKeeps DEF RepairFails, RevisionInv, RowsInv

LEMMA DayPassesKeeps ==
    ASSUME RevisionInv, DayPasses
    PROVE  RevisionInv' /\ GraceKept
<1>1. /\ UNCHANGED <<registered, current, available, run, reader, lost, published, objects, runner,
                     starting, damaged, faults>>
      /\ recent' = {r \in Revision : Read(r)}
      /\ collection' = [r \in Revision |-> IF collection[r] = "grace" THEN "eligible"
                                           ELSE collection[r]]
    BY DEF DayPasses, revisionRows, files, processes, history
<1>2. /\ collection' \in [Revision -> {"none", "grace", "eligible", "collected"}]
      /\ \A r \in Revision : collection'[r] = "collected" <=> collection[r] = "collected"
      /\ \A r \in Revision : collection[r] = "none" => collection'[r] = "none"
    BY <1>1 DEF RevisionInv
<1>3. ReadersAreFresh'
    BY <1>1, <1>2 DEF RevisionInv, RowsInv, ReadersAreFresh, Read
<1>4. \A r \in Revision : Usable(r)' <=> Usable(r)
    BY <1>2 DEF Usable
<1>5. UsesAreRegistered' /\ OneInspection'
    BY <1>1, <1>4 DEF RevisionInv, RowsInv, UsesAreRegistered, OneInspection
<1>6. FilesAreWhole'
    BY <1>1, <1>2, FilesStay DEF RevisionInv
<1>7. GraceKept
    BY <1>4 DEF GraceKept, RevisionInv
<1> QED
    BY <1>1, <1>2, <1>3, <1>5, <1>6, <1>7 DEF RevisionInv, RowsInv

-----------------------------------------------------------------------------
(* Starts and runners.                                                     *)

(* A step of the Start or of a Run that leaves readers and files alone.    *)
LEMMA UsesKeep ==
    ASSUME RevisionInv,
           UNCHANGED <<registered, current, available, reader, lost, recent, collection, published,
                       objects, runner, damaged, faults>>,
           run' \in [Run -> Revision \cup {NoRevision}],
           starting' \in [at : {"idle", "read", "inspecting", "inspected"},
                       revision : Revision \cup {NoRevision}],
           UsesAreRegistered', OneInspection'
    PROVE  RevisionInv' /\ GraceKept
<1>1. ReadersAreFresh' /\ GraceKept
    BY DEF RevisionInv, RowsInv, ReadersAreFresh, Read, GraceKept, Usable
<1>2. FilesAreWhole'
    BY FilesStay DEF RevisionInv
<1> QED
    BY <1>1, <1>2 DEF RevisionInv, RowsInv

LEMMA StartKeeps ==
    ASSUME RevisionInv, (\E w \in Workflow : ReadsCurrent(w)) \/ StartFails
    PROVE  RevisionInv' /\ GraceKept
<1>1. UNCHANGED <<registered, current, available, run, reader, lost, recent, collection, published,
                  objects, runner, damaged, faults>>
    BY DEF ReadsCurrent, StartFails, revisionRows, readers, files, history
<1>2. starting.at # "inspecting"
    BY DEF ReadsCurrent, StartFails
<1>3. PICK at \in {"idle", "read"}, r \in Revision \cup {NoRevision} :
         starting' = [at |-> at, revision |-> r] /\ (at # "idle" => r \in registered)
  <2>1. CASE \E w \in Workflow : ReadsCurrent(w)
    <3>1. PICK w \in Workflow : ReadsCurrent(w)
        BY <2>1
    <3>2. current[w] \in registered
        BY <3>1 DEF ReadsCurrent, RevisionInv, RowsInv, UsesAreRegistered
    <3>3. starting' = [at |-> "read", revision |-> current[w]]
        BY <3>1 DEF ReadsCurrent
    <3> QED
        BY <3>2, <3>3 DEF RevisionInv
  <2>2. CASE StartFails
      BY <2>2 DEF StartFails
  <2> QED
      BY <2>1, <2>2
<1>4. starting'.at = at /\ starting'.revision = r
    BY <1>3
<1>5. UsesAreRegistered' /\ OneInspection'
    BY <1>1, <1>2, <1>3, <1>4 DEF RevisionInv, RowsInv, UsesAreRegistered, OneInspection, Usable
<1> QED
    BY <1>1, <1>3, <1>5, UsesKeep DEF RevisionInv

LEMMA AdmitKeeps ==
    ASSUME RevisionInv, NEW x \in Run,
           Admit(x) \/ \E q \in Runner, r \in Revision : AdmitEvent(q, r, x)
    PROVE  RevisionInv' /\ GraceKept
<1>1. UNCHANGED <<registered, current, available, reader, lost, recent, collection, published,
                  objects, runner, damaged, faults>>
    BY DEF Admit, AdmitEvent, readers, files, processes, history
<1>2. PICK r \in registered : Usable(r) /\ run' = [run EXCEPT ![x] = r]
  <2>1. CASE Admit(x)
      BY <2>1 DEF Admit, RevisionInv, RowsInv, UsesAreRegistered
  <2>2. CASE \E q \in Runner, r \in Revision : AdmitEvent(q, r, x)
      BY <2>2 DEF AdmitEvent, Read, RevisionInv, RowsInv, ReadersAreFresh
  <2> QED
      BY <2>1, <2>2
<1>3. \/ UNCHANGED starting
      \/ starting' = [at |-> "idle", revision |-> NoRevision] /\ starting.at = "inspected"
    BY DEF Admit, AdmitEvent, processes
<1>4. run' \in [Run -> Revision \cup {NoRevision}]
    BY <1>2 DEF RevisionInv
<1>5. \A y \in Run : run'[y] = r \/ run'[y] = run[y]
    BY <1>2 DEF RevisionInv
<1>6. UsesAreRegistered' /\ OneInspection'
    BY <1>1, <1>2, <1>3, <1>5 DEF RevisionInv, RowsInv, UsesAreRegistered, OneInspection, Usable
<1> QED
    BY <1>1, <1>3, <1>4, <1>6, UsesKeep DEF RevisionInv

(* A runner loads a Revision: of a Start, of a Run or of a Trigger.        *)
LEMMA LoadKeeps ==
    ASSUME RevisionInv, NEW q \in Runner,
           \/ Inspect(q) \/ (\E x \in Run : Execute(x, q)) \/ (\E w \in Workflow : Poll(q, w))
    PROVE  RevisionInv' /\ GraceKept
<1>1. UNCHANGED <<registered, current, available, run, published, objects, damaged, faults>>
    BY DEF Inspect, Execute, Poll, revisionRows, files, history
<1>2. PICK r \in registered : Acquire(q, r)
    BY DEF Inspect, Execute, Poll, Materializes, RevisionInv, RowsInv, UsesAreRegistered
<1>3. /\ reader' \in [Runner -> [Revision -> {"none", "held", "released"}]]
      /\ recent' \subseteq Revision /\ UNCHANGED lost
      /\ collection' \in [Revision -> {"none", "grace", "eligible", "collected"}]
      /\ \A s \in Revision : collection'[s] = "collected" <=> collection[s] = "collected"
      /\ \A s \in Revision : Read(s)' =>
            s \in recent' /\ s \in registered /\ collection'[s] = "none"
      /\ \A s \in recent' : collection'[s] # "eligible"
    BY <1>2, AcquireMoves DEF RevisionInv, RowsInv
<1>4. ReadersAreFresh'
    BY <1>1, <1>3 DEF ReadersAreFresh
<1>5. \A s \in Revision : Usable(s)' <=> Usable(s)
    BY <1>3 DEF Usable
<1>6. OneInspection' /\ runner' \in [Runner -> {"none", "inspect", "trigger"} \cup Run]
  <2>1. CASE Inspect(q)
    <3>1. /\ runner' = [runner EXCEPT ![q] = "inspect"] /\ starting.at = "read"
          /\ starting' = [starting EXCEPT !.at = "inspecting"]
        BY <2>1 DEF Inspect
    <3>2. starting'.at = "inspecting"
        BY <3>1 DEF RevisionInv
    <3> QED
        BY <3>1, <3>2 DEF RevisionInv, RowsInv, OneInspection
  <2>2. ASSUME NEW k \in {"trigger"} \cup Run, runner' = [runner EXCEPT ![q] = k], UNCHANGED starting
        PROVE  <1>6!1
    <3>1. k # "inspect"
        OBVIOUS
    <3> QED
        BY <2>2, <3>1 DEF RevisionInv, RowsInv, OneInspection
  <2>3. ASSUME NEW k \in {"trigger"} \cup Run, runner' = [runner EXCEPT ![q] = k]
        PROVE  runner' \in [Runner -> {"none", "inspect", "trigger"} \cup Run]
      BY <2>3 DEF RevisionInv
  <2> QED
      BY <2>1, <2>2, <2>3 DEF Inspect, Execute, Poll, RevisionInv
<1>7. /\ starting' \in [at : {"idle", "read", "inspecting", "inspected"},
                     revision : Revision \cup {NoRevision}]
      /\ starting'.revision = starting.revision /\ (starting'.at # "idle" => starting.at # "idle")
    BY DEF Inspect, Execute, Poll, RevisionInv
<1>8. UsesAreRegistered'
    BY <1>1, <1>5, <1>7 DEF RevisionInv, RowsInv, UsesAreRegistered
<1>9. FilesAreWhole'
    BY <1>1, <1>3, FilesStay DEF RevisionInv
<1>10. GraceKept
    BY <1>5 DEF GraceKept, RevisionInv
<1> QED
    BY <1>1, <1>3, <1>4, <1>6, <1>7, <1>8, <1>9, <1>10 DEF RevisionInv, RowsInv

(* A runner gives a Revision back, or ends with all it has.                *)
LEMMA ReleaseKeeps ==
    ASSUME RevisionInv, NEW q \in Runner, Exit(q) \/ \E r \in Revision : Dispose(q, r)
    PROVE  RevisionInv' /\ GraceKept
<1>1. /\ UNCHANGED <<registered, current, available, run, lost, recent, published, objects, damaged,
                     faults>>
      /\ CollectionMoves
    BY GraceMoves DEF Exit, Dispose, revisionRows, files, processes, history, RevisionInv
<1>2. /\ reader' \in [Runner -> [Revision -> {"none", "held", "released"}]]
      /\ \A p \in Runner, r \in Revision : reader'[p][r] = "held" => reader[p][r] = "held"
  <2>1. CASE Exit(q)
      BY <2>1 DEF Exit, RevisionInv
  <2>2. CASE \E r \in Revision : Dispose(q, r)
      BY <2>2 DEF Dispose, RevisionInv
  <2> QED
      BY <2>1, <2>2
<1>3. \A r \in Revision : Read(r)' => Read(r)
    BY <1>1, <1>2 DEF Read
<1>4. ReadersAreFresh' /\ GraceKept /\ \A r \in Revision : Usable(r)' <=> Usable(r)
    BY <1>1, <1>3, GraceKeeps
<1>5. FilesAreWhole'
    BY <1>1, FilesStay DEF RevisionInv, CollectionMoves
<1>6. /\ OneInspection' /\ runner' \in [Runner -> {"none", "inspect", "trigger"} \cup Run]
      /\ starting' \in [at : {"idle", "read", "inspecting", "inspected"},
                     revision : Revision \cup {NoRevision}]
      /\ starting'.revision = starting.revision /\ (starting'.at # "idle" => starting.at # "idle")
  <2>1. CASE Exit(q)
    <3>1. /\ runner' \in [Runner -> {"none", "inspect", "trigger"} \cup Run] /\ runner'[q] = "none"
          /\ \A p \in Runner : p # q => runner'[p] = runner[p]
        BY <2>1 DEF Exit, RevisionInv
    <3>2. CASE runner[q] = "inspect"
      <4>1. starting' = [starting EXCEPT !.at = "inspected"] /\ starting.at = "inspecting"
          BY <2>1, <3>2 DEF Exit, RevisionInv, RowsInv, OneInspection
      <4>2. \A p \in Runner : runner'[p] # "inspect"
          BY <3>1, <3>2 DEF RevisionInv, RowsInv, OneInspection
      <4> QED
          BY <3>1, <4>1, <4>2 DEF RevisionInv, OneInspection
    <3>3. CASE runner[q] # "inspect"
      <4>1. UNCHANGED starting
          BY <2>1, <3>3 DEF Exit
      <4>2. OneInspection'
          BY <3>1, <4>1 DEF RevisionInv, RowsInv, OneInspection
      <4> QED
          BY <3>1, <4>1, <4>2 DEF RevisionInv
    <3> QED
        BY <3>2, <3>3
  <2>2. CASE \E r \in Revision : Dispose(q, r)
      BY <2>2 DEF Dispose, processes, RevisionInv, RowsInv, OneInspection
  <2> QED
      BY <2>1, <2>2
<1>7. UsesAreRegistered'
    BY <1>1, <1>4, <1>6 DEF RevisionInv, RowsInv, UsesAreRegistered
<1> QED
    BY <1>1, <1>2, <1>4, <1>5, <1>6, <1>7 DEF RevisionInv, RowsInv, CollectionMoves

LEMMA DeleteRunKeeps ==
    ASSUME RevisionInv, NEW x \in Run, DeleteRun(x)
    PROVE  RevisionInv' /\ GraceKept
<1>1. /\ UNCHANGED <<registered, current, available, reader, lost, recent, published, objects,
                     runner, starting, damaged, faults>>
      /\ run' = [run EXCEPT ![x] = NoRevision] /\ run[x] \in Revision
    BY DEF DeleteRun, readers, files, processes, history, RevisionInv
<1>2. CollectionMoves
  <2>1. CASE UNCHANGED collection
      BY <2>1 DEF CollectionMoves, RevisionInv
  <2>2. ASSUME NEW r \in Revision, ~Protected(r)',
               collection' = [collection EXCEPT ![r] = Begun(collection[r])]
        PROVE  CollectionMoves
    <3>1. collection[r] \in {"none", "grace", "eligible", "collected"}
        BY DEF RevisionInv
    <3>2. /\ collection' \in [Revision -> {"none", "grace", "eligible", "collected"}]
          /\ collection'[r] = Begun(collection[r])
          /\ \A s \in Revision : s # r => collection'[s] = collection[s]
        BY <2>2, <3>1 DEF RevisionInv, Begun
    <3>3. ~Read(r)'
        BY <2>2 DEF Protected
    <3> QED
        BY <3>1, <3>2, <3>3 DEF CollectionMoves, Begun
  <2> QED
      BY <1>1, <2>1, <2>2 DEF DeleteRun
<1>3. ReadersAreFresh' /\ GraceKept /\ \A r \in Revision : Usable(r)' <=> Usable(r)
    BY <1>1, <1>2, GraceKeeps DEF Read
<1>4. FilesAreWhole'
    BY <1>1, <1>2, FilesStay DEF RevisionInv, CollectionMoves
<1>5. /\ run' \in [Run -> Revision \cup {NoRevision}]
      /\ \A y \in Run : run'[y] = NoRevision \/ run'[y] = run[y]
    BY <1>1 DEF RevisionInv
<1>6. UsesAreRegistered' /\ OneInspection'
    BY <1>1, <1>3, <1>5 DEF RevisionInv, RowsInv, UsesAreRegistered, OneInspection
<1> QED
    BY <1>1, <1>2, <1>3, <1>4, <1>5, <1>6 DEF RevisionInv, RowsInv, CollectionMoves

-----------------------------------------------------------------------------
(* The invariant of every step, and the grace period.                      *)
LEMMA RevisionInvNext == RevisionInv /\ [RevisionNext]_revisionVars => RevisionInv' /\ GraceKept
<1> SUFFICES ASSUME RevisionInv, [RevisionNext]_revisionVars
             PROVE  RevisionInv' /\ GraceKept
    OBVIOUS
<1>1. CASE UNCHANGED revisionVars
  <2>1. UNCHANGED <<registered, current, available, run, reader, lost, recent, collection, published,
                    objects, runner, starting, damaged, faults>>
      BY <1>1 DEF revisionVars, revisionRows, readers, files, processes, history
  <2>2. UsesAreRegistered' /\ OneInspection'
      BY <2>1 DEF RevisionInv, RowsInv, UsesAreRegistered, OneInspection, Usable
  <2> QED
      BY <2>1, <2>2, UsesKeep DEF RevisionInv
<1>2. CASE \E g \in Found : Refresh(g) \/ RefreshFails(g)
    BY <1>2, RefreshKeepsRevisions
<1>3. CASE \E r \in Revision :
              Details(r) \/ Collect(r) \/ CollectFails(r) \/ Repair(r) \/ RepairFails(r)
    BY <1>3, DetailsKeep, CollectKeeps, CollectFailsKeeps, RepairKeeps, RepairFailsKeeps
<1>4. CASE DayPasses \/ DaemonCrash
    BY <1>4, DayPassesKeeps, CrashKeeps
<1>5. CASE (\E w \in Workflow : ReadsCurrent(w)) \/ StartFails
    BY <1>5, StartKeeps
<1>6. CASE \E q \in Runner :
              \/ Inspect(q) \/ Exit(q)
              \/ \E w \in Workflow : Poll(q, w)
              \/ \E r \in Revision : Dispose(q, r) \/ \E x \in Run : AdmitEvent(q, r, x)
              \/ \E x \in Run : Execute(x, q)
  <2>1. PICK q \in Runner :
              \/ Inspect(q) \/ Exit(q)
              \/ \E w \in Workflow : Poll(q, w)
              \/ \E r \in Revision : Dispose(q, r) \/ \E x \in Run : AdmitEvent(q, r, x)
              \/ \E x \in Run : Execute(x, q)
      BY <1>6
  <2>2. CASE Inspect(q) \/ (\E x \in Run : Execute(x, q)) \/ (\E w \in Workflow : Poll(q, w))
      BY <2>2, LoadKeeps
  <2>3. CASE Exit(q) \/ \E r \in Revision : Dispose(q, r)
      BY <2>3, ReleaseKeeps
  <2>4. CASE \E r \in Revision, x \in Run : AdmitEvent(q, r, x)
      BY <2>4, AdmitKeeps
  <2> QED
      BY <2>1, <2>2, <2>3, <2>4
<1>7. CASE \E x \in Run : Admit(x) \/ DeleteRun(x)
    BY <1>7, AdmitKeeps, DeleteRunKeeps
<1> QED
    BY <1>1, <1>2, <1>3, <1>4, <1>5, <1>6, <1>7 DEF RevisionNext

LEMMA RevisionsStaySound == RevisionSpec => []RevisionInv
<1>1. RevisionInv /\ [RevisionNext]_revisionVars => RevisionInv'
    BY RevisionInvNext
<1> QED
    BY <1>1, RevisionInvInit, PTL DEF RevisionSpec

(* Type correctness, for any number of Revisions, Runs and runners.        *)
THEOREM RevisionTypes == RevisionSpec => []RevisionTypeOK
<1>1. RevisionInv => RevisionTypeOK
    BY DEF RevisionInv
<1> QED
    BY <1>1, RevisionsStaySound, PTL

(* Nothing is collected that is used, and nothing used that was collected. *)
THEOREM CollectedStaysUnused == RevisionSpec => []CollectedIsUnused
<1>1. RevisionInv => CollectedIsUnused
    BY DEF RevisionInv, RowsInv, ReadersAreFresh, UsesAreRegistered, CollectedIsUnused, Protected,
       Current, Pinned, Usable
<1> QED
    BY <1>1, RevisionsStaySound, PTL

(* Whoever uses a Revision finds it whole, however objects are shared, but *)
(* for what an interrupted collection or repair has damaged.               *)
THEOREM UsedStaysWhole == RevisionSpec => []UsedIsWhole
<1>1. ASSUME RevisionInv, NEW r \in Revision, Protected(r)
      PROVE  r \in registered /\ Usable(r)
    BY <1>1 DEF RevisionInv, RowsInv, ReadersAreFresh, UsesAreRegistered, Protected, Current, Pinned,
       Usable
<1>2. RevisionInv => UsedIsWhole
    BY <1>1 DEF RevisionInv, FilesAreWhole, WholeFor, UsedIsWhole
<1> QED
    BY <1>2, RevisionsStaySound, PTL

(* A Revision is not collected within a day after a runner had it.         *)
THEOREM GraceIsKept == RevisionSpec => GraceFollowsTheLastReader
<1>1. RevisionInv /\ [RevisionNext]_revisionVars => [GraceKept]_revisionVars
    BY RevisionInvNext
<1>2. RevisionSpec => [][GraceKept]_revisionVars
    BY <1>1, RevisionsStaySound, PTL DEF RevisionSpec
<1> QED
    BY <1>2 DEF GraceFollowsTheLastReader, GraceKept
=============================================================================
