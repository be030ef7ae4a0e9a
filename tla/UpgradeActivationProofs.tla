----------------------- MODULE UpgradeActivationProofs -----------------------
(***************************************************************************)
(* Proofs about UpgradeActivation, for any number of upgrades, releases,   *)
(* migrations and Daemon instances, with one command at a time.            *)
(***************************************************************************)
EXTENDS UpgradeActivation, TLAPS

(* No two controllers work at once.                                        *)
OneCommand == \A c, d \in Client : c = d

Outcomes == {"upgrade-refused", "activated", "rolled-back", "repair-required"}

\* Stages of the journal, in their order.
BeforeTheStop ==
    {"prepared", "draining", "drained", "mutations-held", "final-preflight-accepted",
     "handoff-prepared", "controller-ready", "controller-accepted", "backup-verified",
     "cleanup-started"}

WhileStopped == {"owned-processes-stopped", "process-stopped"}

AfterTheSwitch ==
    {"candidate-selected", "candidate-ready", "activation-authorized", "rollback-selected",
     "rollback-ready"}

EntryStages == BeforeTheStop \cup WhileStopped \cup AfterTheSwitch \cup Outcomes

ReceiptStages ==
    {"prepared", "draining", "mutations-held", "final-preflight-refused"}
        \cup CheckedStages \cup TerminalStages

AnyEntries ==
    [source : Release, candidate : Release, stage : EntryStages, rev : Nat,
     forced : BOOLEAN, owner : Nat, readiness : Nat, rollbackAttempted : BOOLEAN,
     outcome : Outcomes \cup {None}]

Entries == {e \in AnyEntries : e.outcome = IF e.stage \in Outcomes THEN e.stage ELSE None}

Receipts ==
    [source : Release, candidate : Release, stage : ReceiptStages, dispatchHeld : BOOLEAN,
     mutationsHeld : BOOLEAN, handoff : BOOLEAN, backup : BOOLEAN, migrated : BOOLEAN,
     readiness : Nat, by : Release \cup {None}]

Daemons ==
    [instance : Nat, restricted : BOOLEAN, held : BOOLEAN, holder : Operation \cup {None},
     stopping : BOOLEAN, executing : BOOLEAN, mutating : BOOLEAN,
     call : {NoCall} \cup
            [op : Operation, at : {"force", "hold", "refuse", "stop", "activate", "settle"}]]

Places == {"step", "call", "preflighted", "refused", "waiting", "failed", "rollback", "stopped"}

Todos == {<<>>} \cup {<<e>> : e \in Entries}

Controls ==
    [op : Operation, at : Places, view : Entries, todo : Todos, rollback : BOOLEAN]

UpgradeTypes ==
    /\ journal \in [Operation -> {NoEntry} \cup Entries]
    /\ receipt \in [Operation -> {NoReceipt} \cup Receipts]
    /\ selected \in Release
    /\ launcher \in Release \cup {None}
    /\ child \in BOOLEAN /\ (child => launcher # None)
    /\ daemon \in Daemons
    /\ ctl \in [Client -> {Idle} \cup Controls]
    /\ unchanged \in BOOLEAN

(* An operation that is not over: it is under way or left for repair.      *)
Current(o) == journal[o] # NoEntry /\ journal[o].outcome \in {None, "repair-required"}

Live(r) == r # NoReceipt /\ (r.stage \notin TerminalStages \/ r.dispatchHeld \/ r.mutationsHeld)

OneIsCurrent ==
    /\ \A o, p \in Operation : Current(o) /\ Current(p) => o = p
    /\ \A o \in Operation : Live(receipt[o]) => Current(o)
    /\ \A o \in Operation : journal[o] = NoEntry => receipt[o] = NoReceipt

HoldsBoth(r) == r.dispatchHeld /\ r.mutationsHeld

HoldsNothing(r) == ~r.dispatchHeld /\ ~r.mutationsHeld

(* What a receipt holds at its stage, and what it does not have yet.       *)
Orderly(r) ==
    /\ r.stage = "draining" => r.dispatchHeld
    /\ r.stage \in {"mutations-held", "final-preflight-refused"} \cup CheckedStages => HoldsBoth(r)
    /\ r.stage = "upgrade-refused" => HoldsNothing(r)
    /\ r.stage \in {"prepared", "draining", "mutations-held", "final-preflight-accepted"} =>
          ~r.handoff
    /\ r.stage \in {"prepared", "draining", "mutations-held", "final-preflight-accepted",
                   "handoff-prepared", "controller-accepted"} => ~r.backup

(* The receipt is where the entry says, or one step ahead of it.           *)
Meets(stage, r) ==
    /\ stage = "prepared" => r.stage \in {None, "prepared", "draining"}
    /\ stage = "draining" => r.stage = "draining"
    /\ stage = "drained" => r.stage \in {"draining", "mutations-held"}
    /\ stage = "mutations-held" =>
          r.stage \in {"mutations-held", "final-preflight-accepted", "final-preflight-refused",
                       "upgrade-refused"}
    /\ stage = "final-preflight-accepted" =>
          r.stage \in {"final-preflight-accepted", "handoff-prepared"}
    /\ stage = "handoff-prepared" => r.stage = "handoff-prepared"
    /\ stage = "controller-ready" => r.stage \in {"handoff-prepared", "controller-accepted"}
    /\ stage = "controller-accepted" => r.stage \in {"controller-accepted", "backup-verified"}
    /\ stage = "backup-verified" => r.stage = "backup-verified"
    /\ stage = "cleanup-started" => r.stage \in {"backup-verified", "source-execution-stopped"}
    /\ stage \in WhileStopped => r.stage = "source-execution-stopped"
    /\ stage = "candidate-selected" => r.stage \in {"source-execution-stopped", "candidate-ready"}
    /\ stage = "candidate-ready" => r.stage \in {"candidate-ready", "activation-authorized"}
    /\ stage = "rollback-selected" =>
          r.stage \in {"source-execution-stopped", "candidate-ready", "rollback-ready"}
    /\ stage = "rollback-ready" => r.stage \in {"rollback-ready", "rolled-back"}
    /\ stage \in {"activation-authorized", "activated"} =>
          r.stage = "activation-authorized" /\ HoldsNothing(r)
    /\ stage = "rolled-back" => r.stage = "rolled-back" /\ HoldsNothing(r)
    /\ stage = "upgrade-refused" => r.stage = "upgrade-refused"
    /\ stage = "repair-required" => r.stage \in CheckedStages \cup {"rolled-back"} /\ HoldsBoth(r)

Rests(d) == ~d.executing /\ ~d.mutating

(* What an entry says that is in the journal, or is to be written next.    *)
Fits(e, r, d) ==
    /\ r # NoReceipt => r.source = e.source /\ r.candidate = e.candidate
    /\ Meets(e.stage, r)
    /\ e.stage = "drained" => ~d.executing
    /\ e.stage = "repair-required" => Rests(d)

\* The Daemon has dropped its hold; the receipt drops it when the call returns.
Releasing(o, d) == d.call.op = o /\ d.call.at \in {"refuse", "settle"}

(* A Daemon that lives holds what the receipt says.                        *)
Kept(o, r, d, alive) ==
    alive /\ Live(r) /\ ~Releasing(o, d) =>
        /\ r.dispatchHeld => d.held
        /\ r.mutationsHeld => d.holder = o

(* Nothing runs from the hold of mutations to the end of the operation.    *)
Quiet(r, d, kept) ==
    /\ r.stage \in {"mutations-held"} \cup CheckedStages => Rests(d)
    /\ r.stage \in CheckedStages => kept

Sound(o, e, r, d, alive, kept) ==
    Fits(e, r, d) /\ Orderly(r) /\ Kept(o, r, d, alive) /\ Quiet(r, d, kept)

(* A call belongs to the stage that made it, and nothing overtakes it.     *)
CallFollows(call, e, r, d, alive) ==
    /\ alive /\ e # NoEntry /\ e.outcome = None
    /\ call.at = "force" => e.stage = "draining" /\ e.forced
    /\ call.at = "hold" => e.stage = "drained" /\ d.holder = call.op
    /\ call.at = "refuse" => e.stage = "mutations-held" /\ r.stage = "final-preflight-refused"
    /\ call.at = "stop" => e.stage = "cleanup-started" /\ r.stage = "backup-verified"
    /\ call.at \in {"activate", "settle"} =>
          \/ e.stage = "candidate-ready" /\ r.stage = "activation-authorized"
          \/ e.stage = "rollback-ready" /\ r.stage = "rolled-back"

(* Where a controller is, and the failed candidate it may roll back.       *)
Reached(at, e, r) ==
    /\ at = "preflighted" => e.stage = "prepared" /\ r # NoReceipt
    /\ at = "refused" =>
          e.stage = "mutations-held" /\ r.stage \in {"final-preflight-refused", "upgrade-refused"}
    /\ at = "waiting" => e.stage \in {"candidate-selected", "rollback-selected"}
    /\ at \in {"failed", "rollback", "stopped"} => e.stage = "candidate-selected"

RollsBack(at, e, r) ==
    /\ e.stage \in {"rollback-selected", "rollback-ready"}
    /\ IF at = "call" THEN r.stage = "rolled-back" /\ HoldsBoth(r) ELSE r.stage # "rolled-back"

(* A controller works on the journal's entry, and what it wants to write   *)
(* fits the receipt.                                                       *)
ControlFollows(x, e, r, d) ==
    /\ x.view = e /\ e # NoEntry /\ e.outcome = None
    /\ Reached(x.at, e, r)
    /\ x.todo # <<>> =>
          /\ x.at = "step" /\ d.call = NoCall
          /\ Fits(Head(x.todo), r, d) /\ Head(x.todo).stage # "prepared"
          /\ x.rollback =>
                Head(x.todo).stage \in Outcomes \/ RollsBack("step", Head(x.todo), r)
    /\ x.rollback /\ x.todo = <<>> => RollsBack(x.at, e, r)

OperationsAreSound ==
    \A o \in Operation :
        Current(o) => Sound(o, journal[o], receipt[o], daemon, child, unchanged)

CallIsFollowed ==
    daemon.call # NoCall =>
        CallFollows(daemon.call, journal[daemon.call.op], receipt[daemon.call.op], daemon, child)

ControlsFollow ==
    \A c \in Client :
        ctl[c] # Idle =>
            ControlFollows(ctl[c], journal[ctl[c].op], receipt[ctl[c].op], daemon)

UpgradeInv ==
    UpgradeTypes /\ OneIsCurrent /\ OperationsAreSound /\ CallIsFollowed /\ ControlsFollow

-----------------------------------------------------------------------------
LEMMA UpgradeInvInit == Init => UpgradeInv
<1> SUFFICES ASSUME Init PROVE UpgradeInv
    OBVIOUS
<1>1. UpgradeTypes
  <2>1. daemon \in Daemons
      BY DEF Init, Down, Daemons
  <2> QED
      BY <2>1, ReadsAssumption DEF Init, UpgradeTypes
<1>2. OneIsCurrent /\ OperationsAreSound
    BY DEF Init, OneIsCurrent, OperationsAreSound, Current, Live, NoEntry, NoReceipt
<1>3. CallIsFollowed /\ ControlsFollow
    BY DEF Init, CallIsFollowed, ControlsFollow, Down
<1> QED
    BY <1>1, <1>2, <1>3 DEF UpgradeInv

(* What is known of the controller at work and of its operation.           *)
LEMMA ControlFacts ==
    ASSUME UpgradeInv, NEW c \in Client, ctl[c] # Idle
    PROVE  /\ ctl[c] \in Controls /\ ctl[c].op \in Operation
           /\ ctl[c].view = journal[ctl[c].op] /\ ctl[c].view \in Entries
           /\ ctl[c].view # NoEntry /\ ctl[c].view.outcome = None
           /\ ctl[c].view.stage \notin Outcomes
           /\ Current(ctl[c].op) /\ Pending(ctl[c].op)
           /\ receipt[ctl[c].op] \in {NoReceipt} \cup Receipts
           /\ Sound(ctl[c].op, ctl[c].view, receipt[ctl[c].op], daemon, child, unchanged)
           /\ ControlFollows(ctl[c], ctl[c].view, receipt[ctl[c].op], daemon)
           /\ daemon.call # NoCall =>
                 daemon.call.op = ctl[c].op
                 /\ CallFollows(daemon.call, ctl[c].view, receipt[ctl[c].op], daemon, child)
<1> DEFINE o == ctl[c].op
           x == ctl[c]
<1>1. x \in Controls /\ o \in Operation
    BY DEF UpgradeInv, UpgradeTypes, Controls
<1>2. ControlFollows(x, journal[o], receipt[o], daemon)
    BY DEF UpgradeInv, ControlsFollow
<1>3. x.view = journal[o] /\ journal[o] # NoEntry /\ journal[o].outcome = None
    BY <1>2 DEF ControlFollows
<1>4. x.view \in Entries /\ x.view.stage \notin Outcomes
  <2>1. x.view \in Entries
      BY <1>1 DEF Controls
  <2> QED
      BY <1>3, <2>1 DEF Entries, Outcomes, None
<1>5. Current(o) /\ Pending(o)
    BY <1>3 DEF Current, Pending
<1>6. Sound(o, x.view, receipt[o], daemon, child, unchanged)
    BY <1>1, <1>3, <1>5 DEF UpgradeInv, OperationsAreSound
<1>7. receipt[o] \in {NoReceipt} \cup Receipts
    BY <1>1 DEF UpgradeInv, UpgradeTypes
<1>8. ASSUME daemon.call # NoCall
      PROVE  daemon.call.op = o /\ CallFollows(daemon.call, x.view, receipt[o], daemon, child)
  <2>1. CallFollows(daemon.call, journal[daemon.call.op], receipt[daemon.call.op], daemon, child)
      BY <1>8 DEF UpgradeInv, CallIsFollowed
  <2>2. daemon.call.op \in Operation
      BY <1>8 DEF UpgradeInv, UpgradeTypes, Daemons
  <2>3. Current(daemon.call.op)
      BY <2>1 DEF Current, CallFollows
  <2>4. daemon.call.op = o
      BY <1>1, <1>5, <2>2, <2>3 DEF UpgradeInv, OneIsCurrent
  <2> QED
      BY <1>3, <2>1, <2>4
<1> QED
    BY <1>1, <1>2, <1>3, <1>4, <1>5, <1>6, <1>7, <1>8

(* What is known of the operation a call belongs to.                       *)
LEMMA CallFacts ==
    ASSUME UpgradeInv, daemon.call # NoCall
    PROVE  LET o == daemon.call.op
           IN  /\ o \in Operation /\ Current(o) /\ journal[o] \in Entries
               /\ receipt[o] \in {NoReceipt} \cup Receipts
               /\ Sound(o, journal[o], receipt[o], daemon, child, unchanged)
               /\ CallFollows(daemon.call, journal[o], receipt[o], daemon, child)
<1> DEFINE o == daemon.call.op
<1>1. CallFollows(daemon.call, journal[o], receipt[o], daemon, child)
    BY DEF UpgradeInv, CallIsFollowed
<1>2. o \in Operation
    BY DEF UpgradeInv, UpgradeTypes, Daemons
<1>3. Current(o) /\ journal[o] # NoEntry
    BY <1>1 DEF Current, CallFollows
<1>4. journal[o] \in Entries /\ receipt[o] \in {NoReceipt} \cup Receipts
    BY <1>2, <1>3 DEF UpgradeInv, UpgradeTypes
<1> QED
    BY <1>1, <1>2, <1>3, <1>4 DEF UpgradeInv, OperationsAreSound

(* The journal stays; the receipt of the operation at work moves.          *)
LEMMA OperationMoves ==
    ASSUME UpgradeInv, UpgradeTypes', NEW o \in Operation, Current(o), NEW next,
           receipt' = [receipt EXCEPT ![o] = next], UNCHANGED journal,
           Sound(o, journal[o], next, daemon', child', unchanged'),
           daemon'.call # NoCall =>
              daemon'.call.op = o /\ CallFollows(daemon'.call, journal[o], next, daemon', child'),
           \A c \in Client : ctl'[c] # Idle =>
              ctl'[c].op = o /\ ControlFollows(ctl'[c], journal[o], next, daemon')
    PROVE  UpgradeInv'
<1>1. receipt'[o] = next /\ \A p \in Operation : p # o => receipt'[p] = receipt[p]
    BY DEF UpgradeInv, UpgradeTypes
<1>2. \A p \in Operation : Current(p)' <=> p = o
    BY DEF UpgradeInv, OneIsCurrent, Current
<1>3. OneIsCurrent'
    BY <1>1, <1>2 DEF UpgradeInv, OneIsCurrent, Current
<1>4. OperationsAreSound'
    BY <1>1, <1>2 DEF OperationsAreSound
<1>5. CallIsFollowed' /\ ControlsFollow'
    BY <1>1 DEF CallIsFollowed, ControlsFollow
<1> QED
    BY <1>3, <1>4, <1>5 DEF UpgradeInv

(* A controller that works alone moves the receipt and goes on.            *)
LEMMA ControlMoves ==
    ASSUME UpgradeInv, OneCommand, NEW c \in Client, ctl[c] # Idle, NEW next \in Receipts,
           receipt' = [receipt EXCEPT ![ctl[c].op] = next],
           UNCHANGED journal, selected' \in Release, launcher' \in Release \cup {None},
           child' \in BOOLEAN, child' => launcher' # None,
           daemon' \in Daemons, unchanged' \in BOOLEAN,
           NEW at \in Places, NEW todo \in Todos, NEW rollback \in BOOLEAN,
           ctl' = [ctl EXCEPT ![c] = [@ EXCEPT !.at = at, !.todo = todo, !.rollback = rollback]],
           Sound(ctl[c].op, ctl[c].view, next, daemon', child', unchanged'),
           daemon'.call # NoCall =>
              /\ daemon'.call.op = ctl[c].op
              /\ CallFollows(daemon'.call, ctl[c].view, next, daemon', child'),
           ControlFollows([ctl[c] EXCEPT !.at = at, !.todo = todo, !.rollback = rollback],
                          ctl[c].view, next, daemon')
    PROVE  UpgradeInv'
<1> DEFINE o == ctl[c].op
           y == [ctl[c] EXCEPT !.at = at, !.todo = todo, !.rollback = rollback]
<1>1. /\ o \in Operation /\ Current(o) /\ ctl[c].view = journal[o] /\ ctl[c] \in Controls
    BY ControlFacts
<1>2. y \in Controls /\ y.op = o
    BY <1>1 DEF Controls
<1>3. ctl' = [ctl EXCEPT ![c] = y] /\ ctl'[c] = y
    BY DEF UpgradeInv, UpgradeTypes
<1>4. ctl' \in [Client -> {Idle} \cup Controls]
    BY <1>2, <1>3 DEF UpgradeInv, UpgradeTypes
<1>5. receipt' \in [Operation -> {NoReceipt} \cup Receipts]
    BY <1>1 DEF UpgradeInv, UpgradeTypes
<1>6. UpgradeTypes'
    BY <1>4, <1>5 DEF UpgradeInv, UpgradeTypes
<1>7. \A d \in Client : d = c
    BY DEF OneCommand
<1>8. \A d \in Client : ctl'[d].op = o /\ ControlFollows(ctl'[d], journal[o], next, daemon')
    BY <1>1, <1>2, <1>3, <1>7
<1> HIDE DEF y
<1> QED
    BY <1>1, <1>6, <1>8, OperationMoves

LEMMA DoneBy ==
    ASSUME UpgradeInv, NEW c \in Client, ctl[c] # Idle, NEW at, NEW todo, Do(c, at, todo)
    PROVE  ctl' = [ctl EXCEPT ![c] = [@ EXCEPT !.at = at, !.todo = todo,
                                               !.rollback = ctl[c].rollback]]
<1>1. ctl[c] \in Controls
    BY ControlFacts
<1>2. [ctl[c] EXCEPT !.at = at, !.todo = todo, !.rollback = ctl[c].rollback]
         = [ctl[c] EXCEPT !.at = at, !.todo = todo]
    BY <1>1 DEF Controls
<1> QED
    BY <1>2 DEF Do, UpgradeInv, UpgradeTypes

(* Where the calls can be under way.                                       *)
LEMMA CallStages ==
    ASSUME UpgradeInv, daemon.call # NoCall, NEW e, NEW r,
           CallFollows(daemon.call, e, r, daemon, child)
    PROVE  \/ e.stage = "draining" /\ e.forced
           \/ e.stage = "drained"
           \/ e.stage = "mutations-held" /\ r.stage = "final-preflight-refused"
           \/ e.stage = "cleanup-started" /\ r.stage = "backup-verified"
           \/ e.stage = "candidate-ready" /\ r.stage = "activation-authorized"
           \/ e.stage = "rollback-ready" /\ r.stage = "rolled-back"
BY DEF CallFollows, UpgradeInv, UpgradeTypes, Daemons

(* The controller's next entry fits what the step leaves.                  *)
LEMMA ControlWrites ==
    ASSUME UpgradeInv, OneCommand, NEW c \in Client, ctl[c] # Idle, NEW next \in Receipts,
           receipt' = [receipt EXCEPT ![ctl[c].op] = next],
           UNCHANGED journal, selected' \in Release, launcher' \in Release \cup {None},
           child' \in BOOLEAN, child' => launcher' # None,
           daemon' \in Daemons, daemon'.call = NoCall, unchanged' \in BOOLEAN,
           NEW e \in Entries, e.stage # "prepared", Do(c, "step", <<e>>),
           Sound(ctl[c].op, ctl[c].view, next, daemon', child', unchanged'),
           Fits(e, next, daemon'),
           ctl[c].rollback => e.stage \in Outcomes \/ RollsBack("step", e, next)
    PROVE  UpgradeInv'
<1> DEFINE y == [ctl[c] EXCEPT !.at = "step", !.todo = <<e>>, !.rollback = ctl[c].rollback]
<1>1. /\ ctl[c] \in Controls /\ ctl[c].view # NoEntry /\ ctl[c].view.outcome = None
    BY ControlFacts
<1>2. /\ y.at = "step" /\ y.todo = <<e>> /\ y.rollback = ctl[c].rollback /\ y.view = ctl[c].view
    BY <1>1 DEF Controls
<1>3. Head(y.todo) = e /\ y.todo # <<>>
    BY <1>2
<1>4. ControlFollows(y, ctl[c].view, next, daemon')
    BY <1>1, <1>2, <1>3 DEF ControlFollows, Reached
<1>5. ctl' = [ctl EXCEPT ![c] = [@ EXCEPT !.at = "step", !.todo = <<e>>,
                                          !.rollback = ctl[c].rollback]]
    BY DoneBy
<1>6. "step" \in Places /\ <<e>> \in Todos /\ ctl[c].rollback \in BOOLEAN
    BY <1>1 DEF Places, Todos, Controls
<1> QED
    BY <1>4, <1>5, <1>6, ControlMoves

(* The controller goes on without an entry to write.                       *)
LEMMA ControlReaches ==
    ASSUME UpgradeInv, OneCommand, NEW c \in Client, ctl[c] # Idle, NEW next \in Receipts,
           receipt' = [receipt EXCEPT ![ctl[c].op] = next],
           UNCHANGED journal, selected' \in Release, launcher' \in Release \cup {None},
           child' \in BOOLEAN, child' => launcher' # None,
           daemon' \in Daemons, unchanged' \in BOOLEAN,
           NEW at \in Places, Do(c, at, <<>>),
           Sound(ctl[c].op, ctl[c].view, next, daemon', child', unchanged'),
           daemon'.call # NoCall =>
              /\ daemon'.call.op = ctl[c].op
              /\ CallFollows(daemon'.call, ctl[c].view, next, daemon', child'),
           Reached(at, ctl[c].view, next),
           ctl[c].rollback => RollsBack(at, ctl[c].view, next)
    PROVE  UpgradeInv'
<1> DEFINE y == [ctl[c] EXCEPT !.at = at, !.todo = <<>>, !.rollback = ctl[c].rollback]
<1>1. /\ ctl[c] \in Controls /\ ctl[c].view # NoEntry /\ ctl[c].view.outcome = None
    BY ControlFacts
<1>2. /\ y.at = at /\ y.todo = <<>> /\ y.rollback = ctl[c].rollback /\ y.view = ctl[c].view
    BY <1>1 DEF Controls
<1>3. ControlFollows(y, ctl[c].view, next, daemon')
    BY <1>1, <1>2 DEF ControlFollows
<1>4. ctl' = [ctl EXCEPT ![c] = [@ EXCEPT !.at = at, !.todo = <<>>,
                                          !.rollback = ctl[c].rollback]]
    BY DoneBy
<1>5. <<>> \in Todos /\ ctl[c].rollback \in BOOLEAN
    BY <1>1 DEF Todos, Controls
<1> QED
    BY <1>3, <1>4, <1>5, ControlMoves

LEMMA EntriesTo ==
    ASSUME NEW e \in Entries, e.outcome = None
    PROVE  /\ \A stage \in EntryStages \ Outcomes :
                 To(e, stage) \in Entries /\ To(e, stage).stage = stage
                 /\ To(e, stage).source = e.source /\ To(e, stage).candidate = e.candidate
           /\ \A outcome \in Outcomes :
                 Ended(e, outcome) \in Entries /\ Ended(e, outcome).stage = outcome
                 /\ Ended(e, outcome).source = e.source
                 /\ Ended(e, outcome).candidate = e.candidate
BY DEF Entries, AnyEntries, To, Ended, EntryStages

LEMMA ReceiptIsThere ==
    ASSUME NEW e \in Entries, e.stage # "prepared", NEW r \in {NoReceipt} \cup Receipts, NEW d,
           Fits(e, r, d)
    PROVE  r \in Receipts
<1>1. NoReceipt.stage = None
    BY DEF NoReceipt
<1>2. ASSUME r = NoReceipt
      PROVE  FALSE
    BY <1>1, <1>2 DEF Fits, Meets, Entries, AnyEntries, EntryStages, BeforeTheStop, WhileStopped,
                      AfterTheSwitch, Outcomes, CheckedStages, None
<1> QED
    BY <1>2

(* Steps before the hold of mutations.                                     *)
LEMMA DrainSteps ==
    ASSUME UpgradeInv, OneCommand, NEW c \in Client, ctl[c] # Idle,
           Preflight(c) \/ BeginDrain(c) \/ ReadDrain(c)
    PROVE  UpgradeInv'
<1> DEFINE o == ctl[c].op
           view == ctl[c].view
           r == receipt[o]
<1>1. /\ ctl[c] \in Controls /\ o \in Operation /\ view \in Entries /\ view # NoEntry
      /\ view.outcome = None /\ r \in {NoReceipt} \cup Receipts
      /\ Sound(o, view, r, daemon, child, unchanged) /\ ControlFollows(ctl[c], view, r, daemon)
      /\ daemon.call # NoCall =>
            daemon.call.op = o /\ CallFollows(daemon.call, view, r, daemon, child)
    BY ControlFacts
<1>2. /\ daemon \in Daemons /\ selected \in Release /\ launcher \in Release \cup {None}
      /\ child \in BOOLEAN /\ (child => launcher # None) /\ unchanged \in BOOLEAN
      /\ receipt \in [Operation -> {NoReceipt} \cup Receipts]
    BY DEF UpgradeInv, UpgradeTypes
<1>3. CASE Preflight(c)
  <2> DEFINE next == IF r = NoReceipt THEN Receipt(view) ELSE r
  <2>1. /\ view.stage = "prepared" /\ ctl[c].at = "step" /\ ctl[c].todo = <<>>
        /\ receipt' = [receipt EXCEPT ![o] = next] /\ Do(c, "preflighted", <<>>)
        /\ UNCHANGED <<journal, selected, launcher, child, daemon, unchanged>>
      BY <1>3 DEF Preflight, At, View, Op, Advance
  <2>2. Receipt(view) \in Receipts
      BY <1>1 DEF Receipt, Receipts, Entries, AnyEntries, ReceiptStages
  <2>3. next \in Receipts
      BY <1>1, <2>2
  <2>4. Receipt(view) # NoReceipt /\ Sound(o, view, Receipt(view), daemon, child, unchanged)
      BY <1>1, <2>1, <2>2 DEF Sound, Fits, Meets, Orderly, Kept, Quiet, Receipt, CheckedStages,
                              WhileStopped, NoReceipt, None
  <2>5. Sound(o, view, next, daemon, child, unchanged)
      BY <1>1, <2>4
  <2>6. daemon.call = NoCall
      BY <1>1, <2>1, CallStages
  <2>7. next # NoReceipt
      BY <2>4
  <2>8. ~ctl[c].rollback
      BY <1>1, <2>1 DEF ControlFollows, RollsBack, Controls
  <2> HIDE DEF next
  <2>9. Reached("preflighted", view, next) /\ "preflighted" \in Places
      BY <2>1, <2>7 DEF Reached, Places
  <2> QED
      BY <1>2, <2>1, <2>3, <2>5, <2>6, <2>8, <2>9, ControlReaches
<1>4. CASE BeginDrain(c)
  <2> DEFINE next == IF r.stage # "prepared" THEN r
                     ELSE [r EXCEPT !.stage = "draining", !.dispatchHeld = TRUE]
             d == [daemon EXCEPT !.held = TRUE]
             e == [To(view, "draining") EXCEPT !.owner = daemon.instance]
  <2>1. /\ view.stage = "prepared" /\ r # NoReceipt /\ ctl[c].at = "preflighted"
        /\ receipt' = [receipt EXCEPT ![o] = next] /\ daemon' = d /\ Do(c, "step", <<e>>)
        /\ UNCHANGED <<journal, selected, launcher, child, unchanged>>
      BY <1>1, <1>4 DEF BeginDrain, View, Op, Advance, ControlFollows, Reached
  <2>2. daemon.call = NoCall
      BY <1>1, <2>1, CallStages
  <2>3. ctl[c].todo = <<>> /\ ~ctl[c].rollback
      BY <1>1, <2>1 DEF ControlFollows, RollsBack
  <2>4. d \in Daemons /\ d.call = NoCall /\ d.held
      BY <1>2, <2>2 DEF Daemons
  <2>5. e \in Entries /\ e.stage = "draining" /\ e.source = view.source
        /\ e.candidate = view.candidate
    <3>1. To(view, "draining") \in Entries /\ To(view, "draining").stage = "draining"
          /\ To(view, "draining").source = view.source
          /\ To(view, "draining").candidate = view.candidate
        BY <1>1, EntriesTo DEF EntryStages, BeforeTheStop, Outcomes
    <3> QED
        BY <1>2, <3>1 DEF Entries, AnyEntries, Daemons
  <2>6. r \in Receipts /\ r.stage \in {"prepared", "draining"} /\ ~r.handoff /\ ~r.backup
      BY <1>1, <2>1 DEF Sound, Fits, Meets, Orderly, Receipts, ReceiptStages, CheckedStages,
                        TerminalStages, None
  <2>7. /\ next \in Receipts /\ next.stage = "draining" /\ next.dispatchHeld /\ ~next.handoff /\ ~next.backup
        /\ next.source = r.source /\ next.candidate = r.candidate
        /\ next.mutationsHeld = r.mutationsHeld
      BY <1>1, <2>6 DEF Receipts, ReceiptStages, Sound, Orderly
  <2>8. d.holder = daemon.holder /\ (r.mutationsHeld /\ child => d.holder = o)
      BY <1>1, <1>2, <2>1, <2>2, <2>6 DEF Sound, Kept, Live, TerminalStages, Releasing, NoCall,
                                          Daemons, None
  <2>9. Sound(o, view, next, d, child, unchanged) /\ Fits(e, next, d)
    <3> HIDE DEF next, d, e
    <3> QED
        BY <1>1, <2>1, <2>4, <2>5, <2>7, <2>8
           DEF Sound, Fits, Meets, Orderly, Kept, Quiet, CheckedStages, WhileStopped, None
  <2> HIDE DEF next, d, e
  <2> QED
      BY <1>2, <2>1, <2>3, <2>4, <2>5, <2>7, <2>9, ControlWrites
<1>5. CASE ReadDrain(c)
  <2> DEFINE e == To(view, "drained")
  <2>1. /\ view.stage = "draining" /\ ~view.forced /\ ctl[c].todo = <<>> /\ ~daemon.executing
        /\ Do(c, "step", <<e>>)
        /\ UNCHANGED <<journal, receipt, selected, launcher, child, daemon, unchanged>>
      BY <1>5 DEF ReadDrain, At, View, Op
  <2>2. daemon.call = NoCall
      BY <1>1, <2>1, CallStages
  <2>3. ~ctl[c].rollback
      BY <1>1, <2>1 DEF ControlFollows, RollsBack, Controls
  <2>4. e \in Entries /\ e.stage = "drained" /\ e.source = view.source
        /\ e.candidate = view.candidate
      BY <1>1, EntriesTo DEF EntryStages, BeforeTheStop, Outcomes
  <2>5. r \in Receipts /\ r.stage = "draining"
      BY <1>1, <2>1, ReceiptIsThere DEF Sound, Fits, Meets
  <2>6. Fits(e, r, daemon)
    <3> HIDE DEF e
    <3> QED
        BY <1>1, <2>1, <2>4, <2>5 DEF Sound, Fits, Meets, WhileStopped, CheckedStages
  <2>7. receipt' = [receipt EXCEPT ![o] = r]
      BY <1>2, <2>1
  <2> HIDE DEF e
  <2> QED
      BY <1>1, <1>2, <2>1, <2>2, <2>3, <2>4, <2>5, <2>6, <2>7, ControlWrites
<1> QED
    BY <1>3, <1>4, <1>5

(* The receipt goes on with its holds, and the entry follows it.           *)
LEMMA ControlAdvances ==
    ASSUME UpgradeInv, OneCommand, NEW c \in Client, ctl[c] # Idle, NEW next \in Receipts,
           receipt' = [receipt EXCEPT ![ctl[c].op] = next],
           UNCHANGED <<journal, selected, launcher, child, daemon>>,
           unchanged' \in BOOLEAN, daemon.call = NoCall, ~ctl[c].rollback,
           ctl[c].view.stage \notin {"prepared", "drained"},
           NEW e \in Entries, e.stage \notin {"prepared", "drained", "repair-required"},
           e.source = ctl[c].view.source, e.candidate = ctl[c].view.candidate,
           Do(c, "step", <<e>>),
           Orderly(next), Quiet(next, daemon, unchanged'),
           Meets(ctl[c].view.stage, next), Meets(e.stage, next),
           LET r == receipt[ctl[c].op]
           IN  /\ next.source = r.source /\ next.candidate = r.candidate
               /\ next.dispatchHeld = r.dispatchHeld /\ next.mutationsHeld = r.mutationsHeld
               /\ Live(next) => Live(r)
    PROVE  UpgradeInv'
<1> DEFINE o == ctl[c].op
           view == ctl[c].view
           r == receipt[o]
<1>1. /\ view \in Entries /\ view.stage \notin Outcomes /\ r \in {NoReceipt} \cup Receipts
      /\ Sound(o, view, r, daemon, child, unchanged)
    BY ControlFacts
<1>2. /\ daemon \in Daemons /\ selected \in Release /\ launcher \in Release \cup {None}
      /\ child \in BOOLEAN /\ (child => launcher # None)
    BY DEF UpgradeInv, UpgradeTypes
<1>3. r # NoReceipt
    BY <1>1, ReceiptIsThere DEF Sound, Receipts, NoReceipt
<1>4. Sound(o, view, next, daemon, child, unchanged')
    BY <1>1, <1>3 DEF Sound, Fits, Kept, Outcomes
<1>5. Fits(e, next, daemon)
    BY <1>1, <1>3 DEF Sound, Fits
<1> QED
    BY <1>2, <1>4, <1>5, ControlWrites

(* From the final check to the verified backup.                            *)
LEMMA HandoffSteps ==
    ASSUME UpgradeInv, OneCommand, NEW c \in Client, ctl[c] # Idle,
           \/ PrepareHandoff(c) \/ ContinueHandoff(c) \/ ConfirmControllerReady(c)
           \/ CreateVerifiedBackup(c)
    PROVE  UpgradeInv'
<1> DEFINE o == ctl[c].op
           view == ctl[c].view
           r == receipt[o]
<1>1. /\ ctl[c] \in Controls /\ view \in Entries
      /\ view.outcome = None /\ r \in {NoReceipt} \cup Receipts
      /\ Fits(view, r, daemon) /\ Orderly(r) /\ Quiet(r, daemon, unchanged)
      /\ ControlFollows(ctl[c], view, r, daemon)
      /\ daemon.call # NoCall => CallFollows(daemon.call, view, r, daemon, child)
    BY ControlFacts DEF Sound
<1>2. receipt \in [Operation -> {NoReceipt} \cup Receipts] /\ unchanged \in BOOLEAN
    BY DEF UpgradeInv, UpgradeTypes
<1>3. /\ UNCHANGED <<journal, selected, launcher, child, daemon, unchanged>>
      /\ view.stage \in {"final-preflight-accepted", "handoff-prepared", "backup-verified",
                         "activation-authorized", "controller-ready", "controller-accepted"}
      /\ ctl[c].todo = <<>>
    BY DEF PrepareHandoff, ContinueHandoff, ConfirmControllerReady, CreateVerifiedBackup, At, View
<1>4. daemon.call = NoCall /\ ~ctl[c].rollback /\ r \in Receipts
  <2>1. daemon.call = NoCall
      BY <1>1, <1>3, CallStages
  <2>2. ~ctl[c].rollback
      BY <1>1, <1>3 DEF ControlFollows, RollsBack
  <2> QED
      BY <1>1, <1>3, <2>1, <2>2, ReceiptIsThere
<1>5. Meets(view.stage, r)
    BY <1>1 DEF Fits
<1>6. ASSUME NEW e \in Entries, e.stage \notin {"prepared", "drained", "repair-required"},
             e.source = view.source, e.candidate = view.candidate,
             Do(c, "step", <<e>>), UNCHANGED receipt, Meets(e.stage, r)
      PROVE  UpgradeInv'
  <2>1. receipt' = [receipt EXCEPT ![o] = r]
      BY <1>2, <1>6
  <2>2. view.stage \notin {"prepared", "drained"}
      BY <1>3
  <2> QED
      BY <1>1, <1>2, <1>3, <1>4, <1>5, <1>6, <2>1, <2>2, ControlAdvances
<1>7. ASSUME NEW stage \in EntryStages \ Outcomes
      PROVE  LET e == To(view, stage)
             IN  /\ e \in Entries /\ e.stage = stage /\ e.source = view.source
                 /\ e.candidate = view.candidate
    BY <1>1, EntriesTo
<1>8. ASSUME NEW next \in Receipts, receipt' = [receipt EXCEPT ![o] = next],
             NEW stage \in EntryStages \ Outcomes,
             stage \notin {"prepared", "drained"},
             Do(c, "step", <<To(view, stage)>>), Orderly(next),
             Quiet(next, daemon, unchanged), Meets(view.stage, next), Meets(stage, next),
             next.source = r.source, next.candidate = r.candidate,
             next.dispatchHeld = r.dispatchHeld, next.mutationsHeld = r.mutationsHeld,
             Live(next) => Live(r)
      PROVE  UpgradeInv'
  <2> DEFINE e == To(view, stage)
  <2>1. /\ e \in Entries /\ e.stage = stage /\ e.source = view.source
        /\ e.candidate = view.candidate
      BY <1>7, <1>8
  <2>2. stage # "repair-required" /\ view.stage \notin {"prepared", "drained"}
      BY <1>3, <1>8 DEF Outcomes
  <2> HIDE DEF e
  <2> QED
      BY <1>2, <1>3, <1>4, <1>8, <2>1, <2>2, ControlAdvances DEF e
<1>9. CASE PrepareHandoff(c)
  <2> DEFINE next == IF r.handoff THEN r
                     ELSE [r EXCEPT !.stage = "handoff-prepared", !.handoff = TRUE]
  <2>1. /\ view.stage = "final-preflight-accepted"
        /\ r.handoff \/ r.stage = "final-preflight-accepted"
        /\ receipt' = [receipt EXCEPT ![o] = next]
        /\ Do(c, "step", <<To(view, "handoff-prepared")>>)
      BY <1>9 DEF PrepareHandoff, At, View, Op, Advance
  <2>2. r.handoff => r.stage = "handoff-prepared"
      BY <1>1, <1>5, <2>1 DEF Meets, Orderly
  <2>3. /\ next \in Receipts /\ next.stage = "handoff-prepared" /\ next.source = r.source
        /\ next.candidate = r.candidate /\ next.dispatchHeld = r.dispatchHeld
        /\ next.mutationsHeld = r.mutationsHeld /\ next.backup = r.backup
      BY <1>4, <2>1, <2>2 DEF Receipts, ReceiptStages, CheckedStages
  <2>4. "handoff-prepared" \in EntryStages \ Outcomes
      BY DEF EntryStages, BeforeTheStop, Outcomes
  <2> HIDE DEF next
  <2>5. r.stage \in CheckedStages /\ Live(r)
      BY <1>4, <2>1, <2>2 DEF CheckedStages, Live, TerminalStages, Receipts, NoReceipt
  <2>6. Orderly(next) /\ Quiet(next, daemon, unchanged)
      BY <1>1, <2>1, <2>2, <2>3, <2>5 DEF Orderly, Quiet, HoldsBoth, CheckedStages
  <2>7. Meets(view.stage, next) /\ Meets("handoff-prepared", next)
      BY <2>1, <2>3 DEF Meets, WhileStopped
  <2> QED
      BY <1>8, <2>1, <2>3, <2>4, <2>5, <2>6, <2>7
<1>10. CASE ContinueHandoff(c)
  <2>1. CASE At(c, "handoff-prepared") /\ Do(c, "step", <<To(View(c), "controller-ready")>>)
    <3> DEFINE e == To(view, "controller-ready")
    <3>1. view.stage = "handoff-prepared" /\ Do(c, "step", <<e>>) /\ UNCHANGED receipt
        BY <1>10, <2>1 DEF ContinueHandoff, At, View
    <3>2. /\ e \in Entries /\ e.stage = "controller-ready" /\ e.source = view.source
          /\ e.candidate = view.candidate
        BY <1>7 DEF EntryStages, BeforeTheStop, Outcomes
    <3>3. Meets("controller-ready", r)
        BY <1>5, <3>1 DEF Meets, WhileStopped
    <3> HIDE DEF e
    <3> QED
        BY <1>6, <3>1, <3>2, <3>3
  <2>2. CASE At(c, "backup-verified") /\ Do(c, "step", <<To(View(c), "cleanup-started")>>)
    <3> DEFINE e == To(view, "cleanup-started")
    <3>1. view.stage = "backup-verified" /\ Do(c, "step", <<e>>) /\ UNCHANGED receipt
        BY <1>10, <2>2 DEF ContinueHandoff, At, View
    <3>2. /\ e \in Entries /\ e.stage = "cleanup-started" /\ e.source = view.source
          /\ e.candidate = view.candidate
        BY <1>7 DEF EntryStages, BeforeTheStop, Outcomes
    <3>3. Meets("cleanup-started", r)
        BY <1>5, <3>1 DEF Meets, WhileStopped
    <3> HIDE DEF e
    <3> QED
        BY <1>6, <3>1, <3>2, <3>3
  <2>3. CASE /\ At(c, "activation-authorized")
             /\ Do(c, "step", <<Ended(View(c), "activated")>>)
    <3> DEFINE e == Ended(view, "activated")
    <3>1. view.stage = "activation-authorized" /\ Do(c, "step", <<e>>) /\ UNCHANGED receipt
        BY <1>10, <2>3 DEF ContinueHandoff, At, View
    <3>2. /\ e \in Entries /\ e.stage = "activated" /\ e.source = view.source
          /\ e.candidate = view.candidate
        BY <1>1, EntriesTo DEF Outcomes
    <3>3. Meets("activated", r)
        BY <1>5, <3>1 DEF Meets, WhileStopped
    <3> HIDE DEF e
    <3> QED
        BY <1>6, <3>1, <3>2, <3>3
  <2> QED
      BY <1>10, <2>1, <2>2, <2>3 DEF ContinueHandoff
<1>11. CASE ConfirmControllerReady(c)
  <2> DEFINE next == [r EXCEPT !.stage = "controller-accepted"]
  <2>1. /\ view.stage = "controller-ready" /\ r.stage \in {"handoff-prepared", "controller-accepted"}
        /\ receipt' = [receipt EXCEPT ![o] = next]
        /\ Do(c, "step", <<To(view, "controller-accepted")>>)
      BY <1>11 DEF ConfirmControllerReady, At, View, Op, Advance
  <2>2. /\ next \in Receipts /\ next.stage = "controller-accepted" /\ next.source = r.source
        /\ next.candidate = r.candidate /\ next.dispatchHeld = r.dispatchHeld
        /\ next.mutationsHeld = r.mutationsHeld /\ next.backup = r.backup
      BY <1>4, <2>1 DEF Receipts, ReceiptStages, CheckedStages
  <2>3. "controller-accepted" \in EntryStages \ Outcomes
      BY DEF EntryStages, BeforeTheStop, Outcomes
  <2> HIDE DEF next
  <2>4. r.stage \in CheckedStages /\ Live(r)
      BY <1>4, <2>1 DEF CheckedStages, Live, TerminalStages, Receipts, NoReceipt
  <2>5. Orderly(next) /\ Quiet(next, daemon, unchanged)
      BY <1>1, <2>1, <2>2, <2>4 DEF Orderly, Quiet, HoldsBoth, CheckedStages
  <2>6. Meets(view.stage, next) /\ Meets("controller-accepted", next)
      BY <2>1, <2>2 DEF Meets, WhileStopped
  <2> QED
      BY <1>8, <2>1, <2>2, <2>3, <2>4, <2>5, <2>6
<1>12. CASE CreateVerifiedBackup(c)
  <2> DEFINE next == IF r.backup THEN r
                     ELSE [r EXCEPT !.stage = "backup-verified", !.backup = TRUE]
  <2>1. /\ view.stage = "controller-accepted"
        /\ r.backup \/ r.stage = "controller-accepted"
        /\ receipt' = [receipt EXCEPT ![o] = next]
        /\ Do(c, "step", <<To(view, "backup-verified")>>)
      BY <1>12 DEF CreateVerifiedBackup, At, View, Op, Advance
  <2>2. r.backup => r.stage = "backup-verified"
      BY <1>1, <1>5, <2>1 DEF Meets, Orderly
  <2>3. /\ next \in Receipts /\ next.stage = "backup-verified" /\ next.source = r.source
        /\ next.candidate = r.candidate /\ next.dispatchHeld = r.dispatchHeld
        /\ next.mutationsHeld = r.mutationsHeld
      BY <1>4, <2>1, <2>2 DEF Receipts, ReceiptStages, CheckedStages
  <2>4. "backup-verified" \in EntryStages \ Outcomes
      BY DEF EntryStages, BeforeTheStop, Outcomes
  <2> HIDE DEF next
  <2>5. r.stage \in CheckedStages /\ Live(r)
      BY <1>4, <2>1, <2>2 DEF CheckedStages, Live, TerminalStages, Receipts, NoReceipt
  <2>6. Orderly(next) /\ Quiet(next, daemon, unchanged)
      BY <1>1, <2>3, <2>5 DEF Orderly, Quiet, HoldsBoth, CheckedStages
  <2>7. Meets(view.stage, next) /\ Meets("backup-verified", next)
      BY <2>1, <2>3 DEF Meets, WhileStopped
  <2> QED
      BY <1>8, <2>1, <2>3, <2>4, <2>5, <2>6, <2>7
<1> QED
    BY <1>9, <1>10, <1>11, <1>12

(* The final check, on the data as they are when mutations are held.       *)
LEMMA CheckSteps ==
    ASSUME UpgradeInv, OneCommand, NEW c \in Client, ctl[c] # Idle, RepeatPreflight(c)
    PROVE  UpgradeInv'
<1> DEFINE o == ctl[c].op
           view == ctl[c].view
           r == receipt[o]
           accepted == To(view, "final-preflight-accepted")
<1>1. /\ ctl[c] \in Controls /\ view \in Entries /\ view.outcome = None
      /\ r \in {NoReceipt} \cup Receipts
      /\ Sound(o, view, r, daemon, child, unchanged) /\ ControlFollows(ctl[c], view, r, daemon)
      /\ daemon.call # NoCall =>
            daemon.call.op = o /\ CallFollows(daemon.call, view, r, daemon, child)
    BY ControlFacts
<1>2. /\ daemon \in Daemons /\ selected \in Release /\ launcher \in Release \cup {None}
      /\ child \in BOOLEAN /\ (child => launcher # None) /\ unchanged \in BOOLEAN
      /\ receipt \in [Operation -> {NoReceipt} \cup Receipts]
    BY DEF UpgradeInv, UpgradeTypes
<1>3. /\ view.stage = "mutations-held" /\ ctl[c].todo = <<>>
      /\ UNCHANGED <<journal, selected, launcher, child, daemon>>
    BY DEF RepeatPreflight, At, View
<1>4. r \in Receipts /\ ~ctl[c].rollback
    BY <1>1, <1>3, ReceiptIsThere DEF Sound, ControlFollows, RollsBack
<1>5. /\ Meets("mutations-held", r) /\ Orderly(r) /\ Quiet(r, daemon, unchanged)
    BY <1>1, <1>3 DEF Sound, Fits
<1>6. ASSUME NEW next \in Receipts, receipt' = [receipt EXCEPT ![o] = next],
             unchanged' \in BOOLEAN, daemon.call = NoCall, Do(c, "step", <<accepted>>),
             next.stage = "final-preflight-accepted", Orderly(next),
             Quiet(next, daemon, unchanged'),
             next.source = r.source, next.candidate = r.candidate,
             next.dispatchHeld = r.dispatchHeld, next.mutationsHeld = r.mutationsHeld,
             r.stage \in {"mutations-held", "final-preflight-accepted"}
      PROVE  UpgradeInv'
  <2>1. /\ accepted \in Entries /\ accepted.stage = "final-preflight-accepted"
        /\ accepted.source = view.source /\ accepted.candidate = view.candidate
      BY <1>1, EntriesTo DEF EntryStages, BeforeTheStop, Outcomes
  <2>2. Live(r)
      BY <1>4, <1>6 DEF Live, TerminalStages, NoReceipt, None
  <2>3. Meets(view.stage, next) /\ Meets("final-preflight-accepted", next)
      BY <1>3, <1>6 DEF Meets, WhileStopped
  <2> HIDE DEF accepted
  <2> QED
      BY <1>2, <1>3, <1>4, <1>6, <2>1, <2>2, <2>3, ControlAdvances
<1>7. ASSUME NEW next \in Receipts, receipt' = [receipt EXCEPT ![o] = next],
             UNCHANGED unchanged, Do(c, "refused", <<>>),
             next.stage \in {"final-preflight-refused", "upgrade-refused"},
             Sound(o, view, next, daemon, child, unchanged),
             daemon.call # NoCall =>
                daemon.call.op = o /\ CallFollows(daemon.call, view, next, daemon, child)
      PROVE  UpgradeInv'
  <2>1. Reached("refused", view, next) /\ "refused" \in Places
      BY <1>3, <1>7 DEF Reached, Places
  <2> QED
      BY <1>2, <1>3, <1>4, <1>7, <2>1, ControlReaches
<1>8. CASE r.stage = "final-preflight-accepted" /\ Do(c, "step", <<accepted>>)
           /\ UNCHANGED <<receipt, unchanged>>
  <2>1. daemon.call = NoCall
      BY <1>1, <1>3, <1>8, CallStages
  <2>2. receipt' = [receipt EXCEPT ![o] = r]
      BY <1>2, <1>8
  <2> QED
      BY <1>2, <1>4, <1>5, <1>6, <1>8, <2>1, <2>2
<1>9. CASE r.stage \in {"final-preflight-refused", "upgrade-refused"} /\ Do(c, "refused", <<>>)
           /\ UNCHANGED <<receipt, unchanged>>
  <2>1. receipt' = [receipt EXCEPT ![o] = r]
      BY <1>2, <1>9
  <2> QED
      BY <1>1, <1>4, <1>7, <1>9, <2>1
<1>10. CASE /\ r.stage = "mutations-held" /\ unchanged' = TRUE /\ Do(c, "step", <<accepted>>)
            /\ receipt' = [receipt EXCEPT ![o] = [r EXCEPT !.stage = "final-preflight-accepted"]]
  <2> DEFINE next == [r EXCEPT !.stage = "final-preflight-accepted"]
  <2>1. /\ next \in Receipts /\ next.stage = "final-preflight-accepted"
        /\ next.source = r.source /\ next.candidate = r.candidate
        /\ next.dispatchHeld = r.dispatchHeld /\ next.mutationsHeld = r.mutationsHeld
        /\ next.handoff = r.handoff /\ next.backup = r.backup
      BY <1>4 DEF Receipts, ReceiptStages, CheckedStages
  <2>2. daemon.call = NoCall
      BY <1>1, <1>3, <1>10, CallStages
  <2>3. receipt' = [receipt EXCEPT ![o] = next]
      BY <1>10
  <2> HIDE DEF next
  <2>4. Orderly(next) /\ Quiet(next, daemon, unchanged')
      BY <1>5, <1>10, <2>1 DEF Orderly, Quiet, HoldsBoth, CheckedStages
  <2> QED
      BY <1>6, <1>10, <2>1, <2>2, <2>3, <2>4
<1>11. CASE /\ r.stage = "mutations-held" /\ UNCHANGED unchanged /\ Do(c, "refused", <<>>)
            /\ receipt' = [receipt EXCEPT ![o] = [r EXCEPT !.stage = "final-preflight-refused"]]
  <2> DEFINE next == [r EXCEPT !.stage = "final-preflight-refused"]
  <2>1. /\ next \in Receipts /\ next.stage = "final-preflight-refused"
        /\ next.source = r.source /\ next.candidate = r.candidate
        /\ next.dispatchHeld = r.dispatchHeld /\ next.mutationsHeld = r.mutationsHeld
        /\ next.handoff = r.handoff /\ next.backup = r.backup
      BY <1>4 DEF Receipts, ReceiptStages
  <2>2. daemon.call = NoCall
      BY <1>1, <1>3, <1>11, CallStages
  <2>3. receipt' = [receipt EXCEPT ![o] = next]
      BY <1>11
  <2>4. Live(r) /\ r # NoReceipt
      BY <1>4, <1>11 DEF Live, TerminalStages, NoReceipt, None
  <2> HIDE DEF next
  <2>5. Orderly(next) /\ Quiet(next, daemon, unchanged)
      BY <1>5, <1>11, <2>1 DEF Orderly, Quiet, HoldsBoth, CheckedStages
  <2>6. Sound(o, view, next, daemon, child, unchanged)
      BY <1>1, <1>3, <2>1, <2>4, <2>5 DEF Sound, Fits, Meets, Kept, WhileStopped
  <2> QED
      BY <1>7, <1>11, <2>1, <2>2, <2>3, <2>6
<1>12. View(c) = view /\ Op(c) = o
    BY DEF View, Op
<1> QED
    BY <1>8, <1>9, <1>10, <1>11, <1>12 DEF RepeatPreflight, Advance

(* The calls that return later.                                            *)
LEMMA CallSteps ==
    ASSUME UpgradeInv, OneCommand, NEW c \in Client, ctl[c] # Idle,
           ForceDrain(c) \/ HoldMutations(c) \/ ReleaseUpgradeHolds(c) \/ StopOwnedProcesses(c)
    PROVE  UpgradeInv'
<1> DEFINE o == ctl[c].op
           view == ctl[c].view
           r == receipt[o]
<1>1. /\ ctl[c] \in Controls /\ o \in Operation /\ view \in Entries /\ view # NoEntry
      /\ view.outcome = None /\ r \in {NoReceipt} \cup Receipts
      /\ Sound(o, view, r, daemon, child, unchanged) /\ ControlFollows(ctl[c], view, r, daemon)
    BY ControlFacts
<1>2. /\ daemon \in Daemons /\ selected \in Release /\ launcher \in Release \cup {None}
      /\ child \in BOOLEAN /\ (child => launcher # None) /\ unchanged \in BOOLEAN
      /\ receipt \in [Operation -> {NoReceipt} \cup Receipts]
    BY DEF UpgradeInv, UpgradeTypes
<1>3. /\ view.stage \in {"draining", "drained", "mutations-held", "cleanup-started"}
      /\ child /\ daemon.call = NoCall /\ UNCHANGED <<journal, receipt, selected, launcher, child>>
      /\ UNCHANGED unchanged
    BY <1>1 DEF ForceDrain, HoldMutations, ReleaseUpgradeHolds, StopOwnedProcesses, At, View, Free,
                ControlFollows, Reached
<1>4. ctl[c].todo = <<>> /\ r \in Receipts /\ ~ctl[c].rollback /\ o # None
  <2>1. ctl[c].todo = <<>>
      BY <1>1 DEF ForceDrain, HoldMutations, ReleaseUpgradeHolds, StopOwnedProcesses, At,
                  ControlFollows
  <2> QED
      BY <1>1, <1>3, <2>1, ReceiptIsThere, NoneAssumption
         DEF Sound, ControlFollows, RollsBack
<1>5. receipt' = [receipt EXCEPT ![o] = r]
    BY <1>2, <1>3
<1>6. /\ Fits(view, r, daemon) /\ Meets(view.stage, r) /\ Orderly(r)
      /\ Quiet(r, daemon, unchanged) /\ (Live(r) /\ r.dispatchHeld => daemon.held)
      /\ Live(r) /\ r.mutationsHeld => daemon.holder = o
    BY <1>1, <1>3, <1>4 DEF Sound, Fits, Kept, Releasing, NoCall, None
<1>7. ASSUME NEW at \in {"force", "hold", "refuse", "stop"}, NEW d \in Daemons,
             daemon' = [d EXCEPT !.call = [op |-> o, at |-> at]], Do(c, "call", <<>>),
             d.executing = daemon.executing, d.mutating = daemon.mutating,
             at # "refuse" => d.held = daemon.held /\ d.holder \in {daemon.holder, o},
             CallFollows([op |-> o, at |-> at], view, r, d, TRUE)
      PROVE  UpgradeInv'
  <2> DEFINE e == [d EXCEPT !.call = [op |-> o, at |-> at]]
  <2>1. /\ e \in Daemons /\ e.call = [op |-> o, at |-> at] /\ e.executing = d.executing
        /\ e.mutating = d.mutating /\ e.held = d.held /\ e.holder = d.holder
      BY <1>1, <1>7 DEF Daemons
  <2> HIDE DEF e
  <2>2. Kept(o, r, e, child)
      BY <1>6, <1>7, <2>1 DEF Kept, Releasing
  <2>3. Sound(o, view, r, e, child, unchanged)
      BY <1>1, <1>6, <1>7, <2>1, <2>2 DEF Sound, Fits, Quiet, Rests
  <2>4. e.call.op = o /\ CallFollows(e.call, view, r, e, child)
      BY <1>3, <1>7, <2>1 DEF CallFollows
  <2>5. Reached("call", view, r) /\ "call" \in Places
      BY DEF Reached, Places
  <2>6. daemon' = e
      BY <1>7 DEF e
  <2> QED
      BY <1>2, <1>3, <1>4, <1>5, <1>7, <2>1, <2>3, <2>4, <2>5, <2>6, ControlReaches
<1>8. ASSUME NEW stage, stage \in {"owned-processes-stopped", "upgrade-refused"},
             NEW e \in Entries, e.stage = stage, e.source = view.source,
             e.candidate = view.candidate, Meets(stage, r),
             UNCHANGED daemon, Do(c, "step", <<e>>)
      PROVE  UpgradeInv'
  <2>1. e.stage \notin {"prepared", "drained", "repair-required"}
      BY <1>8
  <2>2. CASE view.stage = "drained"
      BY <1>6, <1>8, <2>2 DEF Meets, WhileStopped
  <2>3. CASE view.stage # "drained"
      BY <1>2, <1>3, <1>4, <1>5, <1>6, <1>8, <2>1, <2>3, ControlAdvances
  <2> QED
      BY <2>2, <2>3
<1>9. CASE ForceDrain(c)
  <2>1. /\ view.stage = "draining" /\ view.forced
        /\ daemon' = [[daemon EXCEPT !.stopping = TRUE] EXCEPT !.call = [op |-> o, at |-> "force"]]
        /\ Do(c, "call", <<>>)
      BY <1>9 DEF ForceDrain, At, View, Op, Calls
  <2>2. /\ [daemon EXCEPT !.stopping = TRUE] \in Daemons
        /\ [daemon EXCEPT !.stopping = TRUE].executing = daemon.executing
        /\ [daemon EXCEPT !.stopping = TRUE].mutating = daemon.mutating
        /\ [daemon EXCEPT !.stopping = TRUE].held = daemon.held
        /\ [daemon EXCEPT !.stopping = TRUE].holder = daemon.holder
      BY <1>2 DEF Daemons
  <2>3. CallFollows([op |-> o, at |-> "force"], view, r, [daemon EXCEPT !.stopping = TRUE], TRUE)
      BY <1>1, <2>1 DEF CallFollows
  <2> QED
      BY <1>7, <2>1, <2>2, <2>3
<1>10. CASE HoldMutations(c)
  <2>1. /\ view.stage = "drained"
        /\ daemon' = [[daemon EXCEPT !.holder = o] EXCEPT !.call = [op |-> o, at |-> "hold"]]
        /\ Do(c, "call", <<>>)
      BY <1>10 DEF HoldMutations, At, View, Op, Calls
  <2>2. /\ [daemon EXCEPT !.holder = o] \in Daemons
        /\ [daemon EXCEPT !.holder = o].executing = daemon.executing
        /\ [daemon EXCEPT !.holder = o].mutating = daemon.mutating
        /\ [daemon EXCEPT !.holder = o].held = daemon.held
        /\ [daemon EXCEPT !.holder = o].holder = o
      BY <1>1, <1>2 DEF Daemons
  <2>3. CallFollows([op |-> o, at |-> "hold"], view, r, [daemon EXCEPT !.holder = o], TRUE)
      BY <1>1, <2>1, <2>2 DEF CallFollows
  <2> QED
      BY <1>7, <2>1, <2>2, <2>3
<1>11. CASE ReleaseUpgradeHolds(c)
  <2>1. /\ view.stage = "mutations-held"
        /\ r.stage \in {"final-preflight-refused", "upgrade-refused"}
      BY <1>1, <1>11 DEF ReleaseUpgradeHolds, ControlFollows, Reached
  <2>2. CASE r.stage = "upgrade-refused"
    <3>1. Do(c, "step", <<Ended(view, "upgrade-refused")>>) /\ UNCHANGED daemon
        BY <1>11, <2>2 DEF ReleaseUpgradeHolds, Op, View
    <3>2. /\ Ended(view, "upgrade-refused") \in Entries
          /\ Ended(view, "upgrade-refused").stage = "upgrade-refused"
          /\ Ended(view, "upgrade-refused").source = view.source
          /\ Ended(view, "upgrade-refused").candidate = view.candidate
        BY <1>1, EntriesTo DEF Outcomes
    <3>3. Meets("upgrade-refused", r)
        BY <2>2 DEF Meets, WhileStopped
    <3> QED
        BY <1>8, <3>1, <3>2, <3>3
  <2>3. CASE r.stage = "final-preflight-refused"
    <3>1. /\ daemon' = [Released(daemon) EXCEPT !.call = [op |-> o, at |-> "refuse"]]
          /\ Do(c, "call", <<>>)
        BY <1>11, <2>3 DEF ReleaseUpgradeHolds, Op, View, Calls
    <3>2. /\ Released(daemon) \in Daemons /\ Released(daemon).executing = daemon.executing
          /\ Released(daemon).mutating = daemon.mutating
        BY <1>2 DEF Daemons, Released
    <3>3. CallFollows([op |-> o, at |-> "refuse"], view, r, Released(daemon), TRUE)
        BY <1>1, <2>1, <2>3 DEF CallFollows
    <3> QED
        BY <1>7, <3>1, <3>2, <3>3
  <2> QED
      BY <2>1, <2>2, <2>3
<1>12. CASE StopOwnedProcesses(c)
  <2>1. view.stage = "cleanup-started"
      BY <1>12 DEF StopOwnedProcesses, At, View
  <2>2. CASE r.stage = "source-execution-stopped" /\ UNCHANGED daemon
             /\ Do(c, "step", <<To(view, "owned-processes-stopped")>>)
    <3>1. /\ To(view, "owned-processes-stopped") \in Entries
          /\ To(view, "owned-processes-stopped").stage = "owned-processes-stopped"
          /\ To(view, "owned-processes-stopped").source = view.source
          /\ To(view, "owned-processes-stopped").candidate = view.candidate
        BY <1>1, EntriesTo DEF EntryStages, WhileStopped, Outcomes
    <3>2. Meets("owned-processes-stopped", r)
        BY <2>2 DEF Meets, WhileStopped
    <3> QED
        BY <1>8, <2>2, <3>1, <3>2
  <2>3. CASE /\ r.stage = "backup-verified" /\ Do(c, "call", <<>>)
             /\ daemon' = [[daemon EXCEPT !.stopping = TRUE]
                              EXCEPT !.call = [op |-> o, at |-> "stop"]]
    <3>1. /\ [daemon EXCEPT !.stopping = TRUE] \in Daemons
          /\ [daemon EXCEPT !.stopping = TRUE].executing = daemon.executing
          /\ [daemon EXCEPT !.stopping = TRUE].mutating = daemon.mutating
          /\ [daemon EXCEPT !.stopping = TRUE].held = daemon.held
          /\ [daemon EXCEPT !.stopping = TRUE].holder = daemon.holder
        BY <1>2 DEF Daemons
    <3>2. CallFollows([op |-> o, at |-> "stop"], view, r, [daemon EXCEPT !.stopping = TRUE], TRUE)
        BY <1>1, <2>1, <2>3 DEF CallFollows
    <3> QED
        BY <1>7, <2>3, <3>1, <3>2
  <2> QED
      BY <1>12, <2>2, <2>3 DEF StopOwnedProcesses, Calls, Op, View
<1> QED
    BY <1>9, <1>10, <1>11, <1>12

LEMMA DownFacts ==
    ASSUME NEW n \in Nat
    PROVE  /\ Down(n) \in Daemons /\ Rests(Down(n)) /\ Down(n).call = NoCall
           /\ Down(n).instance = n
BY DEF Down, Daemons, Rests

(* In the checked stages an operation can be left for repair.              *)
LEMMA RepairFits ==
    ASSUME NEW e \in Entries, e.outcome = None, NEW r \in Receipts, NEW d, NEW d2, NEW kept,
           Fits(e, r, d), Orderly(r), Quiet(r, d, kept), Rests(d) => Rests(d2),
           r.stage \in CheckedStages
    PROVE  /\ ToRepair(e) \in Entries /\ ToRepair(e).stage = "repair-required"
           /\ Fits(ToRepair(e), r, d2)
<1>1. /\ ToRepair(e) \in Entries /\ ToRepair(e).stage = "repair-required"
      /\ ToRepair(e).source = e.source /\ ToRepair(e).candidate = e.candidate
    BY EntriesTo DEF ToRepair, Outcomes
<1>2. Rests(d2) /\ HoldsBoth(r)
    BY DEF Quiet, Orderly
<1>3. Meets("repair-required", r)
    BY <1>2 DEF Meets, WhileStopped
<1> QED
    BY <1>1, <1>2, <1>3 DEF Fits

(* The service stops, another release is selected, the service starts.     *)
LEMMA SwitchSteps ==
    ASSUME UpgradeInv, OneCommand, NEW c \in Client, ctl[c] # Idle,
           \/ StopNative(c) \/ SelectCandidate(c) \/ StartSelected(c) \/ GiveUp(c)
           \/ InspectRollbackSafety(c) \/ RollbackStops(c) \/ RollbackSelects(c)
    PROVE  UpgradeInv'
<1> DEFINE o == ctl[c].op
           view == ctl[c].view
           r == receipt[o]
<1>1. /\ ctl[c] \in Controls /\ o \in Operation /\ view \in Entries /\ view # NoEntry
      /\ view.outcome = None /\ r \in {NoReceipt} \cup Receipts
      /\ Sound(o, view, r, daemon, child, unchanged) /\ ControlFollows(ctl[c], view, r, daemon)
      /\ daemon.call # NoCall => CallFollows(daemon.call, view, r, daemon, child)
    BY ControlFacts
<1>2. /\ daemon \in Daemons /\ selected \in Release /\ launcher \in Release \cup {None}
      /\ child \in BOOLEAN /\ (child => launcher # None) /\ unchanged \in BOOLEAN
      /\ receipt \in [Operation -> {NoReceipt} \cup Receipts]
    BY DEF UpgradeInv, UpgradeTypes
<1>3. /\ view.stage \in {"owned-processes-stopped", "process-stopped", "candidate-selected",
                         "rollback-selected"}
      /\ UNCHANGED <<journal, receipt, unchanged>>
    BY <1>1 DEF StopNative, SelectCandidate, StartSelected, GiveUp, InspectRollbackSafety,
                RollbackStops, RollbackSelects, At, View, ControlFollows, Reached
<1>4. ctl[c].todo = <<>> /\ daemon.call = NoCall /\ r \in Receipts
  <2>1. ctl[c].todo = <<>>
      BY <1>1 DEF StopNative, SelectCandidate, StartSelected, GiveUp, InspectRollbackSafety,
                  RollbackStops, RollbackSelects, At, ControlFollows
  <2>2. daemon.call = NoCall
      BY <1>1, <1>3, CallStages
  <2> QED
      BY <1>1, <1>3, <2>1, <2>2, ReceiptIsThere DEF Sound
<1>5. /\ Fits(view, r, daemon) /\ Meets(view.stage, r) /\ Orderly(r)
      /\ Quiet(r, daemon, unchanged) /\ r.stage \in CheckedStages
      /\ r.stage \in {"source-execution-stopped", "candidate-ready", "rollback-ready"}
      /\ view.stage # "rollback-selected" => r.stage # "rollback-ready"
    BY <1>1, <1>3 DEF Sound, Fits, Meets, WhileStopped, CheckedStages
<1>6. /\ receipt' = [receipt EXCEPT ![o] = r]
      /\ ctl[c].rollback => view.stage = "rollback-selected"
    BY <1>1, <1>2, <1>3, <1>4 DEF ControlFollows, RollsBack
<1> DEFINE d == Down(daemon.instance)
           Steady == UNCHANGED <<launcher, child, daemon>>
           Stopped == launcher' = None /\ child' = FALSE /\ daemon' = d
<1>7. daemon.instance \in Nat /\ d \in Daemons /\ Rests(d) /\ d.call = NoCall
    BY <1>2, DownFacts DEF Daemons
<1>8. ASSUME Steady \/ Stopped
      PROVE  /\ launcher' \in Release \cup {None} /\ child' \in BOOLEAN
             /\ (child' => launcher' # None) /\ daemon' \in Daemons /\ daemon'.call = NoCall
             /\ Sound(o, view, r, daemon', child', unchanged')
             /\ Rests(daemon) => Rests(daemon')
  <2>1. CASE Steady
      BY <1>1, <1>2, <1>3, <1>4, <2>1
  <2>2. CASE Stopped
    <3> HIDE DEF d
    <3>1. /\ launcher' \in Release \cup {None} /\ child' \in BOOLEAN
          /\ (child' => launcher' # None) /\ daemon' \in Daemons /\ daemon'.call = NoCall
          /\ Rests(daemon')
        BY <1>7, <2>2
    <3>2. Sound(o, view, r, daemon', child', unchanged')
        BY <1>3, <1>5, <2>2, <3>1 DEF Sound, Fits, Kept, Quiet, Rests
    <3> QED
        BY <3>1, <3>2
  <2> QED
      BY <1>8, <2>1, <2>2
<1> HIDE DEF Steady, Stopped
<1>9. ASSUME Steady \/ Stopped, selected' \in Release, NEW e \in Entries,
             e.stage \in {"process-stopped", "candidate-selected", "repair-required"},
             e.stage # "repair-required" => view.stage \in WhileStopped,
             Do(c, "step", <<e>>), Fits(e, r, daemon')
      PROVE  UpgradeInv'
  <2>1. ctl[c].rollback => e.stage \in Outcomes \/ RollsBack("step", e, r)
      BY <1>6, <1>9 DEF WhileStopped, Outcomes
  <2> QED
      BY <1>1, <1>2, <1>3, <1>4, <1>6, <1>8, <1>9, <2>1, ControlWrites
<1>10. ASSUME Steady \/ Stopped, UNCHANGED selected, Do(c, "step", <<ToRepair(view)>>)
       PROVE  UpgradeInv'
  <2>1. /\ ToRepair(view) \in Entries /\ ToRepair(view).stage = "repair-required"
        /\ Fits(ToRepair(view), r, daemon')
      BY <1>1, <1>4, <1>5, <1>8, <1>10, RepairFits
  <2> QED
      BY <1>2, <1>9, <1>10, <2>1
<1>11. ASSUME NEW stage \in WhileStopped \cup {"candidate-selected"},
              Steady \/ Stopped, selected' \in Release, Do(c, "step", <<To(view, stage)>>),
              stage \in {"process-stopped", "candidate-selected"}, view.stage \in WhileStopped
       PROVE  UpgradeInv'
  <2>1. /\ To(view, stage) \in Entries /\ To(view, stage).stage = stage
        /\ To(view, stage).source = view.source /\ To(view, stage).candidate = view.candidate
      BY <1>1, <1>11, EntriesTo DEF EntryStages, WhileStopped, AfterTheSwitch, Outcomes
  <2>2. Fits(To(view, stage), r, daemon')
      BY <1>5, <1>11, <2>1 DEF Fits, Meets, WhileStopped
  <2> QED
      BY <1>9, <1>11, <2>1, <2>2
<1>12. ASSUME Steady \/ Stopped, UNCHANGED selected, NEW at \in {"failed", "rollback", "stopped"},
              Do(c, at, <<>>), view.stage = "candidate-selected"
       PROVE  UpgradeInv'
  <2>1. Reached(at, view, r) /\ at \in Places /\ ~ctl[c].rollback
      BY <1>6, <1>12 DEF Reached, Places
  <2>2. selected' \in Release /\ unchanged' \in BOOLEAN
      BY <1>2, <1>3, <1>12
  <2> QED
      BY <1>3, <1>4, <1>6, <1>8, <1>12, <2>1, <2>2, ControlReaches
<1>13. View(c) = view /\ Op(c) = o
    BY DEF View, Op
<1>14. CASE StopNative(c)
  <2>1. view.stage = "owned-processes-stopped" /\ UNCHANGED selected
      BY <1>13, <1>14 DEF StopNative, At
  <2>2. \/ Stopped /\ Do(c, "step", <<To(view, "process-stopped")>>)
        \/ Steady /\ Do(c, "step", <<ToRepair(view)>>)
      BY <1>13, <1>14 DEF StopNative, ServiceStops, Steady, Stopped
  <2> QED
      BY <1>2, <1>10, <1>11, <2>1, <2>2 DEF WhileStopped
<1>15. CASE SelectCandidate(c)
  <2>1. /\ view.stage = "process-stopped" /\ selected' = view.candidate /\ Steady
        /\ Do(c, "step", <<To(view, "candidate-selected")>>)
      BY <1>13, <1>15 DEF SelectCandidate, Select, At, Steady
  <2>2. selected' \in Release
      BY <1>1, <2>1 DEF Entries, AnyEntries
  <2> QED
      BY <1>11, <2>1, <2>2 DEF WhileStopped
<1>16. CASE StartSelected(c)
  <2>1. /\ launcher' \in Release /\ Do(c, "waiting", <<>>)
        /\ view.stage \in {"candidate-selected", "rollback-selected"} /\ ctl[c].at = "step"
        /\ UNCHANGED <<selected, child, daemon>>
      BY <1>2, <1>13, <1>16 DEF StartSelected, Started, At
  <2>2. Reached("waiting", view, r) /\ "waiting" \in Places
      BY <2>1 DEF Reached, Places
  <2>3. ctl[c].rollback => RollsBack("waiting", view, r)
      BY <1>1, <1>4, <2>1 DEF ControlFollows, RollsBack
  <2>4. launcher' # None
      BY <2>1, NoneAssumption
  <2> QED
      BY <1>1, <1>2, <1>3, <1>4, <1>6, <2>1, <2>2, <2>3, <2>4, ControlReaches
<1>17. CASE GiveUp(c)
  <2>1. /\ Steady /\ UNCHANGED selected
        /\ \/ Do(c, "step", <<ToRepair(view)>>)
           \/ view.stage # "rollback-selected" /\ Do(c, "failed", <<>>)
        /\ ctl[c].at = "waiting"
      BY <1>13, <1>17 DEF GiveUp, Steady, RollingBack
  <2>2. view.stage \in {"candidate-selected", "rollback-selected"}
      BY <1>1, <2>1 DEF ControlFollows, Reached
  <2> QED
      BY <1>10, <1>12, <2>1, <2>2
<1>18. CASE InspectRollbackSafety(c)
  <2>1. /\ Steady /\ UNCHANGED selected /\ ctl[c].at = "failed"
        /\ Do(c, "rollback", <<>>) \/ Do(c, "step", <<ToRepair(view)>>)
      BY <1>13, <1>18 DEF InspectRollbackSafety, Steady
  <2>2. view.stage = "candidate-selected"
      BY <1>1, <2>1 DEF ControlFollows, Reached
  <2> QED
      BY <1>10, <1>12, <2>1, <2>2
<1>19. CASE RollbackStops(c)
  <2>1. /\ UNCHANGED selected /\ ctl[c].at = "rollback"
        /\ \/ Stopped /\ Do(c, "stopped", <<>>)
           \/ Steady /\ Do(c, "step", <<ToRepair(view)>>)
      BY <1>13, <1>19 DEF RollbackStops, ServiceStops, Steady, Stopped
  <2>2. view.stage = "candidate-selected"
      BY <1>1, <2>1 DEF ControlFollows, Reached
  <2> QED
      BY <1>10, <1>12, <2>1, <2>2
<1>20. CASE RollbackSelects(c)
  <2> DEFINE e == [To(view, "rollback-selected") EXCEPT !.rollbackAttempted = TRUE]
             y == [ctl[c] EXCEPT !.at = "step", !.todo = <<e>>, !.rollback = TRUE]
  <2>1. /\ Steady /\ selected' = view.source /\ ctl[c].at = "stopped"
        /\ ctl' = [ctl EXCEPT ![c].at = "step", ![c].rollback = TRUE, ![c].todo = <<e>>]
      BY <1>13, <1>20 DEF RollbackSelects, Select, Steady
  <2>2. view.stage = "candidate-selected"
      BY <1>1, <2>1 DEF ControlFollows, Reached
  <2>3. /\ e \in Entries /\ e.stage = "rollback-selected" /\ e.source = view.source
        /\ e.candidate = view.candidate
    <3>1. /\ To(view, "rollback-selected") \in Entries
          /\ To(view, "rollback-selected").stage = "rollback-selected"
          /\ To(view, "rollback-selected").source = view.source
          /\ To(view, "rollback-selected").candidate = view.candidate
        BY <1>1, EntriesTo DEF EntryStages, AfterTheSwitch, Outcomes
    <3> QED
        BY <3>1 DEF Entries, AnyEntries
  <2> HIDE DEF e
  <2>4. y.at = "step" /\ y.todo = <<e>> /\ y.rollback /\ y.view = view
      BY <1>1 DEF Controls
  <2>5. Head(y.todo) = e /\ y.todo # <<>>
      BY <2>4
  <2>6. Fits(e, r, daemon) /\ RollsBack("step", e, r)
      BY <1>5, <2>2, <2>3 DEF Fits, Meets, RollsBack, WhileStopped
  <2>7. ControlFollows(y, view, r, daemon)
      BY <1>1, <1>4, <2>3, <2>4, <2>5, <2>6 DEF ControlFollows, Reached
  <2>8. ctl' = [ctl EXCEPT ![c] = [@ EXCEPT !.at = "step", !.todo = <<e>>, !.rollback = TRUE]]
    <3>1. [ctl[c] EXCEPT !.at = "step", !.rollback = TRUE, !.todo = <<e>>] = y
        BY <1>1 DEF Controls
    <3> QED
        BY <2>1, <3>1 DEF UpgradeInv, UpgradeTypes
  <2>9. "step" \in Places /\ <<e>> \in Todos /\ TRUE \in BOOLEAN /\ selected' \in Release
      BY <1>1, <2>1, <2>3 DEF Places, Todos, Entries, AnyEntries
  <2>10. UNCHANGED <<launcher, child, daemon>>
      BY <2>1 DEF Steady
  <2> HIDE DEF y
  <2>11. ControlFollows([ctl[c] EXCEPT !.at = "step", !.todo = <<e>>, !.rollback = TRUE],
                        view, r, daemon)
      BY <2>7 DEF y
  <2> QED
      BY <1>1, <1>2, <1>3, <1>4, <1>6, <2>8, <2>9, <2>10, <2>11, ControlMoves
<1> QED
    BY <1>14, <1>15, <1>16, <1>17, <1>18, <1>19, <1>20

(* Readiness and the end of the operation.                                 *)
LEMMA MigrationKeeps ==
    ASSUME UpgradeInv, OneCommand, NEW c \in Client, ctl[c] # Idle, Migrate(c)
    PROVE  UpgradeInv'
<1> DEFINE o == ctl[c].op
           view == ctl[c].view
           r == receipt[o]
           next == [r EXCEPT !.migrated = TRUE]
<1>1. /\ ctl[c] \in Controls /\ o \in Operation /\ view = journal[o] /\ view \in Entries
      /\ Current(o) /\ r \in {NoReceipt} \cup Receipts
      /\ Sound(o, view, r, daemon, child, unchanged) /\ ControlFollows(ctl[c], view, r, daemon)
      /\ daemon.call # NoCall =>
            daemon.call.op = o /\ CallFollows(daemon.call, view, r, daemon, child)
    BY ControlFacts
<1>2. /\ receipt' = [receipt EXCEPT ![o] = next] /\ r.stage = "source-execution-stopped"
      /\ ctl[c].at = "waiting"
      /\ UNCHANGED <<journal, selected, launcher, child, daemon, ctl, unchanged>>
    BY DEF Migrate, MayBeReady, Op, Advance
<1>3. view.stage \in {"candidate-selected", "rollback-selected"}
    BY <1>1, <1>2 DEF ControlFollows, Reached
<1>4. r \in Receipts
    BY <1>1, <1>3, ReceiptIsThere DEF Sound
<1>5. /\ next \in Receipts /\ next.stage = r.stage /\ next.source = r.source
      /\ next.candidate = r.candidate /\ next.dispatchHeld = r.dispatchHeld
      /\ next.mutationsHeld = r.mutationsHeld /\ next.handoff = r.handoff
      /\ next.backup = r.backup
    BY <1>4 DEF Receipts
<1>6. r # NoReceipt /\ next # NoReceipt /\ daemon.call = NoCall
    BY <1>1, <1>3, <1>4, <1>5, CallStages DEF Receipts, NoReceipt
<1> HIDE DEF next
<1>7. Sound(o, view, next, daemon, child, unchanged)
    BY <1>1, <1>5, <1>6
       DEF Sound, Fits, Meets, Orderly, Kept, Live, Quiet, HoldsBoth, HoldsNothing
<1>8. ControlFollows(ctl[c], view, next, daemon)
  <2>1. ctl[c].todo = <<>>
      BY <1>1, <1>2 DEF ControlFollows
  <2> QED
      BY <1>1, <1>2, <1>3, <1>5, <2>1 DEF ControlFollows, Reached, RollsBack, HoldsBoth
<1>9. UpgradeTypes'
    BY <1>1, <1>2, <1>5 DEF UpgradeInv, UpgradeTypes
<1>10. \A d \in Client : d = c
    BY DEF OneCommand
<1>11. Sound(o, journal[o], next, daemon', child', unchanged')
    BY <1>1, <1>2, <1>7
<1>12. \A d \in Client : ctl'[d].op = o /\ ControlFollows(ctl'[d], journal[o], next, daemon')
    BY <1>1, <1>2, <1>8, <1>10
<1>13. daemon'.call = NoCall /\ UNCHANGED journal
    BY <1>2, <1>6
<1> QED
    BY <1>1, <1>2, <1>9, <1>11, <1>12, <1>13, OperationMoves

LEMMA ReadinessKeeps ==
    ASSUME UpgradeInv, OneCommand, NEW c \in Client, ctl[c] # Idle, ReadReadiness(c)
    PROVE  UpgradeInv'
<1> DEFINE o == ctl[c].op
           view == ctl[c].view
           r == receipt[o]
           ready == Ready(c)
           next == [r EXCEPT !.stage = ready, !.readiness = daemon.instance,
                             !.by = IF Recorded(c) THEN @ ELSE launcher]
           e == [To(view, ready) EXCEPT !.readiness = daemon.instance]
<1>1. /\ ctl[c] \in Controls /\ view \in Entries /\ view.outcome = None
      /\ r \in {NoReceipt} \cup Receipts
      /\ Sound(o, view, r, daemon, child, unchanged) /\ ControlFollows(ctl[c], view, r, daemon)
      /\ daemon.call # NoCall => CallFollows(daemon.call, view, r, daemon, child)
    BY ControlFacts
<1>2. /\ daemon \in Daemons /\ selected \in Release /\ launcher \in Release \cup {None}
      /\ child \in BOOLEAN /\ (child => launcher # None) /\ unchanged \in BOOLEAN
    BY DEF UpgradeInv, UpgradeTypes
<1>3. /\ receipt' = [receipt EXCEPT ![o] = next] /\ ctl[c].at = "waiting"
      /\ Do(c, "step", <<e>>)
      /\ UNCHANGED <<journal, selected, launcher, child, daemon, unchanged>>
    BY DEF ReadReadiness, MayBeReady, Op, View, Advance
<1>4. /\ view.stage \in {"candidate-selected", "rollback-selected"}
      /\ ready = IF view.stage = "rollback-selected" THEN "rollback-ready" ELSE "candidate-ready"
      /\ ctl[c].todo = <<>>
    BY <1>1, <1>3 DEF ControlFollows, Reached, Ready, RollingBack, View
<1>5. r \in Receipts /\ daemon.call = NoCall
    BY <1>1, <1>4, ReceiptIsThere, CallStages DEF Sound
<1>6. r.stage \in {"source-execution-stopped", "candidate-ready", "rollback-ready"}
    BY <1>1, <1>4 DEF Sound, Fits, Meets
<1>7. /\ next \in Receipts /\ next.stage = ready /\ next.source = r.source
      /\ next.candidate = r.candidate /\ next.dispatchHeld = r.dispatchHeld
      /\ next.mutationsHeld = r.mutationsHeld
  <2>1. ready \in ReceiptStages /\ daemon.instance \in Nat
      BY <1>2, <1>4 DEF ReceiptStages, CheckedStages, Daemons
  <2> HIDE DEF ready
  <2> QED
      BY <1>2, <1>5, <2>1 DEF Receipts
<1>8. /\ e \in Entries /\ e.stage = ready /\ e.source = view.source
      /\ e.candidate = view.candidate
  <2>1. ready \in EntryStages \ Outcomes /\ daemon.instance \in Nat
      BY <1>2, <1>4 DEF EntryStages, AfterTheSwitch, Outcomes, Daemons
  <2> HIDE DEF ready
  <2>2. /\ To(view, ready) \in Entries /\ To(view, ready).stage = ready
        /\ To(view, ready).source = view.source /\ To(view, ready).candidate = view.candidate
      BY <1>1, <2>1, EntriesTo
  <2> QED
      BY <2>1, <2>2 DEF Entries, AnyEntries
<1> HIDE DEF next, e
<1>9. Live(r) /\ Orderly(next) /\ Quiet(next, daemon, unchanged)
  <2>1. Live(r) /\ Orderly(r) /\ Quiet(r, daemon, unchanged)
      BY <1>1, <1>5, <1>6 DEF Sound, Live, TerminalStages, Receipts, NoReceipt
  <2>2. HoldsBoth(next) /\ Rests(daemon) /\ unchanged
      BY <1>6, <1>7, <2>1 DEF Orderly, Quiet, CheckedStages, HoldsBoth
  <2> QED
      BY <1>4, <1>7, <2>1, <2>2 DEF Orderly, Quiet, CheckedStages
<1>10. Meets(view.stage, next) /\ Meets(e.stage, next) /\ e.stage # "prepared"
    BY <1>4, <1>7, <1>8 DEF Meets, WhileStopped
<1>11. Fits(e, next, daemon) /\ Sound(o, view, next, daemon, child, unchanged)
  <2>1. r # NoReceipt /\ Fits(view, r, daemon) /\ Kept(o, r, daemon, child)
      BY <1>1, <1>5, <1>9 DEF Sound, Live
  <2> QED
      BY <1>4, <1>7, <1>8, <1>9, <1>10, <2>1 DEF Sound, Fits, Kept
<1>12. ctl[c].rollback => RollsBack("step", e, next)
    BY <1>1, <1>4, <1>7, <1>8 DEF ControlFollows, RollsBack
<1> QED
    BY <1>2, <1>3, <1>5, <1>7, <1>8, <1>10, <1>11, <1>12, ControlWrites

LEMMA FinishKeeps ==
    ASSUME UpgradeInv, OneCommand, NEW c \in Client, ctl[c] # Idle, Finish(c)
    PROVE  UpgradeInv'
<1> DEFINE o == ctl[c].op
           view == ctl[c].view
           r == receipt[o]
           end == IF view.stage = "candidate-ready" THEN "activation-authorized" ELSE "rolled-back"
           next == IF r.stage = view.stage THEN [r EXCEPT !.stage = end] ELSE r
           d == [daemon EXCEPT !.call = [op |-> o, at |-> "activate"]]
<1>1. /\ ctl[c] \in Controls /\ o \in Operation /\ view \in Entries /\ view # NoEntry
      /\ view.outcome = None /\ r \in {NoReceipt} \cup Receipts
      /\ Sound(o, view, r, daemon, child, unchanged) /\ ControlFollows(ctl[c], view, r, daemon)
    BY ControlFacts
<1>2. /\ daemon \in Daemons /\ selected \in Release /\ launcher \in Release \cup {None}
      /\ child \in BOOLEAN /\ (child => launcher # None) /\ unchanged \in BOOLEAN
    BY DEF UpgradeInv, UpgradeTypes
<1>3. /\ view.stage \in {"candidate-ready", "rollback-ready"} /\ ctl[c].todo = <<>>
      /\ ctl[c].at = "step" /\ child /\ daemon.call = NoCall
      /\ receipt' = [receipt EXCEPT ![o] = next] /\ daemon' = d /\ Do(c, "call", <<>>)
      /\ UNCHANGED <<journal, selected, launcher, child, unchanged>>
    BY DEF Finish, At, Free, Calls, Op, View, Advance
<1>4. r \in Receipts /\ o # None
    BY <1>1, <1>3, ReceiptIsThere, NoneAssumption DEF Sound
<1>5. /\ next \in Receipts /\ next.stage = end /\ next.source = r.source
      /\ next.candidate = r.candidate /\ next.dispatchHeld = r.dispatchHeld
      /\ next.mutationsHeld = r.mutationsHeld
  <2>1. r.stage # view.stage => r.stage = end
      BY <1>1, <1>3 DEF Sound, Fits, Meets
  <2>2. end \in ReceiptStages
      BY DEF ReceiptStages, TerminalStages
  <2> HIDE DEF end
  <2> QED
      BY <1>4, <2>1, <2>2 DEF Receipts
<1>6. /\ d \in Daemons /\ d.call = [op |-> o, at |-> "activate"] /\ d.held = daemon.held
      /\ d.holder = daemon.holder /\ daemon' = d
    BY <1>1, <1>2, <1>3 DEF Daemons
<1>7. Live(next) => Live(r)
    BY <1>3, <1>4, <1>5 DEF Live, TerminalStages, Receipts, NoReceipt
<1> HIDE DEF next, d
<1>8. Kept(o, next, d, child)
  <2>1. ~Releasing(o, daemon)
      BY <1>3 DEF Releasing, NoCall, None
  <2> QED
      BY <1>1, <1>5, <1>6, <1>7, <2>1 DEF Sound, Kept
<1>9. Sound(o, view, next, d, child, unchanged)
  <2>1. r # NoReceipt /\ Fits(view, r, daemon)
      BY <1>1, <1>4 DEF Sound, Receipts, NoReceipt
  <2> QED
      BY <1>3, <1>5, <1>8, <2>1
         DEF Sound, Fits, Meets, Orderly, Quiet, CheckedStages, WhileStopped
<1>10. CallFollows(d.call, view, next, d, child)
    BY <1>1, <1>3, <1>5, <1>6 DEF CallFollows
<1>11. Reached("call", view, next) /\ "call" \in Places
    BY DEF Reached, Places
<1>12. ctl[c].rollback => RollsBack("call", view, next)
  <2> SUFFICES ASSUME ctl[c].rollback PROVE RollsBack("call", view, next)
      OBVIOUS
  <2>1. view.stage = "rollback-ready" /\ r.stage # "rolled-back"
      BY <1>1, <1>3 DEF ControlFollows, RollsBack
  <2>2. r.stage = "rollback-ready"
      BY <1>1, <2>1 DEF Sound, Fits, Meets
  <2>3. HoldsBoth(r)
      BY <1>1, <2>2 DEF Sound, Orderly, CheckedStages
  <2> QED
      BY <1>5, <2>1, <2>3 DEF RollsBack, HoldsBoth
<1>13. Sound(o, view, next, daemon', child', unchanged')
    BY <1>3, <1>6, <1>9
<1>14. daemon'.call.op = o /\ CallFollows(daemon'.call, view, next, daemon', child')
  <2>1. daemon' = d /\ child' = child
      BY <1>3, <1>6
  <2>2. d.call.op = o
      BY <1>6
  <2>3. CallFollows(daemon'.call, view, next, daemon', child')
      BY <1>10, <2>1
  <2> QED
      BY <2>1, <2>2, <2>3
<1>15. /\ daemon' \in Daemons /\ unchanged' \in BOOLEAN /\ child' \in BOOLEAN
       /\ (child' => launcher' # None) /\ UNCHANGED journal
       /\ selected' \in Release /\ launcher' \in Release \cup {None}
    BY <1>2, <1>3, <1>6
<1> QED
    BY <1>3, <1>5, <1>11, <1>12, <1>13, <1>14, <1>15, ControlReaches

(* Controllers come and go, and the journal is written.                    *)
LEMMA ClientsComeAndGo ==
    ASSUME UpgradeInv, OneCommand, NEW c \in Client,
           ClientEnds(c) \/ \E o \in Operation : Resume(c, o)
    PROVE  UpgradeInv'
<1>1. UNCHANGED <<journal, receipt, selected, launcher, child, daemon, unchanged>>
    BY DEF ClientEnds, Resume
<1>2. OneIsCurrent' /\ OperationsAreSound' /\ CallIsFollowed'
    BY <1>1 DEF UpgradeInv, OneIsCurrent, OperationsAreSound, CallIsFollowed, Current
<1>3. CASE ClientEnds(c)
  <2>1. ctl' = [ctl EXCEPT ![c] = Idle]
      BY <1>3 DEF ClientEnds
  <2>2. UpgradeTypes'
      BY <1>1, <2>1 DEF UpgradeInv, UpgradeTypes
  <2>3. ControlsFollow'
      BY <1>1, <2>1 DEF UpgradeInv, UpgradeTypes, ControlsFollow
  <2> QED
      BY <1>2, <2>2, <2>3 DEF UpgradeInv
<1>4. ASSUME NEW o \in Operation, Resume(c, o)
      PROVE  UpgradeInv'
  <2> DEFINE x == Control(o, journal[o])
  <2>1. ctl' = [ctl EXCEPT ![c] = x] /\ Pending(o) /\ journal[o] \in Entries
      BY <1>4 DEF Resume, Pending, UpgradeInv, UpgradeTypes
  <2>2. /\ x \in Controls /\ x.op = o /\ x.at = "step" /\ x.view = journal[o] /\ x.todo = <<>>
        /\ ~x.rollback
      BY <2>1 DEF Control, Controls, Places, Todos
  <2> HIDE DEF x
  <2>3. ControlFollows(x, journal[o], receipt[o], daemon)
      BY <2>1, <2>2 DEF ControlFollows, Reached, Pending
  <2>4. UpgradeTypes'
      BY <1>1, <2>1, <2>2 DEF UpgradeInv, UpgradeTypes
  <2>5. \A d \in Client : d = c
      BY DEF OneCommand
  <2>6. ControlsFollow'
      BY <1>1, <2>1, <2>2, <2>3, <2>5 DEF UpgradeInv, UpgradeTypes, ControlsFollow
  <2> QED
      BY <1>2, <2>4, <2>6 DEF UpgradeInv
<1> QED
    BY <1>3, <1>4

(* A new entry is in the journal, and nothing else has moved.              *)
LEMMA EntryIsWritten ==
    ASSUME UpgradeInv, OneCommand, NEW c \in Client, NEW o \in Operation, NEW e \in Entries,
           \A p \in Operation : Current(p) => p = o,
           journal' = [journal EXCEPT ![o] = e],
           UNCHANGED <<receipt, selected, launcher, child, daemon, unchanged>>,
           Sound(o, e, receipt[o], daemon, child, unchanged),
           Live(receipt[o]) => e.outcome \in {None, "repair-required"},
           daemon.call # NoCall =>
              daemon.call.op = o /\ CallFollows(daemon.call, e, receipt[o], daemon, child),
           NEW x, ctl' = [ctl EXCEPT ![c] = x],
           \/ x = Idle
           \/ /\ x \in Controls /\ x.op = o
              /\ ControlFollows(x, e, receipt[o], daemon)
    PROVE  UpgradeInv'
<1>1. journal'[o] = e /\ \A p \in Operation : p # o => journal'[p] = journal[p]
    BY DEF UpgradeInv, UpgradeTypes
<1>2. UpgradeTypes'
    BY DEF UpgradeInv, UpgradeTypes
<1>3. e # NoEntry
    BY DEF Entries, AnyEntries, NoEntry, EntryStages, BeforeTheStop, WhileStopped, AfterTheSwitch,
           Outcomes, None
<1>4. \A p \in Operation : Current(p)' => p = o
    BY <1>1 DEF Current
<1>5. Current(o)' <=> e.outcome \in {None, "repair-required"}
    BY <1>1, <1>3 DEF Current
<1>6. OneIsCurrent'
    BY <1>1, <1>3, <1>4, <1>5 DEF UpgradeInv, OneIsCurrent
<1>7. OperationsAreSound'
    BY <1>1, <1>4 DEF OperationsAreSound
<1>8. CallIsFollowed'
    BY <1>1 DEF CallIsFollowed
<1>9. \A d \in Client : d = c
    BY DEF OneCommand
<1>10. ControlsFollow'
    BY <1>1, <1>9 DEF ControlsFollow, UpgradeInv, UpgradeTypes
<1> QED
    BY <1>2, <1>6, <1>7, <1>8, <1>10 DEF UpgradeInv

LEMMA OperationsBegin ==
    ASSUME UpgradeInv, OneCommand, NEW c \in Client, NEW o \in Operation,
           \/ \E candidate \in Release : Begin(c, o, candidate)
           \/ ForcePending(c, o)
    PROVE  UpgradeInv'
<1>1. ASSUME NEW e \in Entries, e.outcome = None
      PROVE  LET x == Control(o, e)
             IN  /\ x \in Controls /\ x.op = o /\ x.at = "step" /\ x.view = e /\ x.todo = <<>>
                 /\ ~x.rollback
    BY <1>1 DEF Control, Controls, Places, Todos
<1>2. ASSUME NEW e \in Entries, e # NoEntry, e.outcome = None
      PROVE  ControlFollows(Control(o, e), e, receipt[o], daemon)
    BY <1>1, <1>2 DEF ControlFollows, Reached
<1>3. CASE \E candidate \in Release : Begin(c, o, candidate)
  <2> PICK candidate \in Release : Begin(c, o, candidate)
      BY <1>3
  <2> DEFINE e == Entry(selected, candidate)
  <2>1. /\ journal[o] = NoEntry /\ \A p \in Operation : ~Pending(p)
        /\ ~RepairRequired
        /\ journal' = [journal EXCEPT ![o] = e] /\ ctl' = [ctl EXCEPT ![c] = Control(o, e)]
        /\ UNCHANGED <<receipt, selected, launcher, child, daemon, unchanged>>
      BY DEF Begin
  <2>2. e \in Entries /\ e.stage = "prepared" /\ e.outcome = None
      BY DEF Entry, Entries, AnyEntries, EntryStages, BeforeTheStop, Outcomes, UpgradeInv,
             UpgradeTypes
  <2> HIDE DEF e
  <2>3. \A p \in Operation : ~Current(p)
      BY <2>1 DEF Current, Pending, RepairRequired
  <2>4. receipt[o] = NoReceipt /\ daemon.call = NoCall
    <3>1. receipt[o] = NoReceipt
        BY <2>1 DEF UpgradeInv, OneIsCurrent
    <3> QED
        BY <2>3, <3>1, CallFacts
  <2>5. Sound(o, e, receipt[o], daemon, child, unchanged)
      BY <2>2, <2>4 DEF Sound, Fits, Meets, Orderly, Kept, Live, Quiet, NoReceipt, CheckedStages,
                        WhileStopped, None
  <2>6. e # NoEntry
      BY <2>2 DEF NoEntry, None
  <2>7. Control(o, e) \in Controls /\ Control(o, e).op = o
        /\ ControlFollows(Control(o, e), e, receipt[o], daemon)
      BY <1>1, <1>2, <2>2, <2>6
  <2> QED
      BY <2>1, <2>2, <2>3, <2>4, <2>5, <2>7, EntryIsWritten
<1>4. CASE ForcePending(c, o)
  <2> DEFINE e == [journal[o] EXCEPT !.forced = TRUE, !.rev = @ + 1]
             r == receipt[o]
  <2>1. /\ Pending(o) /\ journal[o].stage = "draining" /\ ~journal[o].forced
        /\ journal' = [journal EXCEPT ![o] = e] /\ ctl' = [ctl EXCEPT ![c] = Control(o, e)]
        /\ UNCHANGED <<receipt, selected, launcher, child, daemon, unchanged>>
      BY <1>4 DEF ForcePending
  <2>2. journal[o] \in Entries /\ Current(o)
      BY <2>1 DEF Pending, Current, UpgradeInv, UpgradeTypes
  <2>3. /\ e \in Entries /\ e.stage = "draining" /\ e.outcome = None
        /\ e.source = journal[o].source /\ e.candidate = journal[o].candidate
    <3> DEFINE j == journal[o]
    <3>1. j \in AnyEntries /\ j.outcome = None /\ j.stage = "draining" /\ j.rev + 1 \in Nat
        BY <2>1, <2>2 DEF Entries, AnyEntries, Pending
    <3>2. e = [j EXCEPT !.forced = TRUE, !.rev = j.rev + 1]
        OBVIOUS
    <3> HIDE DEF j, e
    <3>3. /\ e \in AnyEntries /\ e.stage = "draining" /\ e.outcome = None
          /\ e.source = j.source /\ e.candidate = j.candidate
        BY <3>1, <3>2 DEF AnyEntries
    <3> QED
        BY <3>3 DEF Entries, Outcomes, j
  <2> HIDE DEF e
  <2>4. daemon.call = NoCall
    <3> SUFFICES ASSUME daemon.call # NoCall PROVE FALSE
        OBVIOUS
    <3>1. /\ daemon.call.op \in Operation /\ Current(daemon.call.op)
          /\ CallFollows(daemon.call, journal[daemon.call.op], receipt[daemon.call.op], daemon,
                         child)
        BY CallFacts
    <3>2. daemon.call.op = o
        BY <2>2, <3>1 DEF UpgradeInv, OneIsCurrent
    <3> QED
        BY <2>1, <3>1, <3>2, CallStages
  <2>5. Sound(o, journal[o], r, daemon, child, unchanged)
      BY <2>2 DEF UpgradeInv, OperationsAreSound
  <2>6. Sound(o, e, r, daemon, child, unchanged)
      BY <2>1, <2>3, <2>5 DEF Sound, Fits
  <2>7. e # NoEntry
      BY <2>3 DEF NoEntry, None
  <2>8. Control(o, e) \in Controls /\ Control(o, e).op = o
        /\ ControlFollows(Control(o, e), e, r, daemon)
      BY <1>1, <1>2, <2>3, <2>7
  <2>9. \A p \in Operation : Current(p) => p = o
      BY <2>2 DEF UpgradeInv, OneIsCurrent
  <2> QED
      BY <2>1, <2>3, <2>4, <2>6, <2>8, <2>9, EntryIsWritten
<1> QED
    BY <1>3, <1>4

LEMMA WritingKeeps ==
    ASSUME UpgradeInv, OneCommand, NEW c \in Client, ctl[c] # Idle, WriteEntry(c)
    PROVE  UpgradeInv'
<1> DEFINE o == ctl[c].op
           view == ctl[c].view
           r == receipt[o]
           h == Head(ctl[c].todo)
           e == [h EXCEPT !.rev = view.rev + 1]
           x == IF e.outcome = None THEN [ctl[c] EXCEPT !.view = e, !.todo = Tail(ctl[c].todo)] ELSE Idle
<1>1. /\ ctl[c] \in Controls /\ o \in Operation /\ view \in Entries /\ view = journal[o]
      /\ Current(o) /\ r \in {NoReceipt} \cup Receipts
      /\ Sound(o, view, r, daemon, child, unchanged) /\ ControlFollows(ctl[c], view, r, daemon)
    BY ControlFacts
<1>2. /\ ctl[c].todo # <<>> /\ journal' = [journal EXCEPT ![o] = e]
      /\ ctl' = [ctl EXCEPT ![c] = x]
      /\ UNCHANGED <<receipt, selected, launcher, child, daemon, unchanged>>
  <2>1. journal[o].rev = view.rev
      BY <1>1
  <2>2. /\ ctl[c].todo # <<>>
        /\ UNCHANGED <<receipt, selected, launcher, child, daemon, unchanged>>
      BY DEF WriteEntry
  <2>3. journal' = [journal EXCEPT ![o] = e]
      BY <2>1 DEF WriteEntry, Op, View
  <2>4. ctl' = [ctl EXCEPT ![c] = x]
      BY <2>1 DEF WriteEntry, Op, View
  <2> QED
      BY <2>2, <2>3, <2>4
<1>3. h \in Entries /\ Tail(ctl[c].todo) = <<>>
  <2>1. PICK g \in Entries : ctl[c].todo = <<g>>
      BY <1>1, <1>2 DEF Controls, Todos
  <2> QED
      BY <2>1
<1>4. /\ e \in Entries /\ e.stage = h.stage /\ e.outcome = h.outcome /\ e.source = h.source
      /\ e.candidate = h.candidate
  <2>1. view.rev + 1 \in Nat
      BY <1>1 DEF Entries, AnyEntries
  <2> DEFINE n == view.rev + 1
  <2> HIDE DEF h, n
  <2>2. h \in AnyEntries /\ [h EXCEPT !.rev = n] \in AnyEntries
      BY <1>3, <2>1 DEF Entries, AnyEntries, n
  <2>3. /\ [h EXCEPT !.rev = n].stage = h.stage /\ [h EXCEPT !.rev = n].outcome = h.outcome
        /\ [h EXCEPT !.rev = n].source = h.source
        /\ [h EXCEPT !.rev = n].candidate = h.candidate
      BY <2>2 DEF AnyEntries
  <2> QED
      BY <1>3, <2>2, <2>3 DEF Entries, n
<1>5. /\ ctl[c].at = "step" /\ daemon.call = NoCall /\ Fits(h, r, daemon)
      /\ h.stage # "prepared"
      /\ ctl[c].rollback => h.stage \in Outcomes \/ RollsBack("step", h, r)
    BY <1>1, <1>2 DEF ControlFollows
<1>6. e # NoEntry /\ (e.outcome = None <=> e.stage \notin Outcomes)
    BY <1>4 DEF Entries, AnyEntries, NoEntry, EntryStages, BeforeTheStop, WhileStopped,
                AfterTheSwitch, Outcomes, None
<1>7. \/ x = Idle
      \/ /\ x \in Controls /\ x.op = o /\ x.at = "step" /\ x.view = e /\ x.todo = <<>>
         /\ x.rollback = ctl[c].rollback /\ e.outcome = None
  <2> HIDE DEF e
  <2>1. CASE e.outcome = None
      BY <1>1, <1>3, <1>4, <1>5, <2>1 DEF Controls, Todos
  <2> QED
      BY <2>1
<1> HIDE DEF e, x, h
<1>8. Fits(e, r, daemon)
    BY <1>4, <1>5 DEF Fits
<1>9. x = Idle \/ (x \in Controls /\ x.op = o /\ ControlFollows(x, e, r, daemon))
    BY <1>4, <1>5, <1>6, <1>7 DEF ControlFollows, Reached, RollsBack
<1>10. Sound(o, e, r, daemon, child, unchanged)
    BY <1>1, <1>8 DEF Sound
<1>11. Live(r) => e.outcome \in {None, "repair-required"}
  <2>1. e.outcome = IF e.stage \in Outcomes THEN e.stage ELSE None
      BY <1>4 DEF Entries
  <2>2. Orderly(r) /\ Meets(e.stage, r)
      BY <1>1, <1>8 DEF Sound, Fits
  <2> QED
      BY <2>1, <2>2 DEF Outcomes, Live, Meets, Orderly, HoldsNothing, TerminalStages
<1>12. \A p \in Operation : Current(p) => p = o
    BY <1>1 DEF UpgradeInv, OneIsCurrent
<1> QED
    BY <1>1, <1>2, <1>4, <1>5, <1>9, <1>10, <1>11, <1>12, EntryIsWritten

(* A controller while a call of its operation is under way: it waits for   *)
(* the answer, or it asks where the journal stands.                        *)
LEMMA WhileACallIsOpen ==
    ASSUME UpgradeInv, daemon.call # NoCall, NEW c \in Client, ctl[c] # Idle
    PROVE  /\ ctl[c] \in Controls /\ ctl[c].op = daemon.call.op /\ ctl[c].todo = <<>>
           /\ ctl[c].view = journal[daemon.call.op] /\ ctl[c].view \in Entries
           /\ Waits(c) <=> ctl[c].at = "call"
           /\ Waits(c) /\ ctl[c].rollback =>
                 ctl[c].view.stage = "rollback-ready" /\ receipt[daemon.call.op].stage = "rolled-back"
           /\ \A next, d :
                 ~Waits(c) /\ (ctl[c].view.stage = "mutations-held" => next.stage = "upgrade-refused")
                    => ControlFollows(ctl[c], ctl[c].view, next, d)
<1> DEFINE o == daemon.call.op
           view == ctl[c].view
           r == receipt[o]
<1>1. /\ ctl[c] \in Controls /\ ctl[c].op = o /\ view = journal[o] /\ view \in Entries
      /\ view # NoEntry /\ view.outcome = None
      /\ ControlFollows(ctl[c], view, r, daemon) /\ CallFollows(daemon.call, view, r, daemon, child)
    BY ControlFacts
<1>2. ctl[c].todo = <<>> /\ (Waits(c) <=> ctl[c].at = "call")
    BY <1>1 DEF ControlFollows, Waits, Op
<1>3. \/ view.stage = "draining" \/ view.stage = "drained"
      \/ view.stage = "mutations-held" /\ r.stage = "final-preflight-refused"
      \/ view.stage = "cleanup-started" \/ view.stage = "candidate-ready"
      \/ view.stage = "rollback-ready" /\ r.stage = "rolled-back"
    BY <1>1, CallStages
<1>4. ctl[c].rollback => ctl[c].at = "call" /\ view.stage = "rollback-ready"
    BY <1>1, <1>2, <1>3 DEF ControlFollows, RollsBack
<1>5. ASSUME NEW next, NEW d, ~Waits(c),
             view.stage = "mutations-held" => next.stage = "upgrade-refused"
      PROVE  ControlFollows(ctl[c], view, next, d)
  <2>1. Reached(ctl[c].at, view, next)
      BY <1>1, <1>3, <1>5 DEF ControlFollows, Reached
  <2> QED
      BY <1>1, <1>2, <1>4, <1>5, <2>1 DEF ControlFollows
<1> QED
    BY <1>1, <1>2, <1>3, <1>4, <1>5

LEMMA HeadOfOne == \A e : Head(<<e>>) = e /\ <<e>> # <<>>
OBVIOUS

(* A call returns, with the entry that its caller is to write.             *)
LEMMA CallAnswers ==
    ASSUME UpgradeInv, daemon.call # NoCall, NEW next \in Receipts,
           receipt' = [receipt EXCEPT ![daemon.call.op] = next],
           UNCHANGED <<journal, selected, launcher, child>>,
           daemon' \in Daemons, daemon'.call = NoCall, unchanged' \in BOOLEAN,
           NEW e \in Entries, e.stage # "prepared",
           ctl' = [c \in Client |->
                      IF Waits(c) THEN [ctl[c] EXCEPT !.at = "step", !.todo = <<e>>] ELSE ctl[c]],
           LET view == journal[daemon.call.op]
           IN  /\ view.stage = "mutations-held" => next.stage = "upgrade-refused"
               /\ view.stage = "rollback-ready" => e.stage \in Outcomes
               /\ Sound(daemon.call.op, view, next, daemon', child, unchanged'),
           Fits(e, next, daemon')
    PROVE  UpgradeInv'
<1> DEFINE o == daemon.call.op
<1>1. o \in Operation /\ Current(o)
    BY CallFacts
<1>2. journal[o] # NoEntry /\ journal[o].outcome = None
    BY DEF UpgradeInv, CallIsFollowed, CallFollows
<1>3. ASSUME NEW c \in Client, ctl[c] # Idle, Waits(c)
      PROVE  /\ ctl'[c] \in Controls /\ ctl'[c].op = o
             /\ ControlFollows(ctl'[c], journal[o], next, daemon')
  <2> DEFINE y == [ctl[c] EXCEPT !.at = "step", !.todo = <<e>>]
  <2>1. /\ ctl[c] \in Controls /\ ctl[c].op = o /\ ctl[c].view = journal[o]
        /\ ctl[c].rollback => journal[o].stage = "rollback-ready"
      BY <1>3, WhileACallIsOpen
  <2>2. /\ y \in Controls /\ y.op = o /\ y.view = journal[o] /\ y.at = "step" /\ y.todo = <<e>>
        /\ y.rollback = ctl[c].rollback
      BY <2>1 DEF Controls, Places, Todos
  <2>3. ctl'[c] = y
      BY <1>3
  <2> HIDE DEF y
  <2>4. Head(y.todo) = e /\ y.todo # <<>>
    <3>1. y.todo = <<e>>
        BY <2>2
    <3> QED
        BY <3>1, HeadOfOne, Zenon
  <2>5. ControlFollows(y, journal[o], next, daemon')
      BY <1>2, <2>1, <2>2, <2>4 DEF ControlFollows, Reached
  <2> QED
      BY <2>2, <2>3, <2>5
<1>4. ASSUME NEW c \in Client, ctl[c] # Idle, ~Waits(c)
      PROVE  /\ ctl'[c] \in Controls /\ ctl'[c].op = o
             /\ ControlFollows(ctl'[c], journal[o], next, daemon')
    BY <1>4, WhileACallIsOpen
<1>5. ASSUME NEW c \in Client, ctl[c] = Idle
      PROVE  ctl'[c] = Idle
  <2>1. Idle.at # "call"
      BY DEF Idle, None
  <2>2. ~Waits(c)
      BY <1>5, <2>1 DEF Waits
  <2> QED
      BY <1>5, <2>2
<1>6. ctl' \in [Client -> {Idle} \cup Controls]
    BY <1>3, <1>4, <1>5
<1>7. UpgradeTypes'
    BY <1>6 DEF UpgradeInv, UpgradeTypes
<1>8. \A c \in Client : ctl'[c] # Idle =>
          ctl'[c].op = o /\ ControlFollows(ctl'[c], journal[o], next, daemon')
    BY <1>3, <1>4, <1>5
<1> QED
    BY <1>1, <1>7, <1>8, OperationMoves

LEMMA CallsEnd ==
    ASSUME UpgradeInv,
           DrainForced \/ MutationsHeld \/ UpgradeRefused \/ ExecutionStopped \/ Settle
    PROVE  UpgradeInv'
<1> DEFINE o == daemon.call.op
           view == journal[o]
           r == receipt[o]
<1>1. daemon.call # NoCall /\ UNCHANGED <<journal, selected, launcher, child>>
  <2>1. daemon.call.at \in {"force", "hold", "refuse", "stop", "settle"}
        /\ UNCHANGED <<journal, selected, launcher, child>>
      BY DEF DrainForced, MutationsHeld, UpgradeRefused, ExecutionStopped, Settle
  <2>2. NoCall.at \notin {"force", "hold", "refuse", "stop", "settle"}
      BY DEF NoCall, None
  <2> QED
      BY <2>1, <2>2
<1>2. /\ o \in Operation /\ Current(o) /\ view \in Entries /\ view # NoEntry
      /\ view.outcome = None /\ r \in {NoReceipt} \cup Receipts
      /\ Sound(o, view, r, daemon, child, unchanged)
      /\ CallFollows(daemon.call, view, r, daemon, child)
    BY <1>1, CallFacts DEF CallFollows
<1>3. /\ daemon \in Daemons /\ unchanged \in BOOLEAN
      /\ receipt \in [Operation -> {NoReceipt} \cup Receipts]
    BY DEF UpgradeInv, UpgradeTypes
<1>4. view.stage # "prepared" /\ r \in Receipts /\ r # NoReceipt
  <2>1. view.stage # "prepared"
      BY <1>1, <1>2, CallStages
  <2>2. r \in Receipts
      BY <1>2, <2>1, ReceiptIsThere DEF Sound
  <2> QED
      BY <2>1, <2>2 DEF Receipts, NoReceipt
<1>5. /\ Fits(view, r, daemon) /\ Orderly(r) /\ Quiet(r, daemon, unchanged)
      /\ Kept(o, r, daemon, child) /\ r.source = view.source /\ r.candidate = view.candidate
      /\ Meets(view.stage, r)
    BY <1>2, <1>4 DEF Sound, Fits
\* The callers that wait all have the operation's entry.
<1>6. ASSUME NEW c \in Client, Waits(c)
      PROVE  ctl[c].view = view
  <2>1. Idle.at # "call"
      BY DEF Idle, None
  <2>2. ctl[c] # Idle
      BY <1>6, <2>1 DEF Waits
  <2> QED
      BY <1>1, <2>2, WhileACallIsOpen
<1>7. \A stage \in EntryStages \ Outcomes :
          /\ To(view, stage) \in Entries /\ To(view, stage).stage = stage
          /\ To(view, stage).source = view.source /\ To(view, stage).candidate = view.candidate
    BY <1>2, EntriesTo
<1>8. \A outcome \in Outcomes :
          /\ Ended(view, outcome) \in Entries /\ Ended(view, outcome).stage = outcome
          /\ Ended(view, outcome).source = view.source
          /\ Ended(view, outcome).candidate = view.candidate
    BY <1>2, EntriesTo
<1>9. CASE DrainForced
  <2> DEFINE d == Returned([daemon EXCEPT !.executing = FALSE, !.stopping = FALSE])
             e == To(view, "drained")
  <2>1. /\ daemon.call.at = "force" /\ daemon' = d /\ UNCHANGED receipt
        /\ unchanged' = (unchanged /\ ~daemon.executing)
      BY <1>9 DEF DrainForced
  <2>2. ctl' = [c \in Client |->
                  IF Waits(c) THEN [ctl[c] EXCEPT !.at = "step", !.todo = <<e>>] ELSE ctl[c]]
      BY <1>6, <1>9 DEF DrainForced, Answers, View
  <2>3. receipt' = [receipt EXCEPT ![o] = r] /\ unchanged' \in BOOLEAN
      BY <1>3, <2>1
  <2>4. /\ d \in Daemons /\ d.call = NoCall /\ d.held = daemon.held /\ d.holder = daemon.holder
        /\ ~d.executing
      BY <1>3 DEF Daemons, Returned
  <2>5. /\ e \in Entries /\ e.stage = "drained" /\ e.source = view.source
        /\ e.candidate = view.candidate
      BY <1>7 DEF EntryStages, BeforeTheStop, Outcomes
  <2>6. view.stage = "draining" /\ r.stage = "draining"
      BY <1>2, <1>5, <2>1 DEF CallFollows, Meets
  <2> HIDE DEF d, e
  <2>7. ~Releasing(o, daemon)
      BY <2>1 DEF Releasing
  <2>8. Sound(o, view, r, d, child, unchanged') /\ Fits(e, r, d)
      BY <1>5, <2>4, <2>5, <2>6, <2>7 DEF Sound, Fits, Meets, Kept, Quiet, CheckedStages, WhileStopped
  <2> QED
      BY <1>1, <1>4, <2>1, <2>2, <2>3, <2>4, <2>5, <2>6, <2>8, CallAnswers
<1>10. CASE MutationsHeld
  <2> DEFINE next == IF r.stage = "draining" THEN Held(r) ELSE r
             d == Returned(daemon)
             e == To(view, "mutations-held")
  <2>1. /\ daemon.call.at = "hold" /\ ~daemon.mutating /\ daemon' = d /\ UNCHANGED unchanged
        /\ receipt' = [receipt EXCEPT ![o] = next]
      BY <1>10 DEF MutationsHeld, Advance
  <2>2. ctl' = [c \in Client |->
                  IF Waits(c) THEN [ctl[c] EXCEPT !.at = "step", !.todo = <<e>>] ELSE ctl[c]]
      BY <1>6, <1>10 DEF MutationsHeld, Answers, View
  <2>3. /\ d \in Daemons /\ d.call = NoCall /\ d.held = daemon.held /\ d.holder = daemon.holder
        /\ d.executing = daemon.executing /\ d.mutating = daemon.mutating
      BY <1>3 DEF Daemons, Returned
  <2>4. /\ e \in Entries /\ e.stage = "mutations-held" /\ e.source = view.source
        /\ e.candidate = view.candidate
      BY <1>7 DEF EntryStages, BeforeTheStop, Outcomes
  <2>5. view.stage = "drained" /\ r.stage \in {"draining", "mutations-held"} /\ daemon.holder = o
        /\ ~daemon.executing
      BY <1>2, <1>5, <2>1 DEF CallFollows, Fits, Meets
  <2>6. /\ next \in Receipts /\ next.stage = "mutations-held" /\ next.source = r.source
        /\ next.candidate = r.candidate /\ HoldsBoth(next) /\ next.handoff = r.handoff
        /\ next.backup = r.backup
      BY <1>4, <1>5, <2>5 DEF Receipts, ReceiptStages, Held, Orderly, HoldsBoth
  <2> HIDE DEF next, d, e
  <2>7. ~Releasing(o, daemon) /\ r.dispatchHeld /\ Live(r)
      BY <1>4, <1>5, <2>1, <2>5 DEF Releasing, Orderly, HoldsBoth, Live
  <2>8. Orderly(next) /\ Kept(o, next, d, child) /\ Quiet(next, d, unchanged)
      BY <1>5, <2>1, <2>3, <2>5, <2>6, <2>7 DEF Orderly, Kept, Quiet, Rests, CheckedStages
  <2>9. Fits(view, next, d) /\ Fits(e, next, d)
      BY <1>5, <2>3, <2>4, <2>5, <2>6 DEF Fits, Meets, WhileStopped
  <2> QED
      BY <1>1, <1>3, <1>4, <2>1, <2>2, <2>3, <2>4, <2>5, <2>6, <2>8, <2>9, CallAnswers DEF Sound
<1>11. CASE UpgradeRefused
  <2> DEFINE next == HoldsOff(r, "upgrade-refused")
             d == Returned(daemon)
             e == Ended(view, "upgrade-refused")
  <2>1. /\ daemon.call.at = "refuse" /\ daemon' = d /\ UNCHANGED unchanged
        /\ receipt' = [receipt EXCEPT ![o] = next]
      BY <1>11 DEF UpgradeRefused, Advance
  <2>2. ctl' = [c \in Client |->
                  IF Waits(c) THEN [ctl[c] EXCEPT !.at = "step", !.todo = <<e>>] ELSE ctl[c]]
      BY <1>6, <1>11 DEF UpgradeRefused, Answers, View
  <2>3. d \in Daemons /\ d.call = NoCall
      BY <1>3 DEF Daemons, Returned
  <2>4. /\ e \in Entries /\ e.stage = "upgrade-refused" /\ e.source = view.source
        /\ e.candidate = view.candidate
      BY <1>8 DEF Outcomes
  <2>5. view.stage = "mutations-held"
      BY <1>2, <2>1 DEF CallFollows
  <2>6. /\ next \in Receipts /\ next.stage = "upgrade-refused" /\ next.source = r.source
        /\ next.candidate = r.candidate /\ HoldsNothing(next)
      BY <1>4 DEF Receipts, ReceiptStages, TerminalStages, HoldsOff, HoldsNothing
  <2> HIDE DEF next, d, e
  <2>7. Orderly(next) /\ Kept(o, next, d, child) /\ Quiet(next, d, unchanged)
      BY <2>6 DEF Orderly, Kept, Quiet, CheckedStages, HoldsNothing, Live, TerminalStages
  <2>8. Fits(view, next, d) /\ Fits(e, next, d)
      BY <1>5, <2>4, <2>5, <2>6 DEF Fits, Meets, WhileStopped
  <2> QED
      BY <1>1, <1>3, <1>4, <2>1, <2>2, <2>3, <2>4, <2>5, <2>6, <2>7, <2>8, CallAnswers DEF Sound
<1>12. CASE ExecutionStopped
  <2> DEFINE next == [r EXCEPT !.stage = "source-execution-stopped"]
             d == Returned([daemon EXCEPT !.executing = FALSE])
             e == [To(view, "owned-processes-stopped") EXCEPT !.owner = daemon.instance]
  <2>1. /\ daemon.call.at = "stop" /\ daemon' = d
        /\ unchanged' = (unchanged /\ ~daemon.executing)
        /\ receipt' = [receipt EXCEPT ![o] = next]
      BY <1>12 DEF ExecutionStopped, Advance
  <2>2. ctl' = [c \in Client |->
                  IF Waits(c) THEN [ctl[c] EXCEPT !.at = "step", !.todo = <<e>>] ELSE ctl[c]]
      BY <1>6, <1>12 DEF ExecutionStopped, Answers, View
  <2>3. /\ d \in Daemons /\ d.call = NoCall /\ d.held = daemon.held /\ d.holder = daemon.holder
        /\ ~d.executing /\ d.mutating = daemon.mutating
      BY <1>3 DEF Daemons, Returned
  <2>4. /\ e \in Entries /\ e.stage = "owned-processes-stopped" /\ e.source = view.source
        /\ e.candidate = view.candidate
    <3>1. /\ To(view, "owned-processes-stopped") \in Entries
          /\ To(view, "owned-processes-stopped").stage = "owned-processes-stopped"
          /\ To(view, "owned-processes-stopped").source = view.source
          /\ To(view, "owned-processes-stopped").candidate = view.candidate
        BY <1>7 DEF EntryStages, WhileStopped, Outcomes
    <3> QED
        BY <1>3, <3>1 DEF Entries, AnyEntries, Daemons
  <2>5. view.stage = "cleanup-started" /\ r.stage = "backup-verified"
      BY <1>2, <2>1 DEF CallFollows
  <2>6. /\ next \in Receipts /\ next.stage = "source-execution-stopped" /\ next.source = r.source
        /\ next.candidate = r.candidate /\ next.dispatchHeld = r.dispatchHeld
        /\ next.mutationsHeld = r.mutationsHeld
      BY <1>4 DEF Receipts, ReceiptStages, CheckedStages
  <2> HIDE DEF next, d, e
  <2>7. HoldsBoth(r) /\ Rests(daemon) /\ unchanged /\ Live(r) /\ ~Releasing(o, daemon)
      BY <1>4, <1>5, <2>1, <2>5 DEF Orderly, Quiet, CheckedStages, Live, Releasing, TerminalStages
  <2>8. Orderly(next) /\ Kept(o, next, d, child) /\ Quiet(next, d, unchanged')
      BY <1>5, <2>1, <2>3, <2>6, <2>7 DEF Orderly, Kept, Quiet, Rests, HoldsBoth, CheckedStages
  <2>9. Fits(view, next, d) /\ Fits(e, next, d)
      BY <1>5, <2>4, <2>5, <2>6 DEF Fits, Meets, WhileStopped
  <2>10. unchanged' \in BOOLEAN
      BY <2>1
  <2> QED
      BY <1>1, <1>4, <2>1, <2>2, <2>3, <2>4, <2>5, <2>6, <2>8, <2>9, <2>10, CallAnswers DEF Sound
<1>13. CASE Settle
  <2> DEFINE next == HoldsOff(r, r.stage)
             d == Returned(daemon)
             e == IF view.stage = "rollback-ready" THEN Ended(view, "rolled-back")
                  ELSE To(view, "activation-authorized")
  <2>1. /\ daemon.call.at = "settle" /\ daemon' = d /\ UNCHANGED unchanged
        /\ receipt' = [receipt EXCEPT ![o] = next]
      BY <1>13 DEF Settle, Advance
  <2>2. ctl' = [c \in Client |->
                  IF Waits(c) THEN [ctl[c] EXCEPT !.at = "step", !.todo = <<e>>] ELSE ctl[c]]
      BY <1>6, <1>13 DEF Settle, Answers, View
  <2>3. d \in Daemons /\ d.call = NoCall
      BY <1>3 DEF Daemons, Returned
  <2>4. \/ view.stage = "candidate-ready" /\ r.stage = "activation-authorized"
        \/ view.stage = "rollback-ready" /\ r.stage = "rolled-back"
      BY <1>2, <2>1 DEF CallFollows
  <2>5. /\ e \in Entries /\ e.source = view.source /\ e.candidate = view.candidate
        /\ e.stage = IF view.stage = "rollback-ready" THEN "rolled-back" ELSE "activation-authorized"
      BY <1>7, <1>8 DEF EntryStages, AfterTheSwitch, Outcomes
  <2>6. /\ next \in Receipts /\ next.stage = r.stage /\ next.source = r.source
        /\ next.candidate = r.candidate /\ HoldsNothing(next)
      BY <1>4 DEF Receipts, HoldsOff, HoldsNothing
  <2> HIDE DEF next, d, e
  <2>7. Orderly(next) /\ Kept(o, next, d, child) /\ Quiet(next, d, unchanged)
      BY <2>4, <2>6 DEF Orderly, Kept, Quiet, CheckedStages, HoldsNothing, Live, TerminalStages
  <2>8. Fits(view, next, d) /\ Fits(e, next, d)
      BY <1>5, <2>4, <2>5, <2>6 DEF Fits, Meets, WhileStopped
  <2>9. e.stage # "prepared" /\ (view.stage = "rollback-ready" => e.stage \in Outcomes)
        /\ view.stage # "mutations-held"
      BY <2>4, <2>5 DEF Outcomes
  <2> QED
      BY <1>1, <1>3, <1>4, <2>1, <2>2, <2>3, <2>5, <2>6, <2>7, <2>8, <2>9, CallAnswers DEF Sound
<1> QED
    BY <1>9, <1>10, <1>11, <1>12, <1>13

LEMMA CallsGoOn ==
    ASSUME UpgradeInv, RunnersRemain \/ Activate
    PROVE  UpgradeInv'
<1> DEFINE o == daemon.call.op
           view == journal[o]
           r == receipt[o]
<1>1. daemon.call # NoCall /\ UNCHANGED <<journal, receipt, selected, launcher, child, unchanged>>
  <2>1. daemon.call.at \in {"force", "stop", "activate"}
        /\ UNCHANGED <<journal, receipt, selected, launcher, child, unchanged>>
      BY DEF RunnersRemain, Activate
  <2>2. NoCall.at \notin {"force", "stop", "activate"}
      BY DEF NoCall, None
  <2> QED
      BY <2>1, <2>2
<1>2. /\ o \in Operation /\ Current(o) /\ view \in Entries /\ view # NoEntry
      /\ Sound(o, view, r, daemon, child, unchanged)
      /\ CallFollows(daemon.call, view, r, daemon, child)
    BY <1>1, CallFacts DEF CallFollows
<1>3. /\ daemon \in Daemons /\ receipt \in [Operation -> {NoReceipt} \cup Receipts]
      /\ daemon.call \in [op : Operation, at : {"force", "hold", "refuse", "stop", "activate", "settle"}]
    BY <1>1 DEF UpgradeInv, UpgradeTypes, Daemons
<1>4. receipt' = [receipt EXCEPT ![o] = r]
    BY <1>1, <1>3
<1>5. CASE RunnersRemain
  <2> DEFINE d == Returned(daemon)
  <2>1. /\ daemon.call.at \in {"force", "stop"} /\ daemon' = d
        /\ ctl' = [c \in Client |-> IF Waits(c) THEN Idle ELSE ctl[c]]
      BY <1>5 DEF RunnersRemain
  <2>2. /\ d \in Daemons /\ d.call = NoCall /\ d.held = daemon.held /\ d.holder = daemon.holder
        /\ d.executing = daemon.executing /\ d.mutating = daemon.mutating
      BY <1>3 DEF Daemons, Returned
  <2> HIDE DEF d
  <2>3. ~Releasing(o, daemon) /\ view.stage # "mutations-held"
      BY <1>2, <2>1 DEF Releasing, CallFollows
  <2>4. Sound(o, view, r, d, child, unchanged)
      BY <1>2, <2>2, <2>3 DEF Sound, Fits, Kept, Quiet, Rests
  <2>5. ASSUME NEW c \in Client, ctl'[c] # Idle
        PROVE  ctl'[c] = ctl[c] /\ ctl[c].op = o /\ ControlFollows(ctl[c], view, r, d)
    <3>1. ~Waits(c) /\ ctl'[c] = ctl[c] /\ ctl[c] # Idle
        BY <2>1, <2>5
    <3>2. /\ ctl[c].op = o /\ ctl[c].view = view
          /\ \A next, g :
                 ~Waits(c) /\ (ctl[c].view.stage = "mutations-held" => next.stage = "upgrade-refused")
                    => ControlFollows(ctl[c], ctl[c].view, next, g)
        BY <1>1, <3>1, WhileACallIsOpen
    <3> QED
        BY <2>3, <3>1, <3>2
  <2>6. ctl' \in [Client -> {Idle} \cup Controls]
      BY <2>1 DEF UpgradeInv, UpgradeTypes
  <2>7. UpgradeTypes'
      BY <1>1, <2>1, <2>2, <2>6 DEF UpgradeInv, UpgradeTypes
  <2> QED
      BY <1>1, <1>2, <1>4, <2>1, <2>2, <2>4, <2>5, <2>7, OperationMoves
<1>6. CASE Activate
  <2> DEFINE d == [Released(daemon) EXCEPT !.call.at = "settle"]
  <2>1. daemon.call.at = "activate" /\ daemon' = d /\ ctl' = ctl
      BY <1>6 DEF Activate
  <2>2. /\ d \in Daemons /\ d.call = [op |-> o, at |-> "settle"]
        /\ d.executing = daemon.executing /\ d.mutating = daemon.mutating
    <3>1. /\ Released(daemon) \in Daemons /\ Released(daemon).call = daemon.call
          /\ Released(daemon).executing = daemon.executing
          /\ Released(daemon).mutating = daemon.mutating
        BY <1>3 DEF Daemons, Released
    <3>2. [daemon.call EXCEPT !.at = "settle"] = [op |-> o, at |-> "settle"]
        BY <1>3
    <3>3. d = [Released(daemon) EXCEPT !.call = [op |-> o, at |-> "settle"]]
        BY <3>1, <3>2
    <3> HIDE DEF d
    <3> QED
        BY <1>2, <3>1, <3>3 DEF Daemons
  <2> HIDE DEF d
  <2>3. Releasing(o, d)
      BY <2>2 DEF Releasing
  <2>4. Sound(o, view, r, d, child, unchanged)
      BY <1>2, <2>2, <2>3 DEF Sound, Fits, Kept, Quiet, Rests
  <2>5. CallFollows(d.call, view, r, d, child) /\ d.call.op = o
      BY <1>2, <2>1, <2>2 DEF CallFollows
  <2>6. ASSUME NEW c \in Client, ctl[c] # Idle
        PROVE  ctl[c].op = o /\ ControlFollows(ctl[c], view, r, d)
    <3>1. ctl[c].op = o /\ ctl[c].todo = <<>> /\ ControlFollows(ctl[c], view, r, daemon)
        BY <1>1, <2>6, WhileACallIsOpen, ControlFacts
    <3> QED
        BY <3>1 DEF ControlFollows
  <2>7. UpgradeTypes'
      BY <1>1, <2>1, <2>2 DEF UpgradeInv, UpgradeTypes
  <2> QED
      BY <1>1, <1>2, <1>4, <2>1, <2>4, <2>5, <2>6, <2>7, OperationMoves
<1> QED
    BY <1>5, <1>6

(* The Daemon or the service moves; the controllers and their calls do not. *)
LEMMA TheDaemonMoves ==
    ASSUME UpgradeInv, UNCHANGED <<journal, receipt, selected, ctl>>,
           launcher' \in Release \cup {None}, child' \in BOOLEAN, child' => launcher' # None,
           daemon' \in Daemons, unchanged' \in BOOLEAN, daemon'.call = daemon.call,
           daemon.call # NoCall => child' /\ daemon'.holder = daemon.holder,
           \A o \in Operation : Current(o) =>
              Kept(o, receipt[o], daemon', child') /\ Quiet(receipt[o], daemon', unchanged'),
           \A o \in Operation, e \in Entries :
              Current(o) /\ (e = journal[o] \/ daemon.call = NoCall) /\ Fits(e, receipt[o], daemon)
                 => Fits(e, receipt[o], daemon')
    PROVE  UpgradeInv'
<1>1. UpgradeTypes' /\ OneIsCurrent'
    BY DEF UpgradeInv, UpgradeTypes, OneIsCurrent, Current
<1>2. ASSUME NEW o \in Operation, Current(o)
      PROVE  Sound(o, journal[o], receipt[o], daemon', child', unchanged')
  <2>1. journal[o] \in Entries
      BY <1>2 DEF Current, UpgradeInv, UpgradeTypes
  <2> QED
      BY <1>2, <2>1 DEF UpgradeInv, OperationsAreSound, Sound
<1>3. OperationsAreSound'
    BY <1>2 DEF OperationsAreSound, Current
<1>4. CallIsFollowed'
  <2> SUFFICES ASSUME daemon.call # NoCall
               PROVE  CallFollows(daemon.call, journal[daemon.call.op], receipt[daemon.call.op],
                                  daemon', child')
      BY DEF CallIsFollowed
  <2>1. CallFollows(daemon.call, journal[daemon.call.op], receipt[daemon.call.op], daemon, child)
      BY DEF UpgradeInv, CallIsFollowed
  <2> QED
      BY <2>1 DEF CallFollows
<1>5. ASSUME NEW c \in Client, ctl[c] # Idle
      PROVE  ControlFollows(ctl[c], journal[ctl[c].op], receipt[ctl[c].op], daemon')
  <2> DEFINE e == Head(ctl[c].todo)
  <2>1. /\ ctl[c] \in Controls /\ ctl[c].op \in Operation /\ Current(ctl[c].op)
        /\ ctl[c].view = journal[ctl[c].op]
        /\ ControlFollows(ctl[c], journal[ctl[c].op], receipt[ctl[c].op], daemon)
      BY <1>5, ControlFacts
  <2>2. ASSUME ctl[c].todo # <<>>
        PROVE  e \in Entries /\ Fits(e, receipt[ctl[c].op], daemon')
    <3>1. PICK g \in Entries : ctl[c].todo = <<g>>
        BY <2>1, <2>2 DEF Controls, Todos
    <3>2. e = g
        BY <3>1, HeadOfOne, Zenon
    <3>3. daemon.call = NoCall /\ Fits(e, receipt[ctl[c].op], daemon)
        BY <2>1, <2>2 DEF ControlFollows
    <3> QED
        BY <2>1, <3>2, <3>3
  <2> HIDE DEF e
  <2> QED
      BY <2>1, <2>2 DEF ControlFollows, e
<1>6. ControlsFollow'
    BY <1>5 DEF ControlsFollow
<1> QED
    BY <1>1, <1>3, <1>4, <1>6 DEF UpgradeInv

(* What the Daemon holds back for the operation under way.                 *)
LEMMA TheDaemonHolds ==
    ASSUME UpgradeInv, child, NEW o \in Operation, Current(o)
    PROVE  /\ receipt[o].stage \in {"mutations-held"} \cup CheckedStages =>
                 daemon.held /\ daemon.holder = o
           /\ \A e \in Entries :
                 (e = journal[o] \/ daemon.call = NoCall) /\ Fits(e, receipt[o], daemon) =>
                    /\ e.stage \in {"drained", "repair-required"} => daemon.held
                    /\ e.stage = "repair-required" => daemon.holder = o
<1> DEFINE r == receipt[o]
<1>1. /\ journal[o] \in Entries /\ r \in {NoReceipt} \cup Receipts
      /\ Sound(o, journal[o], r, daemon, child, unchanged)
    BY DEF Current, UpgradeInv, UpgradeTypes, OperationsAreSound
<1>2. Releasing(o, daemon) =>
          /\ journal[o].stage \in {"mutations-held", "candidate-ready", "rollback-ready"}
          /\ r.stage \in {"final-preflight-refused", "activation-authorized", "rolled-back"}
          /\ daemon.call # NoCall
  <2> SUFFICES ASSUME Releasing(o, daemon)
               PROVE  /\ journal[o].stage \in {"mutations-held", "candidate-ready", "rollback-ready"}
                      /\ r.stage \in {"final-preflight-refused", "activation-authorized",
                                      "rolled-back"}
                      /\ daemon.call # NoCall
      OBVIOUS
  <2>1. NoCall.at \notin {"refuse", "settle"}
      BY DEF NoCall, None
  <2>2. daemon.call # NoCall /\ daemon.call.op = o
      BY <2>1 DEF Releasing
  <2>3. CallFollows(daemon.call, journal[o], r, daemon, child)
      BY <2>2 DEF UpgradeInv, CallIsFollowed
  <2> QED
      BY <2>2, <2>3 DEF CallFollows, Releasing
<1>3. NoReceipt.stage = None
    BY DEF NoReceipt
<1>4. ASSUME r.stage \in {"mutations-held"} \cup CheckedStages
      PROVE  daemon.held /\ daemon.holder = o
  <2>1. HoldsBoth(r)
      BY <1>1, <1>4 DEF Sound, Orderly
  <2>2. Live(r)
      BY <1>1, <1>3, <1>4, <2>1 DEF Live, HoldsBoth, CheckedStages, None
  <2> QED
      BY <1>1, <1>2, <1>4, <2>1, <2>2 DEF Sound, Kept, HoldsBoth, CheckedStages
<1>5. ASSUME NEW e \in Entries, e = journal[o] \/ daemon.call = NoCall,
             Fits(e, r, daemon), e.stage \in {"drained", "repair-required"}
      PROVE  daemon.held /\ (e.stage = "repair-required" => daemon.holder = o)
  <2>1. /\ e.stage = "drained" => r.stage \in {"draining", "mutations-held"}
        /\ e.stage = "repair-required" =>
              r.stage \in CheckedStages \cup {"rolled-back"} /\ HoldsBoth(r)
      BY <1>5 DEF Fits, Meets
  <2>2. r.dispatchHeld
      BY <1>1, <1>5, <2>1 DEF Sound, Orderly, HoldsBoth
  <2>3. Live(r)
      BY <1>1, <1>3, <1>5, <2>1, <2>2 DEF Live, CheckedStages, None
  <2>4. ~Releasing(o, daemon)
      BY <1>2, <1>5
  <2> QED
      BY <1>1, <2>1, <2>2, <2>3, <2>4 DEF Sound, Kept, HoldsBoth
<1> QED
    BY <1>4, <1>5

LEMMA WorkKeeps ==
    ASSUME UpgradeInv, MutationBegins \/ MutationEnds \/ Dispatch \/ RunsSettle
    PROVE  UpgradeInv'
<1>1. /\ daemon \in Daemons /\ unchanged \in BOOLEAN /\ child \in BOOLEAN
      /\ launcher \in Release \cup {None} /\ (child => launcher # None)
    BY DEF UpgradeInv, UpgradeTypes
<1>2. UNCHANGED <<journal, receipt, selected, ctl, launcher, child>>
    BY DEF MutationBegins, MutationEnds, Dispatch, RunsSettle
<1>3. /\ daemon' \in Daemons /\ daemon'.call = daemon.call /\ daemon'.held = daemon.held
      /\ daemon'.holder = daemon.holder /\ unchanged' \in BOOLEAN
    BY <1>1 DEF MutationBegins, MutationEnds, Dispatch, RunsSettle, Daemons
<1>4. daemon.call # NoCall => child
    BY DEF UpgradeInv, CallIsFollowed, CallFollows
<1>5. ASSUME NEW o \in Operation, Current(o)
      PROVE  /\ Kept(o, receipt[o], daemon, child) /\ Quiet(receipt[o], daemon, unchanged)
    BY <1>5 DEF UpgradeInv, OperationsAreSound, Sound
<1>6. ASSUME NEW o \in Operation, Current(o)
      PROVE  Kept(o, receipt[o], daemon', child')
    BY <1>2, <1>3, <1>5, <1>6 DEF Kept, Releasing
<1>7. ASSUME NEW o \in Operation, Current(o),
             receipt[o].stage \in {"mutations-held"} \cup CheckedStages
      PROVE  /\ child => daemon.held /\ daemon.holder # None
             /\ Rests(daemon)
  <2>1. child => daemon.held /\ daemon.holder = o
      BY <1>7, TheDaemonHolds
  <2> QED
      BY <1>5, <1>7, <2>1, NoneAssumption DEF Quiet
<1>8. ASSUME NEW o \in Operation, NEW e \in Entries, Current(o),
             e = journal[o] \/ daemon.call = NoCall, Fits(e, receipt[o], daemon), child
      PROVE  /\ e.stage \in {"drained", "repair-required"} => daemon.held
             /\ e.stage = "repair-required" => daemon.holder # None
  <2>1. /\ e.stage \in {"drained", "repair-required"} => daemon.held
        /\ e.stage = "repair-required" => daemon.holder = o
      BY <1>8, TheDaemonHolds
  <2> QED
      BY <2>1, NoneAssumption
<1>9. CASE MutationBegins
  <2>1. /\ child /\ daemon.holder = None /\ daemon' = [daemon EXCEPT !.mutating = TRUE]
      BY <1>9 DEF MutationBegins
  <2>2. daemon'.executing = daemon.executing
      BY <1>1, <2>1 DEF Daemons
  <2>3. ASSUME NEW o \in Operation, Current(o)
        PROVE  Quiet(receipt[o], daemon', unchanged')
      BY <1>7, <2>1, <2>3 DEF Quiet
  <2>4. ASSUME NEW o \in Operation, NEW e \in Entries, Current(o),
               e = journal[o] \/ daemon.call = NoCall, Fits(e, receipt[o], daemon)
        PROVE  Fits(e, receipt[o], daemon')
      BY <1>8, <2>1, <2>2, <2>4 DEF Fits
  <2> QED
      BY <1>1, <1>2, <1>3, <1>4, <1>6, <2>3, <2>4, TheDaemonMoves
<1>10. CASE Dispatch
  <2>1. child /\ ~daemon.held /\ daemon' = [daemon EXCEPT !.executing = TRUE]
      BY <1>10 DEF Dispatch
  <2>2. ASSUME NEW o \in Operation, Current(o)
        PROVE  Quiet(receipt[o], daemon', unchanged')
      BY <1>7, <2>1, <2>2 DEF Quiet
  <2>3. ASSUME NEW o \in Operation, NEW e \in Entries, Current(o),
               e = journal[o] \/ daemon.call = NoCall, Fits(e, receipt[o], daemon)
        PROVE  Fits(e, receipt[o], daemon')
      BY <1>8, <2>1, <2>3 DEF Fits
  <2> QED
      BY <1>1, <1>2, <1>3, <1>4, <1>6, <2>2, <2>3, TheDaemonMoves
<1>11. CASE MutationEnds \/ RunsSettle
  <2>1. /\ daemon'.executing => daemon.executing
        /\ daemon'.mutating => daemon.mutating
        /\ ~Rests(daemon)
      BY <1>1, <1>11 DEF MutationEnds, RunsSettle, Daemons, Rests
  <2>2. ASSUME NEW o \in Operation, Current(o)
        PROVE  Quiet(receipt[o], daemon', unchanged')
      BY <1>7, <2>1, <2>2 DEF Quiet
  <2>3. ASSUME NEW o \in Operation, NEW e \in Entries, Current(o),
               e = journal[o] \/ daemon.call = NoCall, Fits(e, receipt[o], daemon)
        PROVE  Fits(e, receipt[o], daemon')
      BY <2>1, <2>3 DEF Fits, Rests
  <2> QED
      BY <1>1, <1>2, <1>3, <1>4, <1>6, <2>2, <2>3, TheDaemonMoves
<1> QED
    BY <1>9, <1>10, <1>11

(* A Daemon that starts takes up what the receipts hold.                   *)
LEMMA StartKeeps ==
    ASSUME UpgradeInv, StartDaemon
    PROVE  UpgradeInv'
<1>1. PICK holder \in Holders :
         daemon' = [Down(daemon.instance + 1) EXCEPT
                       !.holder = holder, !.restricted = RestrictedStart,
                       !.held = \E o \in Operation :
                                   receipt[o].dispatchHeld \/ receipt[o].mutationsHeld]
    BY DEF StartDaemon
<1>2. /\ launcher # None /\ ~child /\ child' = TRUE
      /\ unchanged' = (unchanged /\ RestrictedStart)
      /\ UNCHANGED <<journal, receipt, selected, launcher, ctl>>
    BY DEF StartDaemon
<1>3. /\ daemon \in Daemons /\ unchanged \in BOOLEAN /\ launcher \in Release \cup {None}
    BY DEF UpgradeInv, UpgradeTypes
<1>4. daemon.call = NoCall
    BY <1>2 DEF UpgradeInv, CallIsFollowed, CallFollows
<1>5. holder \in Operation \cup {None}
    BY DEF Holders
<1>6. /\ daemon' \in Daemons /\ daemon'.call = NoCall /\ daemon'.holder = holder
      /\ ~daemon'.executing /\ ~daemon'.mutating
      /\ daemon'.held = \E o \in Operation : receipt[o].dispatchHeld \/ receipt[o].mutationsHeld
  <2> DEFINE held == \E o \in Operation : receipt[o].dispatchHeld \/ receipt[o].mutationsHeld
             restricted == RestrictedStart
             d == Down(daemon.instance + 1)
  <2>1. restricted \in BOOLEAN /\ held \in BOOLEAN
      BY DEF RestrictedStart
  <2>2. daemon' = [d EXCEPT !.holder = holder, !.restricted = restricted, !.held = held]
      BY <1>1
  <2>3. d \in Daemons /\ d.call = NoCall /\ Rests(d)
      BY <1>3, DownFacts DEF Daemons
  <2> HIDE DEF d, restricted, held
  <2>4. /\ daemon' \in Daemons /\ daemon'.call = NoCall /\ daemon'.holder = holder
        /\ ~daemon'.executing /\ ~daemon'.mutating /\ daemon'.held = held
      BY <1>5, <2>1, <2>2, <2>3 DEF Daemons, Rests
  <2> QED
      BY <2>4 DEF held
<1>7. ASSUME NEW o \in Operation, Current(o)
      PROVE  Kept(o, receipt[o], daemon', child') /\ Quiet(receipt[o], daemon', unchanged')
  <2>1. Orderly(receipt[o]) /\ Quiet(receipt[o], daemon, unchanged)
      BY <1>7 DEF UpgradeInv, OperationsAreSound, Sound
  <2>2. ASSUME Live(receipt[o]), receipt[o].mutationsHeld
        PROVE  holder = o
    <3>1. \A p \in Operation : Retained(p) <=> p = o
        BY <1>7, <2>2 DEF UpgradeInv, OneIsCurrent, Retained, IsActive, Live
    <3> QED
        BY <3>1 DEF Holders
  <2>3. Kept(o, receipt[o], daemon', child')
      BY <1>6, <2>2 DEF Kept
  <2>4. receipt[o].stage \in CheckedStages => RestrictedStart
      BY <2>1 DEF Orderly, RestrictedStart, RestrictedStages, CheckedStages, HoldsBoth
  <2> QED
      BY <1>2, <1>6, <2>1, <2>3, <2>4 DEF Quiet, Rests
<1>8. ASSUME NEW o \in Operation, NEW e \in Entries, Fits(e, receipt[o], daemon)
      PROVE  Fits(e, receipt[o], daemon')
    BY <1>6, <1>8 DEF Fits, Rests
<1>9. unchanged' \in BOOLEAN
    BY <1>2 DEF RestrictedStart
<1> QED
    BY <1>2, <1>3, <1>4, <1>6, <1>7, <1>8, <1>9, TheDaemonMoves

LEMMA UserStartKeeps ==
    ASSUME UpgradeInv, UserStarts
    PROVE  UpgradeInv'
<1>1. /\ UNCHANGED <<journal, receipt, selected, child, daemon, ctl, unchanged>>
      /\ launcher' = selected
    BY DEF UserStarts, Started
<1>2. launcher' \in Release /\ child' \in BOOLEAN /\ launcher' # None
    BY <1>1, NoneAssumption DEF UpgradeInv, UpgradeTypes
<1>3. daemon' \in Daemons /\ unchanged' \in BOOLEAN
    BY <1>1 DEF UpgradeInv, UpgradeTypes
<1>4. daemon.call # NoCall => child
    BY DEF UpgradeInv, CallIsFollowed, CallFollows
<1>5. \A o \in Operation : Current(o) =>
          Kept(o, receipt[o], daemon', child') /\ Quiet(receipt[o], daemon', unchanged')
    BY <1>1 DEF UpgradeInv, OperationsAreSound, Sound
<1> QED
    BY <1>1, <1>2, <1>3, <1>4, <1>5, TheDaemonMoves

(* A Daemon that is gone: its call is lost, the receipts and the journal   *)
(* stay.                                                                   *)
LEMMA TheDaemonGoes ==
    ASSUME UpgradeInv, UNCHANGED <<journal, receipt, selected, unchanged>>,
           launcher' \in Release \cup {None}, child' = FALSE, daemon' = Down(daemon.instance),
           ctl' \in [Client -> {Idle} \cup Controls],
           \A c \in Client : ctl'[c] # Idle =>
              ControlFollows(ctl'[c], journal[ctl'[c].op], receipt[ctl'[c].op], daemon')
    PROVE  UpgradeInv'
<1>1. daemon \in Daemons
    BY DEF UpgradeInv, UpgradeTypes
<1>2. daemon' \in Daemons /\ daemon'.call = NoCall /\ Rests(daemon')
    BY <1>1 DEF Daemons, Down, Rests
<1>3. UpgradeTypes' /\ OneIsCurrent'
    BY <1>2 DEF UpgradeInv, UpgradeTypes, OneIsCurrent, Current
<1>4. ASSUME NEW o \in Operation, Current(o)
      PROVE  Sound(o, journal[o], receipt[o], daemon', child', unchanged')
  <2>1. Sound(o, journal[o], receipt[o], daemon, child, unchanged)
      BY <1>4 DEF UpgradeInv, OperationsAreSound
  <2> QED
      BY <1>2, <2>1 DEF Sound, Fits, Kept, Quiet, Rests
<1>5. OperationsAreSound'
    BY <1>4 DEF OperationsAreSound, Current
<1>6. CallIsFollowed' /\ ControlsFollow'
    BY <1>2 DEF CallIsFollowed, ControlsFollow
<1> QED
    BY <1>3, <1>5, <1>6 DEF UpgradeInv

LEMMA DeathsKeep ==
    ASSUME UpgradeInv, DaemonDies \/ HostRestarts
    PROVE  UpgradeInv'
<1>1. CASE HostRestarts
  <2>1. /\ UNCHANGED <<journal, receipt, selected, unchanged>> /\ child' = FALSE
        /\ daemon' = Down(daemon.instance) /\ ctl' = [c \in Client |-> Idle]
        /\ launcher' \in {selected, None}
      BY <1>1 DEF HostRestarts
  <2>2. launcher' \in Release \cup {None}
      BY <2>1 DEF UpgradeInv, UpgradeTypes
  <2>3. /\ ctl' \in [Client -> {Idle} \cup Controls]
        /\ \A c \in Client : ctl'[c] = Idle
      BY <2>1
  <2> QED
      BY <2>1, <2>2, <2>3, TheDaemonGoes
<1>2. CASE DaemonDies
  <2> DEFINE d == Down(daemon.instance)
  <2>1. /\ UNCHANGED <<journal, receipt, selected, launcher, unchanged>> /\ child' = FALSE
        /\ daemon' = d /\ ctl' = [c \in Client |-> CallLost(c)]
      BY <1>2 DEF DaemonDies
  <2>2. launcher' \in Release \cup {None}
      BY <2>1 DEF UpgradeInv, UpgradeTypes
  <2>3. d.call = NoCall /\ Rests(d)
      BY DEF Down, Rests
  <2> HIDE DEF d
  <2>4. ASSUME NEW c \in Client, ctl[c] # Idle, CallLost(c) # Idle
        PROVE  /\ CallLost(c) \in Controls /\ CallLost(c).op = ctl[c].op
               /\ ControlFollows(CallLost(c), journal[ctl[c].op], receipt[ctl[c].op], d)
    <3> DEFINE view == ctl[c].view
               r == receipt[ctl[c].op]
               e == ToRepair(view)
               y == [ctl[c] EXCEPT !.at = "step", !.todo = <<e>>]
    <3>1. /\ ctl[c] \in Controls /\ view = journal[ctl[c].op] /\ view \in Entries
          /\ view # NoEntry /\ view.outcome = None
          /\ r \in {NoReceipt} \cup Receipts
          /\ Sound(ctl[c].op, view, r, daemon, child, unchanged)
          /\ ControlFollows(ctl[c], view, r, daemon)
        BY <2>4, ControlFacts
    <3>2. CASE ctl[c].at # "call"
      <4>1. CallLost(c) = ctl[c]
          BY <3>2 DEF CallLost
      <4>2. ctl[c].todo # <<>> => Fits(Head(ctl[c].todo), r, d)
          BY <2>3, <3>1 DEF ControlFollows, Fits, Rests
      <4>3. ControlFollows(ctl[c], view, r, d)
          BY <2>3, <3>1, <4>2 DEF ControlFollows
      <4> QED
          BY <3>1, <4>1, <4>3
    <3>3. CASE ctl[c].at = "call"
      <4>1. ctl[c].rollback /\ CallLost(c) = y
          BY <2>4, <3>3 DEF CallLost, View
      <4>2. ctl[c].todo = <<>>
          BY <3>1, <3>3 DEF ControlFollows
      <4>3. r.stage = "rolled-back" /\ HoldsBoth(r)
          BY <3>1, <3>3, <4>1, <4>2 DEF ControlFollows, RollsBack
      <4>4. /\ e \in Entries /\ e.stage = "repair-required" /\ e.source = view.source
            /\ e.candidate = view.candidate
          BY <3>1, EntriesTo DEF ToRepair, Outcomes
      <4>5. Fits(e, r, d)
        <5> HIDE DEF e
        <5> QED
            BY <2>3, <3>1, <4>3, <4>4 DEF Sound, Fits, Meets, WhileStopped
      <4>6. /\ y \in Controls /\ y.op = ctl[c].op /\ y.view = view /\ y.at = "step"
            /\ y.rollback
        <5> HIDE DEF e
        <5> QED
            BY <3>1, <4>1, <4>4 DEF Controls, Places, Todos
      <4>7. y.todo = <<e>>
          BY <3>1 DEF Controls
      <4> HIDE DEF y, e
      <4>8. Head(y.todo) = e /\ y.todo # <<>>
          BY <4>7, HeadOfOne, Zenon
      <4>9. ControlFollows(y, view, r, d)
          BY <2>3, <3>1, <4>4, <4>5, <4>6, <4>8 DEF ControlFollows, Reached, Outcomes
      <4> QED
          BY <3>1, <4>1, <4>6, <4>9
    <3> QED
        BY <3>2, <3>3
  <2>5. ASSUME NEW c \in Client, ctl[c] = Idle
        PROVE  CallLost(c) = Idle
    <3>1. Idle.at # "call"
        BY DEF Idle, None
    <3> QED
        BY <2>5, <3>1 DEF CallLost
  <2>6. ctl' \in [Client -> {Idle} \cup Controls]
      BY <2>1, <2>4, <2>5
  <2>7. \A c \in Client : ctl'[c] # Idle =>
            ControlFollows(ctl'[c], journal[ctl'[c].op], receipt[ctl'[c].op], daemon')
    <3> SUFFICES ASSUME NEW c \in Client, ctl'[c] # Idle
                 PROVE  ControlFollows(ctl'[c], journal[ctl'[c].op], receipt[ctl'[c].op], daemon')
        OBVIOUS
    <3>1. ctl'[c] = CallLost(c) /\ ctl[c] # Idle
        BY <2>1, <2>5
    <3>2. /\ CallLost(c).op = ctl[c].op
          /\ ControlFollows(CallLost(c), journal[ctl[c].op], receipt[ctl[c].op], d)
        BY <2>4, <3>1
    <3> QED
        BY <2>1, <3>1, <3>2
  <2> QED
      BY <2>1, <2>2, <2>6, <2>7, TheDaemonGoes DEF d
<1> QED
    BY <1>1, <1>2

LEMMA AtWork ==
    ASSUME NEW c \in Client, ControllerStep(c)
    PROVE  ctl[c] # Idle
<1>1. Idle.at = None
    BY DEF Idle
<1>2. ctl[c].at # None \/ ClientEnds(c) \/ WriteEntry(c)
    BY DEF ControllerStep, Preflight, BeginDrain, ReadDrain, ForceDrain, HoldMutations,
           RepeatPreflight, ReleaseUpgradeHolds, PrepareHandoff, ContinueHandoff,
           ConfirmControllerReady, CreateVerifiedBackup, StopOwnedProcesses, StopNative,
           SelectCandidate, StartSelected, Migrate, MayBeReady, ReadReadiness, GiveUp,
           InspectRollbackSafety, RollbackStops, RollbackSelects, Finish, At, None
<1> QED
    BY <1>1, <1>2 DEF ClientEnds, WriteEntry

LEMMA UpgradeInvNext ==
    ASSUME OneCommand, UpgradeInv, [Next]_vars
    PROVE  UpgradeInv'
<1>1. CASE \E c \in Client, o \in Operation :
              \/ \E candidate \in Release : Begin(c, o, candidate)
              \/ ForcePending(c, o)
    BY <1>1, OperationsBegin
<1>2. CASE \E c \in Client, o \in Operation : Resume(c, o)
    BY <1>2, ClientsComeAndGo
<1>3. ASSUME NEW c \in Client, ControllerStep(c)
      PROVE  UpgradeInv'
  <2>1. CASE ClientEnds(c)
      BY <2>1, ClientsComeAndGo
  <2>2. ctl[c] # Idle
      BY <1>3, AtWork
  <2>3. CASE WriteEntry(c)
      BY <2>2, <2>3, WritingKeeps
  <2>4. CASE Preflight(c) \/ BeginDrain(c) \/ ReadDrain(c)
      BY <2>2, <2>4, DrainSteps
  <2>5. CASE \/ ForceDrain(c) \/ HoldMutations(c) \/ ReleaseUpgradeHolds(c)
             \/ StopOwnedProcesses(c)
      BY <2>2, <2>5, CallSteps
  <2>6. CASE RepeatPreflight(c)
      BY <2>2, <2>6, CheckSteps
  <2>7. CASE \/ PrepareHandoff(c) \/ ContinueHandoff(c) \/ ConfirmControllerReady(c)
             \/ CreateVerifiedBackup(c)
      BY <2>2, <2>7, HandoffSteps
  <2>8. CASE \/ StopNative(c) \/ SelectCandidate(c) \/ StartSelected(c) \/ GiveUp(c)
             \/ InspectRollbackSafety(c) \/ RollbackStops(c) \/ RollbackSelects(c)
      BY <2>2, <2>8, SwitchSteps
  <2>9. CASE Migrate(c)
      BY <2>2, <2>9, MigrationKeeps
  <2>10. CASE ReadReadiness(c)
      BY <2>2, <2>10, ReadinessKeeps
  <2>11. CASE Finish(c)
      BY <2>2, <2>11, FinishKeeps
  <2> QED
      BY <1>3, <2>1, <2>3, <2>4, <2>5, <2>6, <2>7, <2>8, <2>9, <2>10, <2>11 DEF ControllerStep
<1>4. CASE CallReturns
    BY <1>4, CallsEnd, CallsGoOn DEF CallReturns
<1>5. CASE StartDaemon
    BY <1>5, StartKeeps
<1>6. CASE MutationBegins \/ MutationEnds \/ Dispatch \/ RunsSettle
    BY <1>6, WorkKeeps
<1>7. CASE DaemonDies \/ HostRestarts
    BY <1>7, DeathsKeep
<1>8. CASE UserStarts
    BY <1>8, UserStartKeeps
<1>9. CASE UNCHANGED vars
    BY <1>9 DEF vars, UpgradeInv, UpgradeTypes, OneIsCurrent, OperationsAreSound, CallIsFollowed,
                ControlsFollow, Current
<1> QED
    BY <1>1, <1>2, <1>3, <1>4, <1>5, <1>6, <1>7, <1>8, <1>9 DEF Next

LEMMA UpgradeInvariant ==
    ASSUME OneCommand
    PROVE  Spec => []UpgradeInv
<1>1. OneCommand /\ UpgradeInv /\ [Next]_vars => UpgradeInv'
    BY UpgradeInvNext
<1> QED
    BY <1>1, UpgradeInvInit, PTL DEF Spec

(***************************************************************************)
(* With one command at a time, what the final check accepted is what the   *)
(* candidate takes over: however the Daemons die and the controller is     *)
(* interrupted and resumed, nothing runs until an end is authorized        *)
(* (UpgradeActivation, AcceptedStateIsKept).                               *)
(***************************************************************************)
THEOREM AcceptedStateStays ==
    ASSUME OneCommand
    PROVE  Spec => []AcceptedStateIsKept
<1>1. UpgradeInv => AcceptedStateIsKept
  <2> SUFFICES ASSUME UpgradeInv, NEW o \in Operation, receipt[o].stage \in CheckedStages
               PROVE  unchanged
      BY DEF AcceptedStateIsKept
  <2>1. receipt[o] # NoReceipt
      BY DEF NoReceipt, CheckedStages, None
  <2>2. Live(receipt[o])
      BY <2>1 DEF Live, TerminalStages, CheckedStages
  <2>3. Current(o)
      BY <2>2 DEF UpgradeInv, OneIsCurrent
  <2> QED
      BY <2>3 DEF UpgradeInv, OperationsAreSound, Sound, Quiet
<1> QED
    BY <1>1, UpgradeInvariant, PTL

(***************************************************************************)
(* With one command at a time, an upgrade with its outcome has released    *)
(* the Daemon (UpgradeActivation, OutcomesReleaseTheDaemon).               *)
(***************************************************************************)
THEOREM OutcomesRelease ==
    ASSUME OneCommand
    PROVE  Spec => []OutcomesReleaseTheDaemon
<1>1. UpgradeInv => OutcomesReleaseTheDaemon
  <2> SUFFICES ASSUME UpgradeInv, NEW o \in Operation,
                      journal[o].outcome \in {"activated", "rolled-back", "upgrade-refused"}
               PROVE  ~IsActive(o)
      BY DEF OutcomesReleaseTheDaemon
  <2>1. ~Current(o)
      BY DEF Current, None
  <2> QED
      BY <2>1 DEF UpgradeInv, OneIsCurrent, Live, IsActive
<1> QED
    BY <1>1, UpgradeInvariant, PTL
-----------------------------------------------------------------------------
(***************************************************************************)
(* Where the releases and the data are.  The hypotheses: nobody else       *)
(* starts the service while it is switched, and a release that contains a  *)
(* migration reads what any migration declared to it leaves, because a     *)
(* source that is selected again may run its candidate's migration.        *)
(***************************************************************************)
NobodyElseStarts == ~StartsMeanwhile

ImplementersRead ==
    \A s \in Implements, x \in Release : \A migration \in Declares[x] : migration.to \in Reads[s]

Settled(x) == selected = x /\ launcher = x /\ format \in Reads[x]

OnTheSource == BeforeTheStop \cup {"rollback-ready", "rolled-back", "upgrade-refused"}

OnTheCandidate == {"candidate-ready", "activation-authorized", "activated"}

(* What runs on which data, at an entry that is written or is to be.       *)
Placed(e, r) ==
    /\ e.stage \in OnTheSource => Settled(e.source)
    /\ e.stage \in OnTheCandidate => Settled(e.candidate)
    /\ e.stage = "process-stopped" => launcher = None
    /\ e.stage = "candidate-selected" => launcher \in {None, selected}
    /\ e.stage = "rollback-selected" =>
          selected = e.source /\ launcher \in {None, e.source} /\ format \in Reads[e.source]
    /\ r.stage = "candidate-ready" => format \in Reads[e.candidate]

ControlIsPlaced(x, r) ==
    /\ x.todo # <<>> =>
          /\ Placed(Head(x.todo), r)
          /\ Head(x.todo).stage = "process-stopped" => x.view.stage \in WhileStopped
    /\ x.at \in {"rollback", "stopped"} => format \in Reads[x.view.source]
    /\ x.at = "stopped" => launcher = None

PlaceInv ==
    /\ (\A o \in Operation : ~Current(o)) => Settled(selected)
    /\ \A o \in Operation : Current(o) => Placed(journal[o], receipt[o])
    /\ \A c \in Client : ctl[c] # Idle => ControlIsPlaced(ctl[c], receipt[ctl[c].op])

LEMMA PlaceInvInit == Init => PlaceInv
<1> SUFFICES ASSUME Init PROVE PlaceInv
    OBVIOUS
<1>1. \A o \in Operation : ~Current(o)
    BY DEF Init, Current
<1>2. Settled(selected)
    BY ReadsAssumption DEF Init, Settled
<1>3. \A c \in Client : ctl[c] = Idle
    BY DEF Init
<1> QED
    BY <1>1, <1>2, <1>3 DEF PlaceInv

(* The next entry is on the side where the operation is.                   *)
SameSide(view, e) ==
    /\ e.source = view.source /\ e.candidate = view.candidate
    /\ \/ view.stage \in OnTheSource /\ e.stage \in OnTheSource
       \/ view.stage \in OnTheCandidate /\ e.stage \in OnTheCandidate
       \/ e.stage \in {"owned-processes-stopped", "repair-required"}

LEMMA PlacedToo ==
    ASSUME NEW view, NEW e, NEW r, NEW next, Placed(view, r), SameSide(view, e),
           next.stage = "candidate-ready" => r.stage = "candidate-ready"
    PROVE  Placed(view, next) /\ Placed(e, next) /\ e.stage # "process-stopped"
BY DEF Placed, SameSide, OnTheSource, OnTheCandidate, BeforeTheStop

(* A step that leaves the releases and the data where they are.            *)
LEMMA StaysInPlace ==
    ASSUME UpgradeInv, PlaceInv, UNCHANGED <<journal, selected, launcher, format>>,
           NEW o \in Operation, Current(o),
           receipt'[o].stage = "candidate-ready" => receipt[o].stage = "candidate-ready",
           \A c \in Client : ctl'[c] # Idle =>
              /\ ctl'[c].op = o
              /\ \/ ctl'[c] = ctl[c]
                 \/ ctl'[c].todo = <<>> /\ ctl'[c].at \notin {"rollback", "stopped"}
                 \/ \E e : ctl'[c].at = "step" /\ ctl'[c].todo = <<e>> /\ SameSide(journal[o], e)
    PROVE  PlaceInv'
<1>1. \A p \in Operation : Current(p)' <=> p = o
    BY DEF UpgradeInv, OneIsCurrent, Current
<1>2. Placed(journal[o], receipt[o])
    BY DEF PlaceInv
<1>3. Placed(journal[o], receipt'[o])
    BY <1>2 DEF Placed
<1>4. ASSUME NEW e, NEW r
      PROVE  Placed(e, r)' <=> Placed(e, r)
    BY DEF Placed, Settled
<1>5. Placed(journal[o], receipt[o])'
    BY <1>3 DEF Placed, Settled
<1>6. ASSUME NEW c \in Client, ctl'[c] # Idle
      PROVE  ControlIsPlaced(ctl[c], receipt[ctl[c].op])'
  <2>1. ctl'[c].op = o
      BY <1>6
  <2>2. CASE ctl'[c] = ctl[c]
    <3>1. ControlIsPlaced(ctl[c], receipt[o])
        BY <1>6, <2>1, <2>2 DEF PlaceInv
    <3> QED
        BY <2>1, <2>2, <3>1 DEF ControlIsPlaced, Placed, Settled
  <2>3. CASE ctl'[c].todo = <<>> /\ ctl'[c].at \notin {"rollback", "stopped"}
      BY <2>3 DEF ControlIsPlaced
  <2>4. ASSUME NEW e, ctl'[c].at = "step", ctl'[c].todo = <<e>>, SameSide(journal[o], e)
        PROVE  ControlIsPlaced(ctl[c], receipt[ctl[c].op])'
    <3>1. Placed(e, receipt'[o]) /\ e.stage # "process-stopped"
        BY <1>2, <2>4, PlacedToo
    <3>2. Head(ctl'[c].todo) = e
        BY <2>4, HeadOfOne, Zenon
    <3>3. Placed(Head(ctl[c].todo), receipt[o])'
        BY <3>1, <3>2 DEF Placed, Settled
    <3> QED
        BY <2>1, <2>4, <3>1, <3>2, <3>3 DEF ControlIsPlaced
  <2> QED
      BY <1>6, <2>2, <2>3, <2>4
<1> QED
    BY <1>1, <1>5, <1>6 DEF PlaceInv

LEMMA SidesOf ==
    ASSUME NEW view \in Entries, NEW stage,
           \/ view.stage \in OnTheSource /\ stage \in OnTheSource
           \/ view.stage \in OnTheCandidate /\ stage \in OnTheCandidate
           \/ stage \in {"owned-processes-stopped", "repair-required"}
    PROVE  /\ SameSide(view, To(view, stage)) /\ SameSide(view, Ended(view, stage))
           /\ \A n : SameSide(view, [To(view, stage) EXCEPT !.owner = n])
BY DEF Entries, AnyEntries, SameSide, To, Ended

LEMMA GoesOnInPlace ==
    ASSUME UpgradeInv, PlaceInv, OneCommand, NEW c \in Client, ctl[c] # Idle,
           UNCHANGED <<journal, selected, launcher, format>>,
           receipt'[ctl[c].op].stage = "candidate-ready" =>
              receipt[ctl[c].op].stage = "candidate-ready",
           NEW at, NEW todo, Do(c, at, todo),
           \/ todo = <<>> /\ at \notin {"rollback", "stopped"}
           \/ at = "step" /\ \E e : todo = <<e>> /\ SameSide(ctl[c].view, e)
    PROVE  PlaceInv'
<1> DEFINE o == ctl[c].op
           y == [ctl[c] EXCEPT !.at = at, !.todo = todo]
<1>1. /\ ctl[c] \in Controls /\ o \in Operation /\ Current(o) /\ ctl[c].view = journal[o]
    BY ControlFacts
<1>2. y.op = o /\ y.at = at /\ y.todo = todo
    BY <1>1 DEF Controls
<1>3. ctl'[c] = y
  <2>1. ctl' = [ctl EXCEPT ![c] = [ctl[c] EXCEPT !.at = at, !.todo = todo, !.rollback = ctl[c].rollback]]
      BY DoneBy
  <2> QED
      BY <1>1, <2>1 DEF Controls, UpgradeInv, UpgradeTypes
<1> HIDE DEF y
<1>4. \A d \in Client : d = c
    BY DEF OneCommand
<1> QED
    BY <1>1, <1>2, <1>3, <1>4, StaysInPlace

LEMMA ControllersStayInPlace ==
    ASSUME UpgradeInv, PlaceInv, OneCommand, NEW c \in Client, ctl[c] # Idle,
           \/ Preflight(c) \/ BeginDrain(c) \/ ReadDrain(c) \/ ForceDrain(c) \/ HoldMutations(c)
           \/ RepeatPreflight(c) \/ ReleaseUpgradeHolds(c) \/ PrepareHandoff(c)
           \/ ContinueHandoff(c) \/ ConfirmControllerReady(c) \/ CreateVerifiedBackup(c)
           \/ StopOwnedProcesses(c) \/ GiveUp(c) \/ Finish(c)
    PROVE  PlaceInv'
<1> DEFINE o == ctl[c].op
           view == ctl[c].view
           r == receipt[o]
<1>1. /\ ctl[c] \in Controls /\ o \in Operation /\ view \in Entries /\ view.outcome = None
      /\ r \in {NoReceipt} \cup Receipts /\ Reached(ctl[c].at, view, r)
    BY ControlFacts DEF ControlFollows
<1>2. receipt \in [Operation -> {NoReceipt} \cup Receipts]
    BY DEF UpgradeInv, UpgradeTypes
<1>3. UNCHANGED <<journal, selected, launcher, format>>
    BY DEF Preflight, BeginDrain, ReadDrain, ForceDrain, HoldMutations, RepeatPreflight,
           ReleaseUpgradeHolds, PrepareHandoff, ContinueHandoff, ConfirmControllerReady,
           CreateVerifiedBackup, StopOwnedProcesses, GiveUp, Finish
<1>4. ASSUME NEW next, receipt' = [receipt EXCEPT ![o] = next] \/ (receipt' = receipt /\ next = r)
      PROVE  receipt'[o] = next
    BY <1>1, <1>2, <1>4
<1>5. ASSUME NEW stage, NEW r2 \in {NoReceipt} \cup Receipts
      PROVE  [r2 EXCEPT !.stage = stage].stage = stage
    BY <1>5 DEF NoReceipt, Receipts
<1>6. receipt'[o].stage = "candidate-ready" => r.stage = "candidate-ready"
  <2>1. CASE Preflight(c)
    <3>1. receipt' = [receipt EXCEPT ![o] = IF r = NoReceipt THEN Receipt(view) ELSE r]
        BY <2>1 DEF Preflight, Advance, Op, View
    <3> QED
        BY <1>1, <1>2, <3>1 DEF Receipt
  <2>2. CASE BeginDrain(c)
    <3>1. receipt' = [receipt EXCEPT ![o] = IF r.stage # "prepared" THEN r
                               ELSE [r EXCEPT !.stage = "draining", !.dispatchHeld = TRUE]]
        BY <2>2 DEF BeginDrain, Advance, Op
    <3> QED
        BY <1>1, <1>2, <3>1 DEF Receipts, NoReceipt
  <2>3. CASE RepeatPreflight(c)
    <3>1. \/ receipt' = receipt
          \/ \E stage \in {"final-preflight-accepted", "final-preflight-refused"} :
                receipt' = [receipt EXCEPT ![o] = [r EXCEPT !.stage = stage]]
        BY <2>3 DEF RepeatPreflight, Advance, Op
    <3> QED
        BY <1>1, <1>2, <3>1 DEF Receipts, NoReceipt
  <2>4. CASE PrepareHandoff(c)
    <3>1. receipt' = [receipt EXCEPT ![o] = IF r.handoff THEN r
                               ELSE [r EXCEPT !.stage = "handoff-prepared", !.handoff = TRUE]]
        BY <2>4 DEF PrepareHandoff, Advance, Op
    <3> QED
        BY <1>1, <1>2, <3>1 DEF Receipts, NoReceipt
  <2>5. CASE ConfirmControllerReady(c)
    <3>1. receipt' = [receipt EXCEPT ![o] = [r EXCEPT !.stage = "controller-accepted"]]
        BY <2>5 DEF ConfirmControllerReady, Advance, Op
    <3> QED
        BY <1>1, <1>2, <3>1 DEF Receipts, NoReceipt
  <2>6. CASE CreateVerifiedBackup(c)
    <3>1. receipt' = [receipt EXCEPT ![o] = IF r.backup THEN r
                               ELSE [r EXCEPT !.stage = "backup-verified", !.backup = TRUE]]
        BY <2>6 DEF CreateVerifiedBackup, Advance, Op
    <3> QED
        BY <1>1, <1>2, <3>1 DEF Receipts, NoReceipt
  <2>7. CASE Finish(c)
    <3>1. \E end \in {"activation-authorized", "rolled-back"} :
             receipt' = [receipt EXCEPT ![o] = IF r.stage = view.stage
                                               THEN [r EXCEPT !.stage = end] ELSE r]
        BY <2>7 DEF Finish, Advance, Op, View
    <3> QED
        BY <1>1, <1>2, <3>1 DEF Receipts, NoReceipt
  <2>8. CASE \/ ReadDrain(c) \/ ForceDrain(c) \/ HoldMutations(c) \/ ReleaseUpgradeHolds(c)
             \/ ContinueHandoff(c) \/ StopOwnedProcesses(c) \/ GiveUp(c)
      BY <2>8 DEF ReadDrain, ForceDrain, HoldMutations, ReleaseUpgradeHolds, ContinueHandoff,
                  StopOwnedProcesses, GiveUp
  <2> QED
      BY <2>1, <2>2, <2>3, <2>4, <2>5, <2>6, <2>7, <2>8
\* Without an entry.
<1>7. ASSUME \E at \in {"preflighted", "call", "refused", "failed"} : Do(c, at, <<>>)
      PROVE  PlaceInv'
    BY <1>3, <1>6, <1>7, GoesOnInPlace
\* With an entry on the same side.
<1>8. ASSUME NEW e, Do(c, "step", <<e>>), SameSide(view, e)
      PROVE  PlaceInv'
    BY <1>3, <1>6, <1>8, GoesOnInPlace
<1>9. CASE Preflight(c) \/ ForceDrain(c) \/ HoldMutations(c) \/ Finish(c)
    BY <1>7, <1>9 DEF Preflight, ForceDrain, HoldMutations, Finish, Calls
<1>10. CASE BeginDrain(c) \/ ReadDrain(c) \/ PrepareHandoff(c) \/ ConfirmControllerReady(c)
            \/ CreateVerifiedBackup(c)
  <2>1. /\ view.stage \in OnTheSource
        /\ \E stage \in OnTheSource :
              \/ Do(c, "step", <<To(view, stage)>>)
              \/ \E n : Do(c, "step", <<[To(view, stage) EXCEPT !.owner = n]>>)
      BY <1>1, <1>10 DEF BeginDrain, ReadDrain, PrepareHandoff, ConfirmControllerReady,
                         CreateVerifiedBackup, At, View, Reached, OnTheSource, BeforeTheStop
  <2> QED
      BY <1>1, <1>8, <2>1, SidesOf
<1>11. CASE RepeatPreflight(c)
  <2>1. /\ view.stage = "mutations-held"
        /\ \/ Do(c, "refused", <<>>)
           \/ Do(c, "step", <<To(view, "final-preflight-accepted")>>)
      BY <1>11 DEF RepeatPreflight, At, View
  <2>2. SameSide(view, To(view, "final-preflight-accepted"))
      BY <1>1, <2>1, SidesOf DEF OnTheSource, BeforeTheStop
  <2> QED
      BY <1>7, <1>8, <2>1, <2>2
<1>12. CASE ReleaseUpgradeHolds(c)
  <2>1. /\ view.stage = "mutations-held"
        /\ \/ Do(c, "call", <<>>)
           \/ Do(c, "step", <<Ended(view, "upgrade-refused")>>)
      BY <1>1, <1>12 DEF ReleaseUpgradeHolds, Calls, Reached, View
  <2>2. SameSide(view, Ended(view, "upgrade-refused"))
      BY <1>1, <2>1, SidesOf DEF OnTheSource, BeforeTheStop
  <2> QED
      BY <1>7, <1>8, <2>1, <2>2
<1>13. CASE ContinueHandoff(c)
  <2>1. \/ /\ view.stage = "handoff-prepared"
           /\ Do(c, "step", <<To(view, "controller-ready")>>)
        \/ /\ view.stage = "backup-verified"
           /\ Do(c, "step", <<To(view, "cleanup-started")>>)
        \/ /\ view.stage = "activation-authorized"
           /\ Do(c, "step", <<Ended(view, "activated")>>)
      BY <1>13 DEF ContinueHandoff, At, View
  <2>2. /\ view.stage = "handoff-prepared" => SameSide(view, To(view, "controller-ready"))
        /\ view.stage = "backup-verified" => SameSide(view, To(view, "cleanup-started"))
        /\ view.stage = "activation-authorized" => SameSide(view, Ended(view, "activated"))
      BY <1>1, SidesOf DEF OnTheSource, OnTheCandidate, BeforeTheStop
  <2> QED
      BY <1>8, <2>1, <2>2
<1>14. CASE StopOwnedProcesses(c)
  <2>1. \/ Do(c, "call", <<>>)
        \/ Do(c, "step", <<To(view, "owned-processes-stopped")>>)
      BY <1>14 DEF StopOwnedProcesses, Calls, View
  <2>2. SameSide(view, To(view, "owned-processes-stopped"))
      BY <1>1, SidesOf
  <2> QED
      BY <1>7, <1>8, <2>1, <2>2
<1>15. CASE GiveUp(c)
  <2>1. Do(c, "failed", <<>>) \/ Do(c, "step", <<Ended(view, "repair-required")>>)
      BY <1>15 DEF GiveUp, ToRepair, View
  <2>2. SameSide(view, Ended(view, "repair-required"))
      BY <1>1, SidesOf
  <2> QED
      BY <1>7, <1>8, <2>1, <2>2
<1> QED
    BY <1>9, <1>10, <1>11, <1>12, <1>13, <1>14, <1>15

LEMMA DoneFields ==
    ASSUME UpgradeInv, NEW c \in Client, ctl[c] # Idle, NEW at, NEW todo, Do(c, at, todo)
    PROVE  /\ ctl'[c].op = ctl[c].op /\ ctl'[c].view = ctl[c].view
           /\ ctl'[c].at = at /\ ctl'[c].todo = todo
<1>1. ctl[c] \in Controls
    BY ControlFacts
<1>2. ctl' = [ctl EXCEPT ![c] = [ctl[c] EXCEPT !.at = at, !.todo = todo, !.rollback = ctl[c].rollback]]
    BY DoneBy
<1> QED
    BY <1>1, <1>2 DEF Controls, UpgradeInv, UpgradeTypes

(* A controller moves the releases or the data.                            *)
LEMMA MovesPlaces ==
    ASSUME UpgradeInv, OneCommand, NEW c \in Client, ctl[c] # Idle, UNCHANGED journal,
           NEW view, view = ctl[c].view, NEW next, receipt'[ctl[c].op] = next,
           Placed(view, next)', ctl'[c].op = ctl[c].op, ctl'[c].view = view,
           \/ /\ ctl'[c].todo = <<>>
              /\ ctl'[c].at \in {"rollback", "stopped"} => format' \in Reads[view.source]
              /\ ctl'[c].at = "stopped" => launcher' = None
           \/ \E e :
                 /\ ctl'[c].at = "step" /\ ctl'[c].todo = <<e>> /\ Placed(e, next)'
                 /\ e.stage = "process-stopped" => view.stage \in WhileStopped
    PROVE  PlaceInv'
<1> DEFINE o == ctl[c].op
<1>1. o \in Operation /\ Current(o) /\ view = journal[o]
    BY ControlFacts
<1>2. \A p \in Operation : Current(p)' <=> p = o
    BY <1>1 DEF UpgradeInv, OneIsCurrent, Current
<1>3. Placed(journal[o], receipt[o])'
  <2>1. journal'[o] = view /\ receipt'[o] = next
      BY <1>1
  <2> QED
      BY <2>1 DEF Placed, Settled
<1>4. ControlIsPlaced(ctl[c], receipt[ctl[c].op])'
  <2>1. ASSUME NEW e, ctl'[c].at = "step", ctl'[c].todo = <<e>>, Placed(e, next)',
               e.stage = "process-stopped" => view.stage \in WhileStopped
        PROVE  ControlIsPlaced(ctl[c], receipt[ctl[c].op])'
    <3>1. Head(ctl'[c].todo) = e
        BY <2>1, HeadOfOne, Zenon
    <3>2. Placed(Head(ctl[c].todo), receipt[ctl[c].op])'
        BY <2>1, <3>1 DEF Placed, Settled
    <3> QED
        BY <2>1, <3>1, <3>2 DEF ControlIsPlaced
  <2> QED
      BY <2>1 DEF ControlIsPlaced
<1>5. \A d \in Client : d = c
    BY DEF OneCommand
<1> QED
    BY <1>1, <1>2, <1>3, <1>4, <1>5 DEF PlaceInv

LEMMA SwitchMoves ==
    ASSUME UpgradeInv, PlaceInv, OneCommand, NEW c \in Client, ctl[c] # Idle,
           \/ StopNative(c) \/ SelectCandidate(c) \/ StartSelected(c)
           \/ InspectRollbackSafety(c) \/ RollbackStops(c) \/ RollbackSelects(c)
    PROVE  PlaceInv'
<1> PICK view, r : view = ctl[c].view /\ r = receipt[ctl[c].op]
    OBVIOUS
<1>1. /\ ctl[c] \in Controls /\ view \in Entries /\ view.outcome = None
      /\ r \in {NoReceipt} \cup Receipts /\ Meets(view.stage, r) /\ Reached(ctl[c].at, view, r)
      /\ Placed(view, r) /\ ControlIsPlaced(ctl[c], r)
    BY ControlFacts DEF ControlFollows, Sound, Fits, PlaceInv
<1>2. UNCHANGED <<journal, receipt, format>>
    BY DEF StopNative, SelectCandidate, StartSelected, InspectRollbackSafety, RollbackStops,
           RollbackSelects
<1>3. receipt'[ctl[c].op] = r
    BY <1>2
<1>4. view.stage \in WhileStopped => r.stage # "candidate-ready"
    BY <1>1 DEF Meets
<1>5. ASSUME UNCHANGED <<selected, launcher>>, Do(c, "step", <<ToRepair(view)>>)
      PROVE  PlaceInv'
  <2>1. SameSide(view, ToRepair(view))
      BY <1>1, SidesOf DEF ToRepair
  <2> QED
      BY <1>2, <1>5, <2>1, GoesOnInPlace
<1>6. ASSUME NEW stage
      PROVE  /\ To(view, stage).stage = stage /\ To(view, stage).source = view.source
             /\ To(view, stage).candidate = view.candidate
    BY <1>1 DEF To, Entries, AnyEntries
<1>7. CASE StopNative(c)
  <2>1. CASE launcher' = None /\ Do(c, "step", <<To(view, "process-stopped")>>)
    <3> PICK e : e = To(view, "process-stopped")
        OBVIOUS
    <3>1. view.stage = "owned-processes-stopped" /\ e.stage = "process-stopped"
        BY <1>6, <1>7 DEF StopNative, At, View
    <3>2. Placed(view, r)' /\ Placed(e, r)'
        BY <1>4, <2>1, <3>1 DEF Placed, OnTheSource, OnTheCandidate, BeforeTheStop, WhileStopped
    <3>3. /\ ctl'[c].op = ctl[c].op /\ ctl'[c].view = view /\ ctl'[c].at = "step"
          /\ ctl'[c].todo = <<e>>
        BY <2>1, DoneFields
    <3> QED
        BY <1>2, <1>3, <3>1, <3>2, <3>3, MovesPlaces DEF WhileStopped
  <2> QED
      BY <1>5, <1>7, <2>1 DEF StopNative, ServiceStops, View
<1>8. CASE SelectCandidate(c)
  <2> PICK e : e = To(view, "candidate-selected")
      OBVIOUS
  <2>1. /\ view.stage = "process-stopped" /\ e.stage = "candidate-selected"
        /\ UNCHANGED launcher /\ Do(c, "step", <<e>>)
      BY <1>6, <1>8 DEF SelectCandidate, At, View
  <2>2. launcher = None
      BY <1>1, <2>1 DEF Placed
  <2>3. Placed(view, r)' /\ Placed(e, r)'
      BY <1>4, <2>1, <2>2 DEF Placed, OnTheSource, OnTheCandidate, BeforeTheStop, WhileStopped
  <2>4. /\ ctl'[c].op = ctl[c].op /\ ctl'[c].view = view /\ ctl'[c].at = "step"
        /\ ctl'[c].todo = <<e>>
      BY <2>1, DoneFields
  <2> QED
      BY <1>2, <1>3, <2>1, <2>3, <2>4, MovesPlaces
<1>9. CASE StartSelected(c)
  <2>1. /\ view.stage \in {"candidate-selected", "rollback-selected"}
        /\ launcher' = Started /\ selected' = selected /\ Do(c, "waiting", <<>>)
      BY <1>9 DEF StartSelected, At, View
  <2>2. Placed(view, r)'
      BY <1>1, <1>2, <2>1 DEF Placed, Started, OnTheSource, OnTheCandidate, BeforeTheStop
  <2>3. /\ ctl'[c].op = ctl[c].op /\ ctl'[c].view = view /\ ctl'[c].at = "waiting"
        /\ ctl'[c].todo = <<>>
      BY <2>1, DoneFields
  <2> QED
      BY <1>2, <1>3, <2>2, <2>3, MovesPlaces
<1>10. CASE InspectRollbackSafety(c)
  <2>1. CASE RollbackSafe(c)
    <3>1. /\ UNCHANGED <<selected, launcher>> /\ Do(c, "rollback", <<>>)
          /\ format \in Reads[view.source]
        BY <1>10, <2>1 DEF InspectRollbackSafety, RollbackSafe, View
    <3>2. Placed(view, r)'
        BY <1>1, <1>2, <3>1 DEF Placed, Settled
    <3>3. /\ ctl'[c].op = ctl[c].op /\ ctl'[c].view = view /\ ctl'[c].at = "rollback"
          /\ ctl'[c].todo = <<>>
        BY <3>1, DoneFields
    <3> QED
        BY <1>2, <1>3, <3>1, <3>2, <3>3, MovesPlaces
  <2>2. CASE ~RollbackSafe(c)
      BY <1>5, <1>10, <2>2 DEF InspectRollbackSafety, View
  <2> QED
      BY <2>1, <2>2
<1>11. CASE RollbackStops(c)
  <2>1. CASE launcher' = None /\ Do(c, "stopped", <<>>)
    <3>1. ctl[c].at = "rollback" /\ selected' = selected
        BY <1>11 DEF RollbackStops
    <3>2. view.stage = "candidate-selected" /\ format \in Reads[view.source]
        BY <1>1, <3>1 DEF Reached, ControlIsPlaced
    <3>3. Placed(view, r)'
        BY <1>1, <1>2, <2>1, <3>2 DEF Placed, OnTheSource, OnTheCandidate, BeforeTheStop
    <3>4. /\ ctl'[c].op = ctl[c].op /\ ctl'[c].view = view /\ ctl'[c].at = "stopped"
          /\ ctl'[c].todo = <<>>
        BY <2>1, DoneFields
    <3> QED
        BY <1>2, <1>3, <2>1, <3>2, <3>3, <3>4, MovesPlaces
  <2> QED
      BY <1>5, <1>11, <2>1 DEF RollbackStops, ServiceStops, View
<1>12. CASE RollbackSelects(c)
  <2> PICK e : e = [To(view, "rollback-selected") EXCEPT !.rollbackAttempted = TRUE]
      OBVIOUS
  <2>1. /\ ctl[c].at = "stopped" /\ selected' = view.source /\ UNCHANGED launcher
        /\ ctl' = [ctl EXCEPT ![c] = [ctl[c] EXCEPT !.at = "step", !.rollback = TRUE,
                                                    !.todo = <<e>>]]
      BY <1>1, <1>12 DEF RollbackSelects, Select, View, Controls
  <2>2. view.stage = "candidate-selected" /\ format \in Reads[view.source] /\ launcher = None
      BY <1>1, <2>1 DEF Reached, ControlIsPlaced
  <2>3. e.stage = "rollback-selected" /\ e.source = view.source /\ e.candidate = view.candidate
      BY <1>1 DEF To, Entries, AnyEntries
  <2>4. Placed(view, r)' /\ Placed(e, r)'
      BY <1>1, <1>2, <2>1, <2>2, <2>3 DEF Placed, OnTheSource, OnTheCandidate, BeforeTheStop
  <2>5. /\ ctl'[c].op = ctl[c].op /\ ctl'[c].view = view /\ ctl'[c].at = "step"
        /\ ctl'[c].todo = <<e>>
      BY <1>1, <2>1 DEF Controls, UpgradeInv, UpgradeTypes
  <2> QED
      BY <1>2, <1>3, <2>3, <2>4, <2>5, MovesPlaces
<1> QED
    BY <1>7, <1>8, <1>9, <1>10, <1>11, <1>12

(* The data are migrated, and the Daemon that answers says that it is      *)
(* ready.                                                                  *)
LEMMA ReadinessMoves ==
    ASSUME UpgradeInv, PlaceInv, OneCommand, ImplementersRead, NEW c \in Client, ctl[c] # Idle,
           Migrate(c) \/ ReadReadiness(c)
    PROVE  PlaceInv'
<1> PICK view, r : view = ctl[c].view /\ r = receipt[ctl[c].op]
    OBVIOUS
<1>1. /\ ctl[c] \in Controls /\ ctl[c].op \in Operation /\ view \in Entries
      /\ r \in {NoReceipt} \cup Receipts
      /\ Fits(view, r, daemon) /\ ControlFollows(ctl[c], view, r, daemon)
      /\ Placed(view, r) /\ ControlIsPlaced(ctl[c], r)
    BY ControlFacts DEF Sound, PlaceInv
<1>2. /\ child /\ ctl[c].at = "waiting" /\ selected = Expected(c)
      /\ UNCHANGED <<journal, selected, launcher>>
    BY DEF Migrate, MayBeReady, ReadReadiness
<1>3. view.stage \in {"candidate-selected", "rollback-selected"} /\ ctl[c].todo = <<>>
    BY <1>1, <1>2 DEF ControlFollows, Reached
<1>4. r \in Receipts
    BY <1>1, <1>3, ReceiptIsThere
<1>5. r.source = view.source /\ r.candidate = view.candidate
    BY <1>1, <1>4 DEF Fits, Receipts, NoReceipt
<1>6. /\ launcher # None
      /\ receipt \in [Operation -> {NoReceipt} \cup Receipts]
    BY <1>2 DEF UpgradeInv, UpgradeTypes
<1>7. /\ view.stage = "candidate-selected" => selected = view.candidate /\ launcher = view.candidate
      /\ view.stage = "rollback-selected" => selected = view.source /\ launcher = view.source
    BY <1>1, <1>2, <1>6 DEF Placed, Expected, RollingBack, View
<1>8. CASE Migrate(c)
  <2> PICK next : next = [r EXCEPT !.migrated = TRUE]
      OBVIOUS
  <2>1. /\ r.stage = "source-execution-stopped" /\ launcher \in Implements
        /\ receipt' = [receipt EXCEPT ![ctl[c].op] = next] /\ ctl' = ctl
      BY <1>8 DEF Migrate, Advance, Op
  <2>2. PICK migration \in Declares[r.candidate] : format' = migration.to
      BY <1>8 DEF Migrate, Op
  <2>3. receipt'[ctl[c].op] = next /\ next.stage = "source-execution-stopped"
      BY <1>1, <1>4, <1>6, <2>1 DEF Receipts
  <2>4. format' \in Reads[launcher]
      BY <1>4, <2>1, <2>2 DEF ImplementersRead, Receipts
  <2>5. Placed(view, next)'
      BY <1>1, <1>2, <1>3, <1>7, <2>3, <2>4 DEF Placed, OnTheSource, OnTheCandidate, BeforeTheStop
  <2> QED
      BY <1>2, <1>3, <2>1, <2>3, <2>5, MovesPlaces
<1>9. CASE ReadReadiness(c)
  <2> PICK ready : ready = IF view.stage = "rollback-selected" THEN "rollback-ready"
                           ELSE "candidate-ready"
      OBVIOUS
  <2> PICK by : by = IF Recorded(c) THEN r.by ELSE launcher
      OBVIOUS
  <2> PICK next : next = [r EXCEPT !.stage = ready, !.readiness = daemon.instance, !.by = by]
      OBVIOUS
  <2> PICK e : e = [To(view, ready) EXCEPT !.readiness = daemon.instance]
      OBVIOUS
  <2>1. Ready(c) = ready
      BY DEF Ready, RollingBack, View
  <2>2. /\ Recorded(c) \/ format \in Reads[r.candidate]
        /\ Do(c, "step", <<e>>) /\ UNCHANGED format
      BY <1>9, <2>1 DEF ReadReadiness, Op, View
  <2>3. receipt' = [receipt EXCEPT ![ctl[c].op] = next]
      BY <1>4, <1>9, <2>1 DEF ReadReadiness, Op, Advance, Receipts
  <2>4. receipt'[ctl[c].op] = next /\ next.stage = ready
      BY <1>1, <1>4, <1>6, <2>3 DEF Receipts
  <2>5. e.stage = ready /\ e.source = view.source /\ e.candidate = view.candidate
      BY <1>1 DEF To, Entries, AnyEntries
  <2>6. ready = "candidate-ready" => format \in Reads[view.candidate]
      BY <1>1, <1>5, <2>1, <2>2 DEF Recorded, Op, Placed
  <2>7. Placed(view, next)' /\ Placed(e, next)'
      BY <1>1, <1>2, <1>3, <1>7, <2>2, <2>4, <2>5, <2>6
         DEF Placed, Settled, OnTheSource, OnTheCandidate, BeforeTheStop
  <2>8. /\ ctl'[c].op = ctl[c].op /\ ctl'[c].view = view /\ ctl'[c].at = "step"
        /\ ctl'[c].todo = <<e>>
      BY <2>2, DoneFields
  <2> QED
    <3>1. e.stage # "process-stopped"
        BY <2>5
    <3>2. /\ ctl'[c].at = "step" /\ ctl'[c].todo = <<e>> /\ Placed(e, next)'
          /\ e.stage = "process-stopped" => view.stage \in WhileStopped
        BY <2>7, <2>8, <3>1
    <3>3. \E f : /\ ctl'[c].at = "step" /\ ctl'[c].todo = <<f>> /\ Placed(f, next)'
                 /\ f.stage = "process-stopped" => view.stage \in WhileStopped
        BY <3>2
    <3> QED
        BY <1>2, <2>4, <2>7, <2>8, <3>3, MovesPlaces
<1> QED
    BY <1>8, <1>9

(* The journal is written, and clients come and go.                        *)
LEMMA WritingMoves ==
    ASSUME UpgradeInv, PlaceInv, OneCommand, NEW c \in Client, ctl[c] # Idle, WriteEntry(c)
    PROVE  PlaceInv'
<1> PICK o, view, r, h : /\ o = ctl[c].op /\ view = ctl[c].view /\ r = receipt[ctl[c].op]
                         /\ h = Head(ctl[c].todo)
    OBVIOUS
<1> DEFINE e == [h EXCEPT !.rev = view.rev + 1]
<1>1. /\ ctl[c] \in Controls /\ o \in Operation /\ view = journal[o] /\ Current(o)
      /\ ControlFollows(ctl[c], view, r, daemon) /\ ControlIsPlaced(ctl[c], r)
    BY ControlFacts DEF PlaceInv
<1>2. /\ ctl[c].todo # <<>> /\ UNCHANGED <<receipt, selected, launcher, format>>
      /\ journal' = [journal EXCEPT ![o] = e]
      /\ ctl' = [ctl EXCEPT ![c] = IF e.outcome = None
                                   THEN [ctl[c] EXCEPT !.view = e, !.todo = Tail(ctl[c].todo)]
                                   ELSE Idle]
  <2>1. journal[o].rev = view.rev
      BY <1>1
  <2>2. ctl[c].todo # <<>> /\ UNCHANGED <<receipt, selected, launcher, format>>
      BY DEF WriteEntry
  <2>3. e = [Head(ctl[c].todo) EXCEPT !.rev = ctl[c].view.rev + 1]
      OBVIOUS
  <2> HIDE DEF e
  <2>4. journal' = [journal EXCEPT ![o] = e]
      BY <2>1, <2>3 DEF WriteEntry, Op, View
  <2>5. ctl' = [ctl EXCEPT ![c] = IF e.outcome = None
                                  THEN [ctl[c] EXCEPT !.view = e, !.todo = Tail(ctl[c].todo)]
                                  ELSE Idle]
      BY <2>1, <2>3 DEF WriteEntry, Op, View
  <2> QED
      BY <2>2, <2>4, <2>5
<1>3. h \in Entries /\ Tail(ctl[c].todo) = <<>>
  <2>1. PICK g \in Entries : ctl[c].todo = <<g>>
      BY <1>1, <1>2 DEF Controls, Todos
  <2> QED
      BY <2>1
<1>4. /\ e.stage = h.stage /\ e.outcome = h.outcome /\ e.source = h.source
      /\ e.candidate = h.candidate
    BY <1>3 DEF Entries, AnyEntries
<1> HIDE DEF e
<1>5. Placed(h, r) /\ ctl[c].at = "step"
    BY <1>1, <1>2 DEF ControlIsPlaced, ControlFollows
<1>6. Placed(e, r)'
    BY <1>2, <1>4, <1>5 DEF Placed, Settled
<1>7. journal'[o] = e /\ \A p \in Operation : p # o => journal'[p] = journal[p]
    BY <1>1, <1>2 DEF UpgradeInv, UpgradeTypes
<1>8. \A p \in Operation : Current(p)' => p = o
    BY <1>1, <1>7 DEF UpgradeInv, OneIsCurrent, Current
<1>9. ASSUME ~Current(o)'
      PROVE  Settled(selected)'
  <2>1. e.outcome \notin {None, "repair-required"} \/ e = NoEntry
      BY <1>7, <1>9 DEF Current
  <2>2. e.outcome = IF e.stage \in Outcomes THEN e.stage ELSE None
      BY <1>3, <1>4 DEF Entries
  <2>3. NoEntry.outcome = None /\ NoEntry.stage = None
      BY DEF NoEntry
  <2>4. h.stage # None
      BY <1>3 DEF Entries, AnyEntries, EntryStages, BeforeTheStop, WhileStopped, AfterTheSwitch,
                  Outcomes, None
  <2>5. e.stage \in {"upgrade-refused", "activated", "rolled-back"}
      BY <1>4, <2>1, <2>2, <2>3, <2>4 DEF Outcomes
  <2> QED
      BY <1>6, <2>5 DEF Placed, Settled, OnTheSource, OnTheCandidate
<1>10. Placed(journal[o], receipt[o])'
  <2>1. receipt'[o] = r
      BY <1>2
  <2> QED
      BY <1>6, <1>7, <2>1 DEF Placed, Settled
<1>11. ASSUME ctl'[c] # Idle
       PROVE  ControlIsPlaced(ctl[c], receipt[ctl[c].op])'
  <2>1. ctl'[c].todo = <<>> /\ ctl'[c].at = "step"
      BY <1>1, <1>2, <1>3, <1>5, <1>11 DEF Controls, UpgradeInv, UpgradeTypes
  <2> QED
      BY <2>1 DEF ControlIsPlaced
<1>12. \A d \in Client : d = c
    BY DEF OneCommand
<1> QED
    BY <1>1, <1>8, <1>9, <1>10, <1>11, <1>12 DEF PlaceInv

LEMMA ClientsMove ==
    ASSUME UpgradeInv, PlaceInv, OneCommand, NEW c \in Client,
           \/ ClientEnds(c)
           \/ \E o \in Operation :
                 \/ Resume(c, o) \/ ForcePending(c, o)
                 \/ \E candidate \in Release : Begin(c, o, candidate)
    PROVE  PlaceInv'
<1>1. UNCHANGED <<receipt, selected, launcher, format>>
    BY DEF ClientEnds, Resume, ForcePending, Begin
<1>2. \A d \in Client : d = c
    BY DEF OneCommand
<1>3. ASSUME ctl'[c] # Idle
      PROVE  ctl'[c].todo = <<>> /\ ctl'[c].at = "step"
  <2>1. \/ ctl' = [ctl EXCEPT ![c] = Idle]
        \/ \E o \in Operation : \E e : ctl' = [ctl EXCEPT ![c] = Control(o, e)]
      BY DEF ClientEnds, Resume, ForcePending, Begin
  <2>2. \A y : ctl' = [ctl EXCEPT ![c] = y] => ctl'[c] = y
      BY DEF UpgradeInv, UpgradeTypes
  <2>3. PICK o, e : ctl'[c] = Control(o, e)
      BY <1>3, <2>1, <2>2
  <2> QED
      BY <2>3 DEF Control
<1>4. \A d \in Client : ctl'[d] # Idle => ControlIsPlaced(ctl[d], receipt[ctl[d].op])'
    BY <1>2, <1>3 DEF ControlIsPlaced
<1>5. CASE ClientEnds(c) \/ \E o \in Operation : Resume(c, o)
  <2>1. UNCHANGED journal
      BY <1>5 DEF ClientEnds, Resume
  <2> QED
      BY <1>1, <1>4, <2>1 DEF PlaceInv, Placed, Settled, Current
<1>6. ASSUME NEW o \in Operation, ForcePending(c, o)
      PROVE  PlaceInv'
  <2> PICK view, r : view = journal[o] /\ r = receipt[o]
      OBVIOUS
  <2> DEFINE e == [view EXCEPT !.forced = TRUE, !.rev = view.rev + 1]
  <2>1. /\ Pending(o) /\ journal' = [journal EXCEPT ![o] = e]
      BY <1>6 DEF ForcePending
  <2>2. view \in Entries /\ Current(o)
      BY <2>1 DEF Pending, Current, UpgradeInv, UpgradeTypes
  <2>3. /\ e.stage = view.stage /\ e.source = view.source /\ e.candidate = view.candidate
        /\ e.outcome = view.outcome
      BY <2>2 DEF Entries, AnyEntries
  <2> HIDE DEF e
  <2>4. journal'[o] = e /\ \A p \in Operation : p # o => journal'[p] = journal[p]
      BY <2>1 DEF UpgradeInv, UpgradeTypes
  <2>5. Placed(e, r)'
      BY <1>1, <2>2, <2>3 DEF PlaceInv, Placed, Settled
  <2>6. Placed(journal[o], receipt[o])'
      BY <1>1, <2>4, <2>5 DEF Placed, Settled
  <2>7. \A p \in Operation : Current(p)' => p = o
      BY <2>2, <2>4 DEF UpgradeInv, OneIsCurrent, Current
  <2>8. Current(o)'
    <3>1. e # NoEntry
      <4>1. view.stage # None /\ NoEntry.stage = None
          BY <2>2 DEF Entries, AnyEntries, NoEntry, EntryStages, BeforeTheStop, WhileStopped,
                      AfterTheSwitch, Outcomes, None
      <4> QED
          BY <2>3, <4>1
    <3> QED
        BY <2>2, <2>3, <2>4, <3>1 DEF Current
  <2> QED
      BY <1>4, <2>6, <2>7, <2>8 DEF PlaceInv
<1>7. ASSUME NEW o \in Operation, NEW candidate \in Release, Begin(c, o, candidate)
      PROVE  PlaceInv'
  <2> PICK e : e = Entry(selected, candidate)
      OBVIOUS
  <2>1. /\ journal[o] = NoEntry /\ \A p \in Operation : ~Pending(p)
        /\ ~RepairRequired /\ journal' = [journal EXCEPT ![o] = e]
      BY <1>7 DEF Begin
  <2>2. \A p \in Operation : ~Current(p)
      BY <2>1 DEF Current, Pending, RepairRequired
  <2>3. Settled(selected)
      BY <2>2 DEF PlaceInv
  <2>4. /\ e.stage = "prepared" /\ e.source = selected /\ e.candidate = candidate
        /\ e.outcome = None
      BY DEF Entry
  <2>5. receipt[o].stage # "candidate-ready"
    <3>1. receipt[o] = NoReceipt
        BY <2>1 DEF UpgradeInv, OneIsCurrent
    <3> QED
        BY <3>1 DEF NoReceipt, None
  <2>6. journal'[o] = e /\ \A p \in Operation : p # o => journal'[p] = journal[p]
      BY <2>1 DEF UpgradeInv, UpgradeTypes
  <2>7. Placed(journal[o], receipt[o])'
      BY <1>1, <2>3, <2>4, <2>5, <2>6 DEF Placed, Settled, OnTheCandidate
  <2>8. \A p \in Operation : Current(p)' => p = o
      BY <2>2, <2>6 DEF Current
  <2>9. Current(o)'
    <3>1. e # NoEntry
        BY <2>4 DEF NoEntry, None
    <3> QED
        BY <2>4, <2>6, <3>1 DEF Current
  <2> QED
      BY <1>4, <2>7, <2>8, <2>9 DEF PlaceInv
<1> QED
    BY <1>5, <1>6, <1>7

LEMMA CallsMove ==
    ASSUME UpgradeInv, PlaceInv, CallReturns
    PROVE  PlaceInv'
<1> PICK o, view, r : o = daemon.call.op /\ view = journal[o] /\ r = receipt[o]
    OBVIOUS
<1>1. /\ daemon.call # NoCall /\ UNCHANGED <<journal, selected, launcher, format>>
      /\ daemon.call.at \in {"force", "hold", "refuse", "stop", "activate", "settle"}
  <2>1. /\ UNCHANGED <<journal, selected, launcher, format>>
        /\ daemon.call.at \in {"force", "hold", "refuse", "stop", "activate", "settle"}
      BY DEF CallReturns, DrainForced, MutationsHeld, UpgradeRefused, ExecutionStopped,
             RunnersRemain, Activate, Settle
  <2>2. NoCall.at \notin {"force", "hold", "refuse", "stop", "activate", "settle"}
      BY DEF NoCall, None
  <2> QED
      BY <2>1, <2>2
<1>2. /\ o \in Operation /\ Current(o) /\ view \in Entries
      /\ r \in {NoReceipt} \cup Receipts /\ CallFollows(daemon.call, view, r, daemon, child)
    BY <1>1, CallFacts
<1>3. receipt \in [Operation -> {NoReceipt} \cup Receipts]
    BY DEF UpgradeInv, UpgradeTypes
<1>4. receipt'[o].stage = "candidate-ready" => r.stage = "candidate-ready"
  <2>1. \/ receipt' = receipt
        \/ receipt' = [receipt EXCEPT ![o] = IF r.stage = "draining" THEN Held(r) ELSE r]
        \/ receipt' = [receipt EXCEPT ![o] = HoldsOff(r, "upgrade-refused")]
        \/ receipt' = [receipt EXCEPT ![o] = [r EXCEPT !.stage = "source-execution-stopped"]]
        \/ receipt' = [receipt EXCEPT ![o] = HoldsOff(r, r.stage)]
      BY DEF CallReturns, DrainForced, MutationsHeld, UpgradeRefused, ExecutionStopped,
             RunnersRemain, Activate, Settle, Advance
  <2>2. ASSUME NEW next, receipt' = [receipt EXCEPT ![o] = next]
        PROVE  receipt'[o] = next
      BY <1>2, <1>3, <2>2
  <2>3. ASSUME NEW stage
        PROVE  /\ HoldsOff(r, stage).stage = stage /\ [r EXCEPT !.stage = stage].stage = stage
               /\ Held(r).stage = "mutations-held"
      BY <1>2 DEF Receipts, NoReceipt, Held, HoldsOff
  <2>4. CASE receipt' = receipt
      BY <2>4
  <2>5. CASE receipt' = [receipt EXCEPT ![o] = IF r.stage = "draining" THEN Held(r) ELSE r]
      BY <2>2, <2>3, <2>5
  <2>6. CASE receipt' = [receipt EXCEPT ![o] = HoldsOff(r, "upgrade-refused")]
      BY <2>2, <2>3, <2>6
  <2>7. CASE receipt' = [receipt EXCEPT ![o] = [r EXCEPT !.stage = "source-execution-stopped"]]
      BY <2>2, <2>3, <2>7
  <2>8. CASE receipt' = [receipt EXCEPT ![o] = HoldsOff(r, r.stage)]
      BY <2>2, <2>3, <2>8
  <2> QED
      BY <2>1, <2>4, <2>5, <2>6, <2>7, <2>8
<1>5. Idle.at # "call"
    BY DEF Idle, None
<1>6. ASSUME NEW c \in Client, Waits(c)
      PROVE  ctl[c] \in Controls /\ ctl[c].op = o /\ ctl[c].view = view
  <2>1. ctl[c] # Idle
      BY <1>5, <1>6 DEF Waits
  <2> QED
      BY <1>1, <2>1, WhileACallIsOpen
<1>7. ASSUME NEW c \in Client, ctl'[c] # Idle
      PROVE  /\ ctl'[c].op = o
             /\ \/ ctl'[c] = ctl[c]
                \/ \E e : ctl'[c].at = "step" /\ ctl'[c].todo = <<e>> /\ SameSide(view, e)
  <2>1. CASE ctl'[c] = ctl[c]
      BY <1>1, <1>7, <2>1, WhileACallIsOpen
  <2>2. ASSUME NEW e, Waits(c), SameSide(view, e),
               ctl'[c] = [ctl[c] EXCEPT !.at = "step", !.todo = <<e>>]
        PROVE  /\ ctl'[c].op = o
               /\ ctl'[c].at = "step" /\ ctl'[c].todo = <<e>> /\ SameSide(view, e)
      BY <1>6, <2>2 DEF Controls
  <2>3. CASE ~Waits(c)
    <3>1. ctl'[c] = ctl[c]
        BY <2>3 DEF CallReturns, DrainForced, MutationsHeld, UpgradeRefused, ExecutionStopped,
                    RunnersRemain, Activate, Settle, Answers
    <3> QED
        BY <2>1, <3>1
  <2>4. ASSUME DrainForced, Waits(c)
        PROVE  \E e : SameSide(view, e) /\ ctl'[c] = [ctl[c] EXCEPT !.at = "step", !.todo = <<e>>]
    <3>1. SameSide(view, To(view, "drained"))
        BY <1>2, <2>4, SidesOf DEF DrainForced, CallFollows, OnTheSource, BeforeTheStop
    <3> QED
        BY <1>6, <2>4, <3>1 DEF DrainForced, Answers, View
  <2>5. ASSUME MutationsHeld, Waits(c)
        PROVE  \E e : SameSide(view, e) /\ ctl'[c] = [ctl[c] EXCEPT !.at = "step", !.todo = <<e>>]
    <3>1. SameSide(view, To(view, "mutations-held"))
        BY <1>2, <2>5, SidesOf DEF MutationsHeld, CallFollows, OnTheSource, BeforeTheStop
    <3> QED
        BY <1>6, <2>5, <3>1 DEF MutationsHeld, Answers, View
  <2>6. ASSUME UpgradeRefused, Waits(c)
        PROVE  \E e : SameSide(view, e) /\ ctl'[c] = [ctl[c] EXCEPT !.at = "step", !.todo = <<e>>]
    <3>1. SameSide(view, Ended(view, "upgrade-refused"))
        BY <1>2, <2>6, SidesOf DEF UpgradeRefused, CallFollows, OnTheSource, BeforeTheStop
    <3> QED
        BY <1>6, <2>6, <3>1 DEF UpgradeRefused, Answers, View
  <2>7. ASSUME ExecutionStopped, Waits(c)
        PROVE  \E e : SameSide(view, e) /\ ctl'[c] = [ctl[c] EXCEPT !.at = "step", !.todo = <<e>>]
    <3>1. SameSide(view, [To(view, "owned-processes-stopped") EXCEPT !.owner = daemon.instance])
        BY <1>2, SidesOf
    <3> QED
        BY <1>6, <2>7, <3>1 DEF ExecutionStopped, Answers, View
  <2>8. ASSUME Settle, Waits(c)
        PROVE  \E e : SameSide(view, e) /\ ctl'[c] = [ctl[c] EXCEPT !.at = "step", !.todo = <<e>>]
    <3> DEFINE e == IF view.stage = "rollback-ready" THEN Ended(view, "rolled-back")
                    ELSE To(view, "activation-authorized")
    <3>1. view.stage \in {"candidate-ready", "rollback-ready"}
        BY <1>2, <2>8 DEF Settle, CallFollows
    <3>2. SameSide(view, e)
        BY <1>2, <3>1, SidesOf DEF OnTheSource, OnTheCandidate
    <3>3. ctl'[c] = [ctl[c] EXCEPT !.at = "step", !.todo = <<e>>]
        BY <1>6, <2>8 DEF Settle, Answers, View
    <3> QED
        BY <3>2, <3>3
  <2>9. CASE RunnersRemain
      BY <1>7, <2>3, <2>9 DEF RunnersRemain
  <2>10. CASE Activate
      BY <2>1, <2>10 DEF Activate
  <2> QED
      BY <2>2, <2>3, <2>4, <2>5, <2>6, <2>7, <2>8, <2>9, <2>10 DEF CallReturns
<1> QED
    BY <1>1, <1>2, <1>4, <1>7, StaysInPlace

LEMMA DeathsMove ==
    ASSUME UpgradeInv, PlaceInv, DaemonDies
    PROVE  PlaceInv'
<1>1. /\ UNCHANGED <<journal, receipt, selected, launcher, format>>
      /\ ctl' = [c \in Client |-> CallLost(c)]
    BY DEF DaemonDies
<1>2. ASSUME NEW c \in Client, ctl'[c] # Idle
      PROVE  ControlIsPlaced(ctl[c], receipt[ctl[c].op])'
  <2>1. CASE ctl'[c] = ctl[c]
    <3>1. ControlIsPlaced(ctl[c], receipt[ctl[c].op])
        BY <1>2, <2>1 DEF PlaceInv
    <3> QED
        BY <1>1, <2>1, <3>1 DEF ControlIsPlaced, Placed, Settled
  <2>2. CASE ctl'[c] # ctl[c]
    <3> PICK view, r : view = ctl[c].view /\ r = receipt[ctl[c].op]
        OBVIOUS
    <3>1. /\ ctl'[c] = [ctl[c] EXCEPT !.at = "step", !.todo = <<ToRepair(view)>>]
          /\ ctl[c].at = "call"
        BY <1>1, <1>2, <2>2 DEF CallLost, View
    <3>2. Idle.at # "call"
        BY DEF Idle, None
    <3>3. /\ ctl[c] \in Controls /\ ctl[c].op \in Operation /\ Current(ctl[c].op)
          /\ view = journal[ctl[c].op] /\ view \in Entries
        BY <3>1, <3>2, ControlFacts
    <3>4. Placed(ToRepair(view), r) /\ ToRepair(view).stage # "process-stopped"
      <4>1. SameSide(view, ToRepair(view)) /\ Placed(view, r)
          BY <3>3, SidesOf DEF ToRepair, PlaceInv
      <4> QED
          BY <4>1, PlacedToo
    <3>5. /\ ctl'[c].op = ctl[c].op /\ ctl'[c].at = "step" /\ ctl'[c].todo = <<ToRepair(view)>>
        BY <3>1, <3>3 DEF Controls
    <3>6. Head(ctl'[c].todo) = ToRepair(view)
        BY <3>5, HeadOfOne, Zenon
    <3>7. Placed(Head(ctl[c].todo), receipt[ctl[c].op])'
        BY <1>1, <3>4, <3>5, <3>6 DEF Placed, Settled
    <3> QED
        BY <3>4, <3>5, <3>6, <3>7 DEF ControlIsPlaced
  <2> QED
      BY <2>1, <2>2
<1> QED
    BY <1>1, <1>2 DEF PlaceInv, Placed, Settled, Current

(* The service comes up with the release that is selected, unless it is    *)
(* being switched.                                                         *)
LEMMA ServiceMoves ==
    ASSUME UpgradeInv, PlaceInv, NobodyElseStarts, HostRestarts \/ UserStarts
    PROVE  PlaceInv'
<1>1. UNCHANGED <<journal, receipt, selected, format>>
    BY DEF HostRestarts, UserStarts
<1>2. MayStart <=> ~Switching
    BY DEF MayStart, NobodyElseStarts
<1>3. \A o \in Operation : Current(o)' <=> Current(o)
    BY <1>1 DEF Current
<1>4. ASSUME NEW o \in Operation, Current(o)
      PROVE  journal[o] \in Entries /\ Placed(journal[o], receipt[o])
    BY <1>4 DEF Current, UpgradeInv, UpgradeTypes, PlaceInv
<1>5. ASSUME NEW o \in Operation, Current(o)
      PROVE  Switching <=>
                \/ journal[o].stage \in WhileStopped
                \/ \E c \in Client : ctl[c].at = "stopped"
  <2>1. \A p \in Operation : Pending(p) => p = o
      BY <1>5 DEF UpgradeInv, OneIsCurrent, Current, Pending
  <2>2. journal[o].stage \in WhileStopped => Pending(o)
      BY <1>4, <1>5 DEF Entries, Pending, WhileStopped, Outcomes, Current
  <2> QED
      BY <2>1, <2>2 DEF Switching, WhileStopped
<1>6. ASSUME NEW c \in Client, ctl[c].at = "stopped"
      PROVE  /\ ctl[c] # Idle /\ ctl[c].op \in Operation /\ Current(ctl[c].op)
             /\ journal[ctl[c].op].stage = "candidate-selected" /\ launcher = None
  <2>1. Idle.at # "stopped"
      BY DEF Idle, None
  <2>2. ctl[c] # Idle
      BY <1>6, <2>1
  <2>3. /\ ctl[c].op \in Operation /\ Current(ctl[c].op) /\ ctl[c].view = journal[ctl[c].op]
        /\ Reached(ctl[c].at, ctl[c].view, receipt[ctl[c].op])
      BY <2>2, ControlFacts DEF ControlFollows
  <2> QED
      BY <1>6, <2>2, <2>3 DEF Reached, PlaceInv, ControlIsPlaced
<1>7. ASSUME NEW o \in Operation, Current(o),
             journal[o].stage \in OnTheSource \cup OnTheCandidate
      PROVE  ~Switching /\ selected = launcher
  <2>1. \A c \in Client : ctl[c].at # "stopped"
    <3> SUFFICES ASSUME NEW c \in Client, ctl[c].at = "stopped" PROVE FALSE
        OBVIOUS
    <3>1. ctl[c].op = o
        BY <1>6, <1>7 DEF UpgradeInv, OneIsCurrent
    <3> QED
        BY <1>6, <1>7, <3>1 DEF OnTheSource, OnTheCandidate, BeforeTheStop
  <2> QED
      BY <1>4, <1>5, <1>7, <2>1
         DEF Placed, Settled, OnTheSource, OnTheCandidate, BeforeTheStop, WhileStopped
<1>8. ASSUME \A o \in Operation : ~Current(o)
      PROVE  ~Switching /\ selected = launcher
    BY <1>6, <1>8 DEF PlaceInv, Settled, Switching, Pending, Current
<1>9. selected \in Release /\ selected # None
    BY NoneAssumption DEF UpgradeInv, UpgradeTypes
\* Where the service may be started, and where it stays stopped.
<1>10. \/ launcher' = selected /\ ~Switching
       \/ launcher' = None /\ Switching
    BY <1>2 DEF HostRestarts, UserStarts, Started
<1>11. ASSUME NEW o \in Operation, Current(o)
       PROVE  Placed(journal[o], receipt[o])'
  <2> PICK view, r : view = journal[o] /\ r = receipt[o]
      OBVIOUS
  <2>1. Placed(view, r)
      BY <1>4, <1>11
  <2>2. view.stage \in OnTheSource \cup OnTheCandidate => launcher' = selected /\ selected = launcher
      BY <1>7, <1>10, <1>11
  <2>3. view.stage = "process-stopped" => launcher' = None
      BY <1>5, <1>10, <1>11 DEF WhileStopped
  <2>4. launcher' \in {None, selected}
      BY <1>10
  <2>5. Placed(view, r)'
      BY <1>1, <2>1, <2>2, <2>3, <2>4 DEF Placed, Settled
  <2> QED
      BY <1>1, <2>5 DEF Placed, Settled
<1>12. ASSUME \A o \in Operation : ~Current(o)
       PROVE  Settled(selected)'
    BY <1>1, <1>8, <1>10, <1>12 DEF PlaceInv, Settled
<1>13. CASE HostRestarts
  <2>1. ctl' = [c \in Client |-> Idle]
      BY <1>13 DEF HostRestarts
  <2> QED
      BY <1>3, <1>11, <1>12, <2>1 DEF PlaceInv
<1>14. CASE UserStarts
  <2>1. launcher = None /\ ~Switching /\ launcher' = selected /\ ctl' = ctl
      BY <1>2, <1>14 DEF UserStarts, Started
  <2>2. ASSUME NEW c \in Client, ctl[c] # Idle
        PROVE  ControlIsPlaced(ctl[c], receipt[ctl[c].op])'
    <3> PICK e, r : e = Head(ctl[c].todo) /\ r = receipt[ctl[c].op]
        OBVIOUS
    <3>1. ControlIsPlaced(ctl[c], r)
        BY <2>2 DEF PlaceInv
    <3>2. ctl[c].at # "stopped"
        BY <2>1 DEF Switching
    <3>3. /\ ctl[c].op \in Operation /\ Current(ctl[c].op) /\ ctl[c].view = journal[ctl[c].op]
          /\ ctl[c] \in Controls
        BY <2>2, ControlFacts
    <3>4. ctl[c].view.stage \notin WhileStopped
        BY <1>5, <2>1, <3>3
    <3>5. ASSUME ctl[c].todo # <<>>
          PROVE  Placed(e, r)' /\ e.stage # "process-stopped"
      <4>1. e \in Entries
        <5>1. PICK g \in Entries : ctl[c].todo = <<g>>
            BY <3>3, <3>5 DEF Controls, Todos
        <5> QED
            BY <5>1, HeadOfOne, Zenon
      <4>2. Placed(e, r) /\ e.stage # "process-stopped"
          BY <3>1, <3>4, <3>5 DEF ControlIsPlaced
      <4>3. e.source # None /\ e.candidate # None
          BY <4>1, NoneAssumption DEF Entries, AnyEntries
      <4> QED
          BY <1>1, <2>1, <4>2, <4>3 DEF Placed, Settled
    <3>6. ctl[c].todo # <<>> => Placed(Head(ctl[c].todo), receipt[ctl[c].op])'
        BY <1>1, <2>1, <3>5 DEF Placed, Settled
    <3> QED
        BY <1>1, <2>1, <3>1, <3>2, <3>5, <3>6 DEF ControlIsPlaced
  <2> QED
      BY <1>3, <1>11, <1>12, <2>1, <2>2 DEF PlaceInv
<1> QED
    BY <1>13, <1>14

LEMMA PlaceInvNext ==
    ASSUME OneCommand, NobodyElseStarts, ImplementersRead, UpgradeInv, PlaceInv, [Next]_vars
    PROVE  PlaceInv'
<1>1. CASE \E c \in Client, o \in Operation :
              \/ \E candidate \in Release : Begin(c, o, candidate)
              \/ Resume(c, o) \/ ForcePending(c, o)
    BY <1>1, ClientsMove
<1>2. ASSUME NEW c \in Client, ControllerStep(c)
      PROVE  PlaceInv'
  <2>1. CASE ClientEnds(c)
      BY <2>1, ClientsMove
  <2>2. ctl[c] # Idle
      BY <1>2, AtWork
  <2>3. CASE WriteEntry(c)
      BY <2>2, <2>3, WritingMoves
  <2>4. CASE \/ Preflight(c) \/ BeginDrain(c) \/ ReadDrain(c) \/ ForceDrain(c)
             \/ HoldMutations(c) \/ RepeatPreflight(c) \/ ReleaseUpgradeHolds(c)
             \/ PrepareHandoff(c) \/ ContinueHandoff(c) \/ ConfirmControllerReady(c)
             \/ CreateVerifiedBackup(c) \/ StopOwnedProcesses(c) \/ GiveUp(c) \/ Finish(c)
      BY <2>2, <2>4, ControllersStayInPlace
  <2>5. CASE \/ StopNative(c) \/ SelectCandidate(c) \/ StartSelected(c)
             \/ InspectRollbackSafety(c) \/ RollbackStops(c) \/ RollbackSelects(c)
      BY <2>2, <2>5, SwitchMoves
  <2>6. CASE Migrate(c) \/ ReadReadiness(c)
      BY <2>2, <2>6, ReadinessMoves
  <2> QED
      BY <1>2, <2>1, <2>3, <2>4, <2>5, <2>6 DEF ControllerStep
<1>3. CASE CallReturns
    BY <1>3, CallsMove
<1>4. CASE \/ StartDaemon \/ MutationBegins \/ MutationEnds \/ Dispatch \/ RunsSettle
           \/ UNCHANGED vars
  <2>1. UNCHANGED <<journal, receipt, selected, launcher, format, ctl>>
      BY <1>4 DEF StartDaemon, MutationBegins, MutationEnds, Dispatch, RunsSettle, vars
  <2> QED
      BY <2>1 DEF PlaceInv, ControlIsPlaced, Placed, Settled, Current
<1>5. CASE DaemonDies
    BY <1>5, DeathsMove
<1>6. CASE HostRestarts \/ UserStarts
    BY <1>6, ServiceMoves
<1> QED
    BY <1>1, <1>2, <1>3, <1>4, <1>5, <1>6 DEF Next

(***************************************************************************)
(* With one command at a time, nobody else who starts the service while it *)
(* is switched, and releases that read what their migrations write, the    *)
(* Daemon that works is of a release that reads the data                   *)
(* (UpgradeActivation, DataAreReadable).                                   *)
(***************************************************************************)
THEOREM DataStayReadable ==
    ASSUME OneCommand, NobodyElseStarts, ImplementersRead
    PROVE  Spec => []DataAreReadable
<1>1. UpgradeInv /\ PlaceInv => DataAreReadable
  <2> SUFFICES ASSUME UpgradeInv, PlaceInv, child, daemon.executing \/ daemon.mutating
               PROVE  format \in Reads[launcher]
      BY DEF DataAreReadable
  <2>1. CASE \A o \in Operation : ~Current(o)
      BY <2>1 DEF PlaceInv, Settled
  <2>2. ASSUME NEW o \in Operation, Current(o)
        PROVE  format \in Reads[launcher]
    <3> DEFINE e == journal[o]
               r == receipt[o]
    <3>1. e \in Entries /\ Fits(e, r, daemon) /\ Quiet(r, daemon, unchanged) /\ Placed(e, r)
        BY <2>2 DEF Current, UpgradeInv, UpgradeTypes, OperationsAreSound, Sound, PlaceInv
    <3>2. e.stage # "repair-required" /\ r.stage \notin CheckedStages
        BY <3>1 DEF Fits, Quiet, Rests
    <3>3. e.stage \notin WhileStopped \cup {"candidate-selected", "rollback-selected"}
        BY <3>1, <3>2 DEF Fits, Meets, CheckedStages, WhileStopped
    <3>4. e.stage \in OnTheSource \cup OnTheCandidate
        BY <3>1, <3>2, <3>3 DEF Entries, AnyEntries, EntryStages, AfterTheSwitch, Outcomes,
                                OnTheSource, OnTheCandidate
    <3> QED
        BY <3>1, <3>4 DEF Placed, Settled
  <2> QED
      BY <2>1, <2>2
<1>2. OneCommand /\ NobodyElseStarts /\ ImplementersRead /\ UpgradeInv /\ PlaceInv /\ [Next]_vars
         => PlaceInv'
    BY PlaceInvNext
<1> QED
    BY <1>1, <1>2, PlaceInvInit, UpgradeInvariant, PTL DEF Spec
=============================================================================
