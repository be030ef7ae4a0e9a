--------------------------- MODULE ClientRequests --------------------------
(***************************************************************************)
(* Mutations that clients ask of the Daemon.  A client first has the exact *)
(* request kept in a journal of the Host, then sends it, and after a lost  *)
(* answer or a crash of the Daemon it, or another client, sends it again   *)
(* by its identity.  The Daemon compares what it receives with the         *)
(* journal, answers from the operation receipt in its database if there is *)
(* a committed one, and otherwise runs the use case, which records the     *)
(* receipt in the transaction of its own effect.  The receipt is then      *)
(* copied to the journal, outside that transaction.                        *)
(*                                                                         *)
(* Three shapes of use case stand for all: "prompt" is done in one         *)
(* transaction (a Start, a Verdict, a configuration); "cancel" and "stop"  *)
(* (with force) are accepted in one, then stop the Run that executes, and  *)
(* record its end in another.  The payload of a request is its content.    *)
(***************************************************************************)
EXTENDS Naturals, Sequences

CONSTANTS Request, Content, Call,
          KindOf        \* the shape of the operation each request names

Kinds == {"prompt", "cancel", "stop"}

ASSUME KindAssumption == KindOf \in [Request -> Kinds]

None == "none"

ASSUME ContentAssumption == None \notin Content

VARIABLES
    journal,            \* the Host's entry of each request
    receipt,            \* daemon_operations: the recorded outcome
    known,              \* the use case's own receipt: the content it has done, or None
    running,            \* requests whose Run still executes and is to be stopped
    effects,            \* history: the contents whose effect was applied, in order
    told,               \* history: the requests that a client was told are committed
    call                \* the Daemon's handlers under way

storeVars == <<receipt, known, running, effects>>
vars == <<journal, storeVars, told, call>>

NoEntry == [content |-> None, kept |-> None, status |-> None]
NoReceipt == [content |-> None, status |-> None]
Idle == [at |-> "idle"]
Handler(q, k, at) == [at |-> at, request |-> q, content |-> k]

Statuses == {None, "accepted", "committed"}
Keeping == {None, "whole", "hash"}

TypeOK ==
    /\ journal \in [Request -> [content : Content \cup {None}, kept : Keeping, status : Statuses]]
    /\ receipt \in [Request -> [content : Content \cup {None}, status : Statuses]]
    /\ known \in [Request -> Content \cup {None}]
    /\ running \in SUBSET Request
    /\ effects \in [Request -> Seq(Content)]
    /\ told \in SUBSET (Request \X Content)
    /\ call \in [Call -> {Idle} \cup [at : {"domain", "stopping", "answer"},
                                      request : Request, content : Content]]

Init ==
    /\ journal = [q \in Request |-> NoEntry]
    /\ receipt = [q \in Request |-> NoReceipt]
    /\ known = [q \in Request |-> None]
    /\ running = {}
    /\ effects = [q \in Request |-> <<>>]
    /\ told = {}
    /\ call = [c \in Call |-> Idle]

-----------------------------------------------------------------------------
(* The Host's journal.                                                     *)

(* A request identity is bound to its first content for good; the same     *)
(* content again changes nothing, another one is refused.                  *)
Prepare(q, k) ==
    /\ journal[q] = NoEntry
    /\ journal' = [journal EXCEPT ![q] = [content |-> k, kept |-> "whole", status |-> None]]
    /\ UNCHANGED <<storeVars, told, call>>

(* Thirty days after its resolution a lookup drops the content of an entry *)
(* and keeps its hash and how it was resolved.                             *)
Compact(q) ==
    /\ journal[q].kept = "whole"
    /\ journal[q].status # None
    /\ journal' = [journal EXCEPT ![q].kept = "hash"]
    /\ UNCHANGED <<storeVars, told, call>>

Exact(q, k) == journal[q].kept = "whole" /\ journal[q].content = k

(* resolve: accepted may become committed and nothing else changes.        *)
Resolve(q) ==
    journal' = [journal EXCEPT ![q].status =
                   IF journal[q].kept = "whole" /\ receipt[q].status # None /\ @ # "committed"
                   THEN receipt[q].status ELSE @]

(* The answer reaches the client, or is lost on its way.                   *)
MayTell(q, k) ==
    \/ told' = told
    \/ receipt[q].status = "committed" /\ told' = told \cup {<<q, k>>}

-----------------------------------------------------------------------------
(* A handler of the Daemon.                                                *)

Free(c) == call[c] = Idle

Ends(c) == call' = [call EXCEPT ![c] = Idle]

Goes(c, at) == call' = [call EXCEPT ![c].at = at]

At(c, at) == call[c].at = at

(* mutationOf and recordedResponse.  What is not exactly the prepared      *)
(* request, or not the recorded one, is refused and changes nothing.       *)
Receive(c, q, k) ==
    /\ Free(c)
    /\ Exact(q, k)
    /\ receipt[q].status # None => receipt[q].content = k
    /\ Resolve(q)
    /\ \/ /\ receipt[q].status = "committed"
          /\ MayTell(q, k)
          /\ UNCHANGED call
       \/ /\ receipt[q].status # "committed"
          /\ call' = [call EXCEPT ![c] = Handler(q, k, "domain")]
          /\ UNCHANGED told
    /\ UNCHANGED storeVars

(* replayPrepared: by identity, with the content of the journal.  Of a     *)
(* compacted entry only what was recorded is answered.                     *)
Retry(c, q) ==
    /\ journal[q] # NoEntry
    /\ \/ Receive(c, q, journal[q].content)
       \/ /\ journal[q].kept = "hash"
          /\ MayTell(q, journal[q].content)
          /\ UNCHANGED <<journal, storeVars, call>>

(* record: committed is final, accepted may become committed, and the      *)
(* content is the first one's.                                             *)
Record(q, k, status) ==
    /\ receipt[q].status # None => receipt[q].content = k
    /\ receipt' = [receipt EXCEPT ![q] =
          [content |-> k, status |-> IF @.status = "committed" THEN @.status ELSE status]]

Apply(q, k) ==
    /\ known' = [known EXCEPT ![q] = k]
    /\ effects' = [effects EXCEPT ![q] = Append(@, k)]

(* A faulty variant: the handler's check for a recorded outcome is relied  *)
(* on, although another handler has passed it too.                         *)
FaultyFirst(q) == receipt[q].status # "committed"

(* The use case has not done this request before.                          *)
First(q) == known[q] = None

(* admit, and the other use cases of one transaction: what the use case's  *)
(* own receipt names is returned and not done again.                       *)
DoPrompt(c, q, k) ==
    /\ KindOf[q] = "prompt"
    /\ \/ First(q) /\ Apply(q, k) /\ Record(q, k, "committed")
       \/ known[q] = k /\ UNCHANGED <<receipt, known, effects>>
    /\ Goes(c, "answer")
    /\ UNCHANGED running

(* A faulty variant: the acceptance is reported as the outcome.            *)
FaultyStatusNow(q) == "committed"

StatusNow(q) == IF q \in running' THEN "accepted" ELSE "committed"

(* requestCancellation: the Run is cancelled at once, or is to be stopped  *)
(* when it executes.  Each call records what it finds.                     *)
DoCancel(c, q, k) ==
    /\ KindOf[q] = "cancel"
    /\ \/ First(q) /\ Apply(q, k) /\ running' \in {running, running \cup {q}}
       \/ known[q] = k /\ UNCHANGED <<known, effects, running>>
    /\ Record(q, k, StatusNow(q))
    /\ Goes(c, IF q \in running' THEN "stopping" ELSE "answer")

(* forceStopWorkflow: always accepted first.  A second call finds the set  *)
(* of targets and records nothing.                                         *)
DoStop(c, q, k) ==
    /\ KindOf[q] = "stop"
    /\ \/ /\ First(q) /\ Apply(q, k)
          /\ Record(q, k, "accepted")
          /\ running' \in {running, running \cup {q}}
       \/ known[q] = k /\ UNCHANGED <<receipt, known, effects, running>>
    /\ Goes(c, IF q \in running' THEN "stopping" ELSE "answer")

UseCase(c) ==
    /\ At(c, "domain")
    /\ LET q == call[c].request  k == call[c].content
       IN  DoPrompt(c, q, k) \/ DoCancel(c, q, k) \/ DoStop(c, q, k)
    /\ UNCHANGED <<journal, told>>

(* #stopCancelledProject has the runner stopped and confirms it: the end   *)
(* of the Run, if nothing else has ended it, and the outcome are one       *)
(* transaction.  When another call has recorded its outcome first, this    *)
(* one agrees with it or is refused (the targets of a stop come in another *)
(* order), and changes nothing.                                            *)
Confirm(c) ==
    LET q == call[c].request IN
    /\ At(c, "stopping")
    /\ running' = running \ {q}
    /\ Record(q, call[c].content, "committed")
    /\ \/ Goes(c, "answer")
       \/ receipt[q].status = "committed" /\ Ends(c)
    /\ UNCHANGED <<journal, known, effects, told>>

(* It finds the Run stopped already, or no runner to stop until its        *)
(* deadline, and answers what is recorded.                                 *)
GiveUp(c) ==
    /\ At(c, "stopping")
    /\ Goes(c, "answer")
    /\ UNCHANGED <<journal, storeVars, told>>

(* The use case refuses the request, or the runner's end is not confirmed. *)
Refuse(c) ==
    /\ At(c, "domain") \/ At(c, "stopping")
    /\ Ends(c)
    /\ UNCHANGED <<journal, storeVars, told>>

(* outcomeResponse.                                                        *)
Answer(c) ==
    LET q == call[c].request IN
    /\ At(c, "answer")
    /\ Resolve(q)
    /\ MayTell(q, call[c].content)
    /\ Ends(c)
    /\ UNCHANGED storeVars

-----------------------------------------------------------------------------
(* Recovery of a loss or a restart confirms a cancellation that was        *)
(* requested, and knows of no request.                                     *)
StoppedByRecovery(q) ==
    /\ q \in running
    /\ running' = running \ {q}
    /\ UNCHANGED <<journal, receipt, known, effects, told, call>>

(* The Daemon crashes and starts again.                                    *)
Crash ==
    /\ call' = [c \in Call |-> Idle]
    /\ UNCHANGED <<journal, storeVars, told>>

Next ==
    \/ \E q \in Request : Compact(q) \/ StoppedByRecovery(q)
    \/ \E q \in Request, k \in Content : Prepare(q, k)
    \/ \E c \in Call, q \in Request, k \in Content : Receive(c, q, k)
    \/ \E c \in Call, q \in Request : Retry(c, q)
    \/ \E c \in Call : UseCase(c) \/ Confirm(c) \/ GiveUp(c) \/ Refuse(c) \/ Answer(c)
    \/ Crash

Spec == Init /\ [][Next]_vars

-----------------------------------------------------------------------------
(* However often a request is sent, lost, retried or reused for another    *)
(* content, and wherever the Daemon crashes, its effect is applied once at *)
(* most, and with the content that the client had kept (admit,             *)
(* forceStopWorkflow, recordedResponse).                                   *)
AppliedOnce ==
    \A q \in Request : effects[q] = <<>> \/ effects[q] = <<journal[q].content>>

(* What a client was told is committed, or the Host's journal says is, is  *)
(* true for good: the effect is durable, it is that of this content, and   *)
(* nothing that it was to stop still executes (outcomeResponse, resolved). *)
CommittedIsDone ==
    /\ \A q \in Request : journal[q].status = "committed" =>
          effects[q] = <<journal[q].content>> /\ q \notin running
    /\ \A t \in told : effects[t[1]] = <<t[2]>> /\ t[1] \notin running
=============================================================================
