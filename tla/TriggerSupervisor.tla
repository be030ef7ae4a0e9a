------------------------- MODULE TriggerSupervisor -------------------------
(***************************************************************************)
(* The Triggers of one Project: the calls that start and stop polling      *)
(* (TriggerSupervisor), the runner processes that poll for the Project's   *)
(* Workflows, their place in the ProjectRunnerSupervisor, and what becomes *)
(* of an event from its source to the Run it is admitted as and back.      *)
(*                                                                         *)
(* A caller is one call in progress: a Start, a restoreProject, the        *)
(* recovery of a lost runner, a Stop or a stopProject.  Each await of the  *)
(* code is a step boundary.  A command to a runner and its reply are one   *)
(* step; a command to a runner that has gone fails, or is never answered   *)
(* when the runner's Stopped had been read.                                *)
(***************************************************************************)
EXTENDS Naturals, FiniteSets

CONSTANTS Workflow,  \* the Project's Workflows that declare a Trigger
          Event,     \* events of the Workflows' sources
          Source,    \* the Workflow whose source an event comes from
          Group,     \* runner processes for Triggers, at most that many
          Caller,    \* calls that may be in progress at the same time
          QueueLimit,\* Runs that may wait
          NoGroup, NoCaller, NoEvent

ASSUME TriggerAssumption ==
    /\ NoGroup \notin Group /\ NoCaller \notin Caller /\ NoEvent \notin Event
    /\ Source \in [Event -> Workflow]
    /\ QueueLimit \in Nat

VARIABLES
    active,     \* project_workflows.activity, with its trigger_pollers row
    delivery,   \* trigger_deliveries: none, acknowledged or rejected
    queued,     \* events whose Run waits in workflow_queue
    started,    \* events whose Run has left the queue
    acked,      \* events their source was told are admitted
    process,    \* of a group: none, up, lost, stopping, deaf, ended
    reg,        \* the Daemon's registrations of a group
    fiber,      \* what the runner's poller of a Workflow does: [at, event]
    current,    \* #triggerGroups
    place,      \* ProjectRunnerSupervisor's handle
    key,        \* #triggerProcesses: the group and the call that set it
    call        \* the calls in progress

storeVars   == <<active, delivery, queued, started, acked>>
groupVars   == <<process, reg, fiber>>
mapVars     == <<current, place, key>>
vars == <<storeVars, groupVars, mapVars, call>>

NoKey  == [group |-> NoGroup, by |-> NoCaller]
NoCall == [at |-> "idle", op |-> "none", todo |-> {}, w |-> NoEvent,
           group |-> NoGroup, old |-> NoGroup, made |-> FALSE, key |-> NoKey]
Idle   == [at |-> "none", event |-> NoEvent]
Fiber(at, e) == [at |-> at, event |-> e]

TriggerInit ==
    /\ active = {} /\ delivery = [e \in Event |-> "none"]
    /\ queued = {} /\ started = {} /\ acked = {}
    /\ process = [g \in Group |-> "none"] /\ reg = [g \in Group |-> {}]
    /\ fiber = [g \in Group |-> [w \in Workflow |-> Idle]]
    /\ current = NoGroup /\ place = NoGroup /\ key = [w \in Workflow |-> NoKey]
    /\ call = [c \in Caller |-> NoCall]

Call(c, r) == call' = [call EXCEPT ![c] = r]
Move(c, at) == Call(c, [call[c] EXCEPT !.at = at])
Reads(g) == process[g] \in {"up", "stopping"}

-----------------------------------------------------------------------------
(* Stopping a group, which several callers may wait for.                   *)

\* stop(): the first call sends Shutdown; the process ends later (Ended).
Stopping(g) == IF g # NoGroup /\ process[g] = "up"
               THEN [process EXCEPT ![g] = "stopping"] ELSE process

\* The process has ended, in its own time or by SIGKILL, and the finally of
\* stop() forgets the registrations, the keys of the whole Project and the group.
Ended(g) ==
    /\ process[g] \in {"stopping", "deaf"}
    /\ process' = [process EXCEPT ![g] = "ended"]
    /\ reg' = [reg EXCEPT ![g] = {}]
    /\ fiber' = [fiber EXCEPT ![g] = [w \in Workflow |-> Idle]]
    /\ key' = [w \in Workflow |-> NoKey]
    /\ current' = IF current = g THEN NoGroup ELSE current
    /\ place' = IF place = g THEN NoGroup ELSE place
    /\ UNCHANGED <<storeVars, call>>

\* The channel breaks: the reader of the Daemon fails.
GroupLost(g) ==
    /\ process[g] = "up" /\ process' = [process EXCEPT ![g] = "lost"]
    /\ UNCHANGED <<storeVars, reg, fiber, mapVars, call>>

\* The registrations of that moment are what the recovery will start again.
Recover(c, g) ==
    /\ process[g] = "lost" /\ call[c].at = "idle"
    /\ process' = [process EXCEPT ![g] = "stopping"]
    /\ Call(c, [NoCall EXCEPT !.at = "lost", !.op = "ensure", !.todo = reg[g], !.old = g])
    /\ UNCHANGED <<storeVars, reg, fiber, mapVars>>

\* The recovery has waited for the end, the reconciliation and its delay.
RecoveryWaits(c) ==
    /\ call[c].at = "lost" /\ process[call[c].old] = "ended"
    /\ Call(c, IF call[c].todo = {} THEN NoCall
               ELSE [call[c] EXCEPT !.at = "pick", !.old = NoGroup])
    /\ UNCHANGED <<storeVars, groupVars, mapVars>>

-----------------------------------------------------------------------------
(* Calls begin.                                                            *)

Begin(c, op, todo) ==
    /\ call[c].at = "idle"
    /\ Call(c, [NoCall EXCEPT !.at = "pick", !.op = op, !.todo = todo])

StartWorkflow(c, w) ==
    /\ active' = active \cup {w}
    /\ Begin(c, "ensure", {w})
    /\ UNCHANGED <<delivery, queued, started, acked, groupVars, mapVars>>

RestoreProject(c) ==
    /\ active # {} /\ Begin(c, "ensure", active)
    /\ UNCHANGED <<storeVars, groupVars, mapVars>>

StopWorkflow(c, w) ==
    /\ active' = active \ {w}
    /\ Begin(c, "stop", {w})
    /\ UNCHANGED <<delivery, queued, started, acked, groupVars, mapVars>>

StopProject(c) ==
    /\ active # {} /\ Begin(c, "stop", active)
    /\ UNCHANGED <<storeVars, groupVars, mapVars>>

\* The loop's next Workflow, or its end.
Done(c, w) == IF call[c].todo \subseteq {w} THEN NoCall
              ELSE [NoCall EXCEPT !.at = "pick", !.op = call[c].op, !.todo = call[c].todo \ {w}]

-----------------------------------------------------------------------------
(* ensure.                                                                 *)

\* The key is looked up; then the recovery row and the Revision are read.
Pick(c) ==
    /\ call[c].at = "pick" /\ call[c].op = "ensure"
    /\ \E w \in call[c].todo :
         Call(c, IF key[w] = NoKey THEN [call[c] EXCEPT !.at = "group", !.w = w] ELSE Done(c, w))
    /\ UNCHANGED <<storeVars, groupVars, mapVars>>

\* The group the Project has is used; without one, whatever runner has the
\* Project's place is stopped first.
ReadGroup(c) ==
    /\ call[c].at = "group"
    /\ IF current # NoGroup
       THEN Call(c, [call[c] EXCEPT !.at = "add", !.group = current]) /\ UNCHANGED process
       ELSE /\ Call(c, [call[c] EXCEPT !.at = "spawn", !.old = place])
            /\ process' = Stopping(place)
    /\ UNCHANGED <<storeVars, reg, fiber, mapVars>>

Gone(g) == g # NoGroup => process[g] = "ended"

SpawnGroup(c, g) ==
    /\ call[c].at = "spawn" /\ Gone(call[c].old) /\ process[g] = "none"
    /\ process' = [process EXCEPT ![g] = "up"]
    /\ Call(c, [call[c] EXCEPT !.at = "publish", !.group = g, !.old = NoGroup, !.made = TRUE])
    /\ UNCHANGED <<storeVars, reg, fiber, mapVars>>

\* The group is published, and attach() reads the place; a runner it finds there
\* is stopped before the place is taken.
Publish(c) ==
    /\ call[c].at = "publish"
    /\ current' = call[c].group
    /\ IF place \in {NoGroup, call[c].group}
       THEN place' = call[c].group /\ Move(c, "add") /\ UNCHANGED process
       ELSE /\ Call(c, [call[c] EXCEPT !.at = "attach", !.old = place])
            /\ process' = Stopping(place) /\ UNCHANGED place
    /\ UNCHANGED <<storeVars, reg, fiber, key>>

\* Nothing looks at the place again after the wait.
Attach(c) ==
    /\ call[c].at = "attach" /\ Gone(call[c].old)
    /\ place' = call[c].group
    /\ Call(c, [call[c] EXCEPT !.at = "add", !.old = NoGroup])
    /\ UNCHANGED <<storeVars, groupVars, current, key>>

SetKey(c) == key' = [key EXCEPT ![call[c].w] = [group |-> call[c].group, by |-> c]]

Add(c) ==
    /\ call[c].at = "add"
    /\ IF call[c].w \in reg[call[c].group]
       THEN SetKey(c) /\ Call(c, Done(c, call[c].w))
       ELSE Move(c, "register") /\ UNCHANGED key
    /\ UNCHANGED <<storeVars, groupVars, current, place>>

Register(c) ==
    /\ call[c].at = "register" /\ process[call[c].group] = "up"
    /\ reg' = [reg EXCEPT ![call[c].group] = @ \cup {call[c].w}]
    /\ Move(c, "start")
    /\ UNCHANGED <<storeVars, process, fiber, mapVars>>

\* A runner that polls for the Workflow already throws, and is lost.
StartTrigger(c) ==
    LET g == call[c].group  w == call[c].w
    IN /\ call[c].at = "start" /\ process[g] = "up"
       /\ IF fiber[g][w].at = "none"
          THEN /\ fiber' = [fiber EXCEPT ![g][w] = Fiber("polling", NoEvent)]
               /\ SetKey(c) /\ Call(c, Done(c, call[c].w)) /\ UNCHANGED process
          ELSE process' = [process EXCEPT ![g] = "lost"] /\ UNCHANGED <<fiber, key, call>>
       /\ UNCHANGED <<storeVars, reg, current, place>>

\* A command fails; a group the call has made is stopped.
AddFails(c) ==
    /\ call[c].at \in {"register", "start"} /\ process[call[c].group] # "up"
    /\ Call(c, Done(c, call[c].w))
    /\ process' = IF call[c].made THEN Stopping(call[c].group) ELSE process
    /\ UNCHANGED <<storeVars, reg, fiber, mapVars>>

-----------------------------------------------------------------------------
(* stopPoller: the handle's remove(), then its own key.                    *)

PickPoller(c) ==
    /\ call[c].at = "pick" /\ call[c].op = "stop"
    /\ \E w \in call[c].todo :
         Call(c, IF key[w] = NoKey THEN Done(c, w)
                 ELSE [call[c] EXCEPT !.at = "remove", !.w = w, !.group = key[w].group, !.key = key[w]])
    /\ UNCHANGED <<storeVars, groupVars, mapVars>>

\* StopTrigger and DisposeRevision; a group without the registration is left.
Remove(c) ==
    LET g == call[c].group  w == call[c].w
    IN /\ call[c].at = "remove"
       /\ IF w \notin reg[g] \/ process[g] # "up"
          THEN Move(c, IF w \in reg[g] THEN "failed" ELSE "forget") /\ UNCHANGED fiber
          ELSE Move(c, "release") /\ fiber' = [fiber EXCEPT ![g][w] = Idle]
       /\ UNCHANGED <<storeVars, process, reg, mapVars>>

\* The reader is released, the registration ends, and an empty group stops.
Released(c) ==
    LET g == call[c].group
    IN /\ call[c].at = "release"
       /\ reg' = [reg EXCEPT ![g] = @ \ {call[c].w}]
       /\ process' = IF reg[g] \subseteq {call[c].w} THEN Stopping(g) ELSE process
       /\ Call(c, [call[c] EXCEPT !.at = "forget",
                                  !.old = IF reg[g] \subseteq {call[c].w} THEN g ELSE NoGroup])
       /\ UNCHANGED <<storeVars, fiber, mapVars>>

Forget(c) ==
    /\ call[c].at = "forget" /\ Gone(call[c].old)
    /\ key' = IF key[call[c].w] = call[c].key
              THEN [key EXCEPT ![call[c].w] = NoKey] ELSE key
    /\ Call(c, Done(c, call[c].w))
    /\ UNCHANGED <<storeVars, groupVars, current, place>>

\* A failed command of a Stop leaves the key to the end of the group.
RemoveFails(c) ==
    /\ call[c].at = "failed" /\ Call(c, NoCall)
    /\ UNCHANGED <<storeVars, groupVars, mapVars>>

-----------------------------------------------------------------------------
(* An event.                                                               *)

PollerMoves(g, w, f) == fiber' = [fiber EXCEPT ![g][w] = f]

\* The source delivers an event until it is acknowledged.
Offer(g, w, e) ==
    /\ process[g] \in {"up", "stopping"} /\ fiber[g][w].at = "polling"
    /\ Source[e] = w /\ e \notin acked
    /\ PollerMoves(g, w, Fiber("offered", e))
    /\ UNCHANGED <<storeVars, process, reg, mapVars, call>>

\* Its payload or its key is not what the Revision of the poller expects.
Reject(g, w) ==
    LET e == fiber[g][w].event
    IN /\ Reads(g) /\ fiber[g][w].at = "offered" /\ w \in reg[g]
       /\ delivery' = IF delivery[e] = "none" THEN [delivery EXCEPT ![e] = "rejected"] ELSE delivery
       /\ PollerMoves(g, w, Fiber("polling", NoEvent))
       /\ UNCHANGED <<active, queued, started, acked, process, reg, mapVars, call>>

\* A faulty variant: an event that was rejected is admitted when it comes again.
FaultyAdmitted(e) ==
    /\ delivery[e] # "acknowledged" /\ Source[e] \in active /\ Cardinality(queued) < QueueLimit
    /\ delivery' = [delivery EXCEPT ![e] = "acknowledged"]
    /\ queued' = queued \cup {e}

\* admit(): a new event of an active Workflow becomes a queued Run.
Admitted(e) ==
    /\ delivery[e] = "none" /\ Source[e] \in active /\ Cardinality(queued) < QueueLimit
    /\ delivery' = [delivery EXCEPT ![e] = "acknowledged"]
    /\ queued' = queued \cup {e}

Duplicate(e) == delivery[e] = "acknowledged" /\ UNCHANGED <<delivery, queued>>

\* The reply may be lost with the runner: then the poller has learnt nothing.
Admit(g, w) ==
    LET e == fiber[g][w].event
    IN /\ Reads(g) /\ fiber[g][w].at = "offered" /\ w \in reg[g]
       /\ Admitted(e) \/ Duplicate(e)
       /\ \/ PollerMoves(g, w, Fiber("admitted", e))
          \/ PollerMoves(g, w, Fiber("faulted", NoEvent)) /\ process[g] = "stopping"
       /\ UNCHANGED <<active, started, acked, process, reg, mapVars, call>>

\* A faulty variant: a refused event is acknowledged too.
FaultyRefuse(g, w) ==
    /\ Reads(g) /\ fiber[g][w].at = "offered" /\ w \in reg[g]
    /\ LET e == fiber[g][w].event
       IN delivery[e] = "rejected"
          \/ (delivery[e] = "none" /\ (w \notin active \/ Cardinality(queued) >= QueueLimit))
    /\ PollerMoves(g, w, Fiber("admitted", fiber[g][w].event))
    /\ UNCHANGED <<storeVars, process, reg, mapVars, call>>

\* A refusal, or a full queue through all the retries, ends the poller for good.
Refuse(g, w) ==
    /\ Reads(g) /\ fiber[g][w].at = "offered" /\ w \in reg[g]
    /\ LET e == fiber[g][w].event
       IN delivery[e] = "rejected"
          \/ (delivery[e] = "none" /\ (w \notin active \/ Cardinality(queued) >= QueueLimit))
    /\ PollerMoves(g, w, Fiber("faulted", NoEvent))
    /\ UNCHANGED <<storeVars, process, reg, mapVars, call>>

\* An operation of a poller the Daemon has no registration of: the reader throws,
\* and reads nothing more of a group that stops anyway.
Escaped(g, w) ==
    /\ Reads(g) /\ fiber[g][w].at = "offered" /\ w \notin reg[g]
    /\ process' = [process EXCEPT ![g] = IF @ = "up" THEN "lost" ELSE "deaf"]
    /\ UNCHANGED <<storeVars, reg, fiber, mapVars, call>>

\* acknowledgeTriggerEvent: the source takes the acknowledgement, and may say so.
Acknowledge(g, w) ==
    LET e == fiber[g][w].event
    IN /\ process[g] # "ended" /\ fiber[g][w].at = "admitted"
       /\ acked' = acked \cup {e}
       /\ \/ PollerMoves(g, w, Fiber("polling", NoEvent))
          \/ UNCHANGED fiber
       /\ UNCHANGED <<active, delivery, queued, started, process, reg, mapVars, call>>

\* Every retry has failed: progress is 'failed' and the poller ends.
AcknowledgeFails(g, w) ==
    /\ Reads(g) /\ fiber[g][w].at = "admitted"
    /\ PollerMoves(g, w, Fiber("faulted", NoEvent))
    /\ UNCHANGED <<storeVars, process, reg, mapVars, call>>

\* The stream ends by itself, or a fault of the poller: the runner stays.
PollerEnds(g, w) ==
    /\ process[g] = "up" /\ fiber[g][w].at \in {"polling", "faulted"}
    /\ PollerMoves(g, w, Idle)
    /\ UNCHANGED <<storeVars, process, reg, mapVars, call>>

Dispatch(e) ==
    /\ e \in queued /\ queued' = queued \ {e} /\ started' = started \cup {e}
    /\ UNCHANGED <<active, delivery, acked, groupVars, mapVars, call>>

-----------------------------------------------------------------------------
Calls == \E c \in Caller :
    \/ RestoreProject(c) \/ StopProject(c) \/ RecoveryWaits(c)
    \/ \E w \in Workflow : StartWorkflow(c, w) \/ StopWorkflow(c, w)
    \/ \E g \in Group : Recover(c, g) \/ SpawnGroup(c, g)
    \/ Pick(c) \/ PickPoller(c) \/ ReadGroup(c) \/ Publish(c) \/ Attach(c) \/ Add(c)
    \/ Register(c) \/ StartTrigger(c) \/ AddFails(c)
    \/ Remove(c) \/ Released(c) \/ Forget(c) \/ RemoveFails(c)

Polling == \E g \in Group, w \in Workflow :
    \/ \E e \in Event : Offer(g, w, e)
    \/ Reject(g, w) \/ Admit(g, w) \/ Refuse(g, w) \/ Escaped(g, w)
    \/ Acknowledge(g, w) \/ AcknowledgeFails(g, w) \/ PollerEnds(g, w)

TriggerNext == Calls \/ Polling \/ (\E g \in Group : Ended(g) \/ GroupLost(g)) \/ (\E e \in Event : Dispatch(e))

TriggerSpec == TriggerInit /\ [][TriggerNext]_vars

-----------------------------------------------------------------------------
TriggerTypeOK ==
    /\ active \subseteq Workflow
    /\ delivery \in [Event -> {"none", "acknowledged", "rejected"}]
    /\ queued \subseteq Event /\ started \subseteq Event /\ acked \subseteq Event
    /\ process \in [Group -> {"none", "up", "lost", "stopping", "deaf", "ended"}]
    /\ reg \in [Group -> SUBSET Workflow]
    /\ fiber \in [Group -> [Workflow ->
         [at : {"none", "polling", "offered", "admitted", "faulted"}, event : Event \cup {NoEvent}]]]
    /\ current \in Group \cup {NoGroup} /\ place \in Group \cup {NoGroup}
    /\ key \in [Workflow -> [group : Group \cup {NoGroup}, by : Caller \cup {NoCaller}]]

(* A source is told an event is admitted only when its Run is durable,     *)
(* whatever runner tells it and however often the event was delivered,     *)
(* rejected or refused before (processEvent and admit).                    *)
AcknowledgedWasAdmitted == \A e \in acked : e \in queued \cup started

(* What was decided of an event stays decided: an event a Revision has     *)
(* rejected never becomes a Run, and an admitted one has its one Run, which *)
(* a second delivery neither queues again nor takes back.                  *)
DecisionsAreFinal ==
    [][\A e \in Event :
         /\ delivery[e] # "none" => delivery'[e] = delivery[e]
         /\ e \in queued \cup started => e \in queued' \cup started'
         /\ e \in started => e \notin queued'
         /\ delivery[e] = "rejected" => e \notin queued']_vars
=============================================================================
