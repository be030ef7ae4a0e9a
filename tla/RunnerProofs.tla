---------------------------- MODULE RunnerProofs ----------------------------
(***************************************************************************)
(* Proofs about the runners of a Project: what their pollers tell of an    *)
(* event (TriggerSupervisor), for any number of Workflows, events, runners *)
(* and calls; and what the loss of a runner leaves of its sandbox and      *)
(* worktree (ProjectRecovery over ResourceLease), for any number of        *)
(* runners, retries, delays, cycles and crashes.                           *)
(***************************************************************************)
EXTENDS TriggerSupervisor, ProjectRecovery, SequenceTheorems, TLAPS

-----------------------------------------------------------------------------
(* Triggers: what a source is told was done, and what was decided of an    *)
(* event stays.                                                            *)

(* The durable part: an event is acknowledged when it has its one Run.     *)
DeliveriesHaveRuns ==
    /\ delivery \in [Event -> {"none", "acknowledged", "rejected"}]
    /\ queued \subseteq Event /\ started \subseteq Event
    /\ queued \cap started = {}
    /\ \A e \in Event : delivery[e] = "acknowledged" <=> e \in queued \cup started

(* What a poller has of an event: one that its source may deliver, and,    *)
(* once the reply came, one that is admitted.                              *)
Polls(f) ==
    /\ f.at \in {"offered", "admitted"} => f.event \in Event
    /\ f.at = "admitted" => f.event \in queued \cup started

PollersKnow ==
    /\ fiber = [g \in Group |-> fiber[g]]
    /\ \A g \in Group : fiber[g] = [w \in Workflow |-> fiber[g][w]]
    /\ \A g \in Group, w \in Workflow : Polls(fiber[g][w])

TriggerInv == DeliveriesHaveRuns /\ PollersKnow /\ AcknowledgedWasAdmitted

(* One step of DecisionsAreFinal.                                          *)
Final == \A e \in Event :
    /\ delivery[e] # "none" => delivery'[e] = delivery[e]
    /\ e \in queued \cup started => e \in queued' \cup started'
    /\ e \in started => e \notin queued'
    /\ delivery[e] = "rejected" => e \notin queued'

USE TriggerAssumption

LEMMA TriggerInvInit == TriggerInit => TriggerInv
<1> SUFFICES ASSUME TriggerInit
             PROVE  TriggerInv
    OBVIOUS
<1>1. DeliveriesHaveRuns /\ AcknowledgedWasAdmitted
    BY DEF TriggerInit, DeliveriesHaveRuns, AcknowledgedWasAdmitted
<1>2. PollersKnow
    BY DEF TriggerInit, PollersKnow, Polls, Idle
<1> QED
    BY <1>1, <1>2 DEF TriggerInv

-----------------------------------------------------------------------------
(* What a change of one poller keeps.                                      *)

LEMMA OnePollerMoves ==
    ASSUME PollersKnow, NEW g \in Group, NEW w \in Workflow, NEW f, PollerMoves(g, w, f),
           queued \cup started \subseteq queued' \cup started',
           Polls(f)'
    PROVE  PollersKnow'
<1>1. /\ fiber' = [h \in Group |-> fiber'[h]]
      /\ fiber'[g] = [fiber[g] EXCEPT ![w] = f]
      /\ \A h \in Group : h # g => fiber'[h] = fiber[h]
    BY DEF PollersKnow, PollerMoves
<1>2. /\ fiber'[g] = [v \in Workflow |-> fiber'[g][v]] /\ fiber'[g][w] = f
      /\ \A v \in Workflow : v # w => fiber'[g][v] = fiber[g][v]
    BY <1>1 DEF PollersKnow
<1>3. \A h \in Group : fiber'[h] = [v \in Workflow |-> fiber'[h][v]]
    BY <1>1, <1>2 DEF PollersKnow
<1>4. ASSUME NEW h \in Group, NEW v \in Workflow
      PROVE  Polls(fiber[h][v])' 
  <2>1. CASE h = g /\ v = w
      BY <1>2, <2>1 DEF Polls
  <2>2. CASE ~(h = g /\ v = w)
    <3>1. fiber'[h][v] = fiber[h][v]
        BY <1>1, <1>2, <2>2
    <3> QED
        BY <3>1 DEF PollersKnow, Polls
  <2> QED
      BY <2>1, <2>2
<1> QED
    BY <1>1, <1>3, <1>4 DEF PollersKnow

LEMMA QuietTriggersKeep ==
    ASSUME TriggerInv, UNCHANGED <<delivery, queued, started, acked>>, UNCHANGED fiber
    PROVE  TriggerInv' /\ Final
<1>1. DeliveriesHaveRuns' /\ AcknowledgedWasAdmitted' /\ Final
    BY DEF TriggerInv, DeliveriesHaveRuns, AcknowledgedWasAdmitted, Final
<1>2. PollersKnow'
    BY DEF TriggerInv, PollersKnow, Polls
<1> QED
    BY <1>1, <1>2 DEF TriggerInv

-----------------------------------------------------------------------------
(* The calls and the runners.                                              *)

LEMMA CallsKeep ==
    ASSUME TriggerInv, Calls
    PROVE  TriggerInv' /\ Final
<1> PICK c \in Caller :
       \/ RestoreProject(c) \/ StopProject(c) \/ RecoveryWaits(c)
       \/ \E w \in Workflow : StartWorkflow(c, w) \/ StopWorkflow(c, w)
       \/ \E g \in Group : Recover(c, g) \/ SpawnGroup(c, g)
       \/ Pick(c) \/ PickPoller(c) \/ ReadGroup(c) \/ Publish(c) \/ Attach(c) \/ Add(c)
       \/ Register(c) \/ StartTrigger(c) \/ AddFails(c)
       \/ Remove(c) \/ Released(c) \/ Forget(c) \/ RemoveFails(c)
    BY DEF Calls
<1>1. UNCHANGED <<delivery, queued, started, acked>>
    BY DEF RestoreProject, StopProject, RecoveryWaits, StartWorkflow, StopWorkflow, Recover,
       SpawnGroup, Pick, PickPoller, ReadGroup, Publish, Attach, Add, Register, StartTrigger,
       AddFails, Remove, Released, Forget, RemoveFails, storeVars
<1>2. PollersKnow'
  <2>1. \/ UNCHANGED fiber
        \/ fiber' = [fiber EXCEPT ![call[c].group][call[c].w] = Fiber("polling", NoEvent)]
        \/ fiber' = [fiber EXCEPT ![call[c].group][call[c].w] = Idle]
      BY DEF RestoreProject, StopProject, RecoveryWaits, StartWorkflow, StopWorkflow, Recover,
         SpawnGroup, Pick, PickPoller, ReadGroup, Publish, Attach, Add, Register, StartTrigger, AddFails,
         Remove, Released, Forget, RemoveFails, groupVars
  <2>2. CASE UNCHANGED fiber
      BY <1>1, <2>2 DEF TriggerInv, PollersKnow, Polls
  <2>3. ASSUME NEW f, Polls(f)', fiber' = [fiber EXCEPT ![call[c].group][call[c].w] = f]
        PROVE  PollersKnow'
    <3>1. CASE call[c].group \in Group /\ call[c].w \in Workflow
        BY <1>1, <2>3, <3>1, OnePollerMoves DEF TriggerInv, PollerMoves
    <3>2. CASE call[c].group \in Group /\ call[c].w \notin Workflow
      <4>1. fiber' = fiber
        <5>1. [fiber[call[c].group] EXCEPT ![call[c].w] = f] = fiber[call[c].group]
            BY <3>2 DEF TriggerInv, PollersKnow
        <5> QED
            BY <2>3, <3>2, <5>1 DEF TriggerInv, PollersKnow
      <4> QED
          BY <1>1, <4>1 DEF TriggerInv, PollersKnow, Polls
    <3>3. CASE call[c].group \notin Group
      <4>1. fiber' = fiber
          BY <2>3, <3>3 DEF TriggerInv, PollersKnow
      <4> QED
          BY <1>1, <4>1 DEF TriggerInv, PollersKnow, Polls
    <3> QED
        BY <3>1, <3>2, <3>3
  <2>4. Polls(Fiber("polling", NoEvent))' /\ Polls(Idle)'
      BY DEF Polls, Fiber, Idle
  <2> QED
      BY <2>1, <2>2, <2>3, <2>4
<1>3. DeliveriesHaveRuns' /\ AcknowledgedWasAdmitted' /\ Final
    BY <1>1 DEF TriggerInv, DeliveriesHaveRuns, AcknowledgedWasAdmitted, Final
<1> QED
    BY <1>2, <1>3 DEF TriggerInv

LEMMA RunnersKeep ==
    ASSUME TriggerInv, NEW g \in Group, Ended(g) \/ GroupLost(g)
    PROVE  TriggerInv' /\ Final
<1>1. UNCHANGED <<delivery, queued, started, acked>>
    BY DEF Ended, GroupLost, storeVars
<1>2. PollersKnow'
  <2>1. CASE UNCHANGED fiber
      BY <1>1, <2>1 DEF TriggerInv, PollersKnow, Polls
  <2>2. CASE fiber' = [fiber EXCEPT ![g] = [w \in Workflow |-> Idle]]
    <3>1. /\ fiber' = [h \in Group |-> fiber'[h]]
          /\ fiber'[g] = [w \in Workflow |-> Idle]
          /\ \A h \in Group : h # g => fiber'[h] = fiber[h]
        BY <2>2 DEF TriggerInv, PollersKnow
    <3>2. \A h \in Group : fiber'[h] = [w \in Workflow |-> fiber'[h][w]]
        BY <3>1 DEF TriggerInv, PollersKnow
    <3>3. \A h \in Group, w \in Workflow : fiber'[h][w] = Idle \/ fiber'[h][w] = fiber[h][w]
        BY <3>1
    <3>4. \A h \in Group, w \in Workflow : Polls(fiber[h][w])'
        BY <1>1, <3>3 DEF TriggerInv, PollersKnow, Polls, Idle
    <3> QED
        BY <3>1, <3>2, <3>4 DEF PollersKnow
  <2> QED
      BY <2>1, <2>2 DEF Ended, GroupLost
<1>3. DeliveriesHaveRuns' /\ AcknowledgedWasAdmitted' /\ Final
    BY <1>1 DEF TriggerInv, DeliveriesHaveRuns, AcknowledgedWasAdmitted, Final
<1> QED
    BY <1>2, <1>3 DEF TriggerInv

-----------------------------------------------------------------------------
(* An event.                                                               *)

(* A step of a poller that decides nothing.                                *)
LEMMA UndecidedKeeps ==
    ASSUME TriggerInv, NEW g \in Group, NEW w \in Workflow,
           \/ \E e \in Event : Offer(g, w, e)
           \/ Refuse(g, w) \/ AcknowledgeFails(g, w) \/ PollerEnds(g, w)
    PROVE  TriggerInv' /\ Final
<1>1. UNCHANGED <<delivery, queued, started, acked>>
    BY DEF Offer, Refuse, AcknowledgeFails, PollerEnds, storeVars
<1>2. PICK f : PollerMoves(g, w, f) /\ (f = Fiber("faulted", NoEvent) \/ f = Idle
                                       \/ \E e \in Event : f = Fiber("offered", e))
    BY DEF Offer, Refuse, AcknowledgeFails, PollerEnds
<1>3. Polls(f)'
    BY <1>2 DEF Polls, Fiber, Idle
<1>4. PollersKnow'
    BY <1>1, <1>2, <1>3, OnePollerMoves DEF TriggerInv
<1>5. DeliveriesHaveRuns' /\ AcknowledgedWasAdmitted' /\ Final
    BY <1>1 DEF TriggerInv, DeliveriesHaveRuns, AcknowledgedWasAdmitted, Final
<1> QED
    BY <1>4, <1>5 DEF TriggerInv

LEMMA RejectKeeps ==
    ASSUME TriggerInv, NEW g \in Group, NEW w \in Workflow, Reject(g, w)
    PROVE  TriggerInv' /\ Final
<1> DEFINE e == fiber[g][w].event
<1>1. /\ delivery' = IF delivery[e] = "none" THEN [delivery EXCEPT ![e] = "rejected"] ELSE delivery
      /\ PollerMoves(g, w, Fiber("polling", NoEvent)) /\ UNCHANGED <<queued, started, acked>>
      /\ fiber[g][w].at = "offered"
    BY DEF Reject
<1>2. e \in Event
    BY <1>1 DEF TriggerInv, PollersKnow, Polls
<1>3. Polls(Fiber("polling", NoEvent))'
    BY DEF Polls, Fiber
<1>4. PollersKnow'
    BY <1>1, <1>3, OnePollerMoves DEF TriggerInv
<1>5. DeliveriesHaveRuns' /\ AcknowledgedWasAdmitted' /\ Final
    BY <1>1, <1>2 DEF TriggerInv, DeliveriesHaveRuns, AcknowledgedWasAdmitted, Final
<1> QED
    BY <1>4, <1>5 DEF TriggerInv

(* An event becomes a Run once, whatever runner it comes from.             *)
LEMMA AdmitKeeps ==
    ASSUME TriggerInv, NEW g \in Group, NEW w \in Workflow, Admit(g, w)
    PROVE  TriggerInv' /\ Final
<1> DEFINE e == fiber[g][w].event
<1>1. /\ Admitted(e) \/ Duplicate(e)
      /\ UNCHANGED <<started, acked>> /\ fiber[g][w].at = "offered"
    BY DEF Admit
<1>2. e \in Event
    BY <1>1 DEF TriggerInv, PollersKnow, Polls
<1>3. queued \subseteq queued' /\ e \in queued' \cup started'
    BY <1>1, <1>2 DEF Admitted, Duplicate, TriggerInv, DeliveriesHaveRuns
<1>4. PICK f : PollerMoves(g, w, f) /\ (f = Fiber("faulted", NoEvent) \/ f = Fiber("admitted", e))
    BY DEF Admit
<1>5. Polls(f)'
    BY <1>2, <1>3, <1>4 DEF Polls, Fiber
<1>6. PollersKnow'
    BY <1>1, <1>3, <1>4, <1>5, OnePollerMoves DEF TriggerInv
<1>7. DeliveriesHaveRuns' /\ Final
  <2>1. CASE Admitted(e)
      BY <1>1, <1>2, <2>1 DEF TriggerInv, DeliveriesHaveRuns, Admitted, Final
  <2>2. CASE Duplicate(e)
      BY <1>1, <2>2 DEF TriggerInv, DeliveriesHaveRuns, Duplicate, Final
  <2> QED
      BY <1>1, <2>1, <2>2
<1>8. AcknowledgedWasAdmitted'
    BY <1>1, <1>3 DEF TriggerInv, AcknowledgedWasAdmitted
<1> QED
    BY <1>6, <1>7, <1>8 DEF TriggerInv

LEMMA AcknowledgeKeeps ==
    ASSUME TriggerInv, NEW g \in Group, NEW w \in Workflow, Acknowledge(g, w)
    PROVE  TriggerInv' /\ Final
<1> DEFINE e == fiber[g][w].event
<1>1. /\ UNCHANGED <<delivery, queued, started>> /\ acked' = acked \cup {e}
      /\ fiber[g][w].at = "admitted"
      /\ PollerMoves(g, w, Fiber("polling", NoEvent)) \/ UNCHANGED fiber
    BY DEF Acknowledge
<1>2. e \in queued \cup started
    BY <1>1 DEF TriggerInv, PollersKnow, Polls
<1>3. PollersKnow'
  <2>1. CASE UNCHANGED fiber
      BY <1>1, <2>1 DEF TriggerInv, PollersKnow, Polls
  <2>2. CASE PollerMoves(g, w, Fiber("polling", NoEvent))
    <3>1. Polls(Fiber("polling", NoEvent))'
        BY DEF Polls, Fiber
    <3> QED
        BY <1>1, <2>2, <3>1, OnePollerMoves DEF TriggerInv
  <2> QED
      BY <1>1, <2>1, <2>2
<1>4. DeliveriesHaveRuns' /\ AcknowledgedWasAdmitted' /\ Final
    BY <1>1, <1>2 DEF TriggerInv, DeliveriesHaveRuns, AcknowledgedWasAdmitted, Final
<1> QED
    BY <1>3, <1>4 DEF TriggerInv

LEMMA DispatchKeeps ==
    ASSUME TriggerInv, NEW e \in Event, Dispatch(e)
    PROVE  TriggerInv' /\ Final
<1>1. /\ UNCHANGED <<delivery, acked, fiber>>
      /\ e \in queued /\ queued' = queued \ {e} /\ started' = started \cup {e}
    BY DEF Dispatch, groupVars
<1>2. queued' \cup started' = queued \cup started
    BY <1>1
<1>3. PollersKnow'
    BY <1>1, <1>2 DEF TriggerInv, PollersKnow, Polls
<1>4. DeliveriesHaveRuns' /\ AcknowledgedWasAdmitted' /\ Final
    BY <1>1, <1>2 DEF TriggerInv, DeliveriesHaveRuns, AcknowledgedWasAdmitted, Final
<1> QED
    BY <1>3, <1>4 DEF TriggerInv

-----------------------------------------------------------------------------
(* The invariant of every step, and what a step may not take back.         *)
LEMMA TriggerInvNext == TriggerInv /\ [TriggerNext]_vars => TriggerInv' /\ Final
<1> SUFFICES ASSUME TriggerInv, [TriggerNext]_vars
             PROVE  TriggerInv' /\ Final
    OBVIOUS
<1>1. CASE Calls
    BY <1>1, CallsKeep
<1>2. CASE Polling
  <2>1. PICK g \in Group, w \in Workflow :
           \/ \E e \in Event : Offer(g, w, e)
           \/ Reject(g, w) \/ Admit(g, w) \/ Refuse(g, w) \/ Escaped(g, w)
           \/ Acknowledge(g, w) \/ AcknowledgeFails(g, w) \/ PollerEnds(g, w)
      BY <1>2 DEF Polling
  <2>2. CASE Escaped(g, w)
      BY <2>2, QuietTriggersKeep DEF Escaped, storeVars
  <2> QED
      BY <2>1, <2>2, UndecidedKeeps, RejectKeeps, AdmitKeeps, AcknowledgeKeeps
<1>3. CASE (\E g \in Group : Ended(g) \/ GroupLost(g)) \/ (\E e \in Event : Dispatch(e))
    BY <1>3, RunnersKeep, DispatchKeeps
<1>4. CASE UNCHANGED vars
    BY <1>4, QuietTriggersKeep DEF vars, storeVars, groupVars
<1> QED
    BY <1>1, <1>2, <1>3, <1>4 DEF TriggerNext

LEMMA TriggersStaySound == TriggerSpec => []TriggerInv
<1>1. TriggerInv /\ [TriggerNext]_vars => TriggerInv'
    BY TriggerInvNext
<1> QED
    BY <1>1, TriggerInvInit, PTL DEF TriggerSpec

(* However many runners deliver an event and however often, its source is  *)
(* told that it is admitted only when its Run is durable.                  *)
THEOREM AcknowledgementsAreTrue == TriggerSpec => []AcknowledgedWasAdmitted
<1>1. TriggerInv => AcknowledgedWasAdmitted
    BY DEF TriggerInv
<1> QED
    BY <1>1, TriggersStaySound, PTL

(* What was decided of an event stays decided: it is rejected for good, or *)
(* has one Run for good.                                                   *)
THEOREM DecisionsStay == TriggerSpec => DecisionsAreFinal
<1>1. TriggerInv /\ [TriggerNext]_vars => [Final]_vars
    BY TriggerInvNext
<1>2. TriggerSpec => [][Final]_vars
    BY <1>1, TriggersStaySound, PTL DEF TriggerSpec
<1> QED
    BY <1>2 DEF DecisionsAreFinal, Final

-----------------------------------------------------------------------------
(* Recovery.                                                               *)

HIDE TriggerAssumption
USE RunnerAssumption, RecoveryAssumption

-----------------------------------------------------------------------------
(* What a runner still has to do, as a set of steps.                       *)

StepsOf(s) == {s[i] : i \in 1 .. Len(s)}

LEMMA FirstAndRest ==
    ASSUME NEW S, NEW s \in Seq(S), s # <<>>
    PROVE  /\ Head(s) \in S /\ Tail(s) \in Seq(S)
           /\ Len(s) \in Nat \ {0} /\ Head(s) = s[1]
           /\ Len(Tail(s)) = Len(s) - 1
           /\ \A i \in 1 .. Len(s) - 1 : Tail(s)[i] = s[i + 1]
           /\ Head(s) \in StepsOf(s)
           /\ StepsOf(Tail(s)) \subseteq StepsOf(s)
           /\ \A e \in StepsOf(s) : e = Head(s) \/ e \in StepsOf(Tail(s))
<1>1. /\ Head(s) \in S /\ Tail(s) \in Seq(S)
      /\ Len(s) \in Nat \ {0} /\ Head(s) = s[1]
      /\ Len(Tail(s)) = Len(s) - 1
      /\ \A i \in 1 .. Len(s) - 1 : Tail(s)[i] = s[i + 1]
    OBVIOUS
<1>2. Head(s) \in StepsOf(s)
    BY <1>1 DEF StepsOf
<1>3. StepsOf(Tail(s)) \subseteq StepsOf(s)
  <2> SUFFICES ASSUME NEW i \in 1 .. Len(Tail(s))
               PROVE  Tail(s)[i] \in StepsOf(s)
      BY DEF StepsOf
  <2> QED
      BY <1>1, i + 1 \in 1 .. Len(s) DEF StepsOf
<1>4. ASSUME NEW e \in StepsOf(s), e # Head(s)
      PROVE  e \in StepsOf(Tail(s))
  <2>1. PICK i \in 1 .. Len(s) : e = s[i]
      BY DEF StepsOf
  <2>2. i # 1 /\ i - 1 \in 1 .. Len(s) - 1 /\ Tail(s)[i - 1] = s[i]
      BY <1>1, <1>4, <2>1
  <2> QED
      BY <1>1, <2>1, <2>2 DEF StepsOf
<1> QED
    BY <1>1, <1>2, <1>3, <1>4

LEMMA OneMore ==
    ASSUME NEW S, NEW s \in Seq(S), NEW e \in S
    PROVE  /\ Append(s, e) \in Seq(S) /\ Append(s, e) # <<>>
           /\ Append(s, e)[Len(Append(s, e))] = e
           /\ \A f \in StepsOf(Append(s, e)) : f = e \/ f \in StepsOf(s)
<1>1. /\ Append(s, e) \in Seq(S) /\ Len(Append(s, e)) = Len(s) + 1 /\ Len(s) \in Nat
      /\ Append(s, e)[Len(s) + 1] = e
      /\ \A i \in 1 .. Len(s) : Append(s, e)[i] = s[i]
    OBVIOUS
<1> QED
    BY <1>1 DEF StepsOf

LEMMA ShortPlans ==
    /\ Len(<<>>) = 0 /\ StepsOf(<<>>) = {}
    /\ \A a : Len(<<a>>) = 1 /\ StepsOf(<<a>>) = {a}
    /\ \A a, b : Len(<<a, b>>) = 2 /\ StepsOf(<<a, b>>) = {a, b}
    /\ \A a, b, c : Len(<<a, b, c>>) = 3 /\ StepsOf(<<a, b, c>>) = {a, b, c}
    /\ \A a, b, c, d : Len(<<a, b, c, d>>) = 4 /\ StepsOf(<<a, b, c, d>>) = {a, b, c, d}
<1>1. StepsOf(<<>>) = {}
    BY DEF StepsOf
<1>2. ASSUME NEW a PROVE StepsOf(<<a>>) = {a}
    BY DEF StepsOf
<1>3. ASSUME NEW a, NEW b PROVE StepsOf(<<a, b>>) = {a, b}
    BY DEF StepsOf
<1>4. ASSUME NEW a, NEW b, NEW c PROVE StepsOf(<<a, b, c>>) = {a, b, c}
    BY DEF StepsOf
<1>5. ASSUME NEW a, NEW b, NEW c, NEW d PROVE StepsOf(<<a, b, c, d>>) = {a, b, c, d}
    BY DEF StepsOf
<1> QED
    BY <1>1, <1>2, <1>3, <1>4, <1>5

LEMMA StepTypes ==
    /\ \A op \in Mutations, k \in Kind : Tell(op, k) \in Told /\ Tell(op, k) \in Step
    /\ \A op \in {"create", "made", "work", "ask", "look"} : Do(op) \in Step
    /\ \A op \in {"close", "closed"}, k \in {"absent", "clean", "dirty"} : Tell(op, k) \in Step
    /\ Told \subseteq Step
    /\ \A s \in Step : s.op \in Mutations => s \in Told
BY DEF Tell, Do, Step, Told, Mutations, Kind, Scoped

LEMMA TwoAndOne == \A a, b, c : <<a, b>> \o <<c>> = <<a, b, c>>
<1> SUFFICES ASSUME NEW a, NEW b, NEW c
             PROVE  <<a, b>> \o <<c>> = <<a, b, c>>
    OBVIOUS
<1> DEFINE S == {a, b, c}
<1>1. <<a, b>> \in Seq(S) /\ <<c>> \in Seq(S) /\ <<a, b, c>> \in Seq(S)
    OBVIOUS
<1>2. <<a, b>> \o <<c>> \in Seq(S) /\ Len(<<a, b>> \o <<c>>) = 3
    BY <1>1
<1>3. /\ (<<a, b>> \o <<c>>)[1] = a /\ (<<a, b>> \o <<c>>)[2] = b
      /\ (<<a, b>> \o <<c>>)[3] = c
    BY <1>1
<1>4. \A i \in 1 .. 3 : (<<a, b>> \o <<c>>)[i] = <<a, b, c>>[i]
    BY <1>3
<1> HIDE DEF S
<1> QED
    BY <1>1, <1>2, <1>4, SeqEqual

(* What the runner sets out to do, as explicit sequences.                  *)
LEMMA Plans ==
    /\ Acquire = <<Tell("begin", "sandbox"), Tell("begin", "worktree"), Do("create")>>
    /\ Release = <<Tell("intent", "sandbox"), Tell("intent", "worktree"), Do("look")>>
    /\ TellBoth("acquired") \o <<Do("work")>>
           = <<Tell("acquired", "sandbox"), Tell("acquired", "worktree"), Do("work")>>
BY TwoAndOne DEF Acquire, Release, TellBoth

LEMMA PlansAreScripts ==
    /\ Acquire \in Seq(Step) /\ Release \in Seq(Step)
    /\ TellBoth("acquired") \o <<Do("work")>> \in Seq(Step)
    /\ TellBoth("unresolved") \in Seq(Step)
    /\ \A end \in {"released", "preserved"} : Answered(end) \in Seq(Step)
    /\ \A a \in Step : <<a>> \in Seq(Step)
    /\ \A a, b \in Step : <<a, b>> \in Seq(Step)
    /\ \A a, b, c \in Step : <<a, b, c>> \in Seq(Step)
<1>1. /\ \A a \in Step : <<a>> \in Seq(Step)
      /\ \A a, b \in Step : <<a, b>> \in Seq(Step)
      /\ \A a, b, c \in Step : <<a, b, c>> \in Seq(Step)
    OBVIOUS
<1>8. \A a, b, c, d \in Step : <<a, b, c, d>> \in Seq(Step)
    OBVIOUS
<1>2. /\ \A op \in Mutations, k \in Kind : Tell(op, k) \in Step
      /\ \A op \in {"create", "made", "work", "ask", "look"} : Do(op) \in Step
    BY StepTypes
<1>3. {"begin", "acquired", "intent", "released", "preserved", "unresolved"} = Mutations
      /\ {"sandbox", "worktree", "agent"} = Kind
    BY DEF Mutations, Kind, Scoped
<1>4. Acquire \in Seq(Step) /\ Release \in Seq(Step)
      /\ TellBoth("acquired") \o <<Do("work")>> \in Seq(Step)
    BY <1>1, <1>2, <1>3, Plans
<1>5. TellBoth("unresolved") \in Seq(Step)
    BY <1>1, <1>2, <1>3 DEF TellBoth
<1>6. \A end \in {"released", "preserved"} : Answered(end) \in Seq(Step)
    BY <1>8, <1>2, <1>3 DEF Answered
<1> QED
    BY <1>1, <1>4, <1>5, <1>6

-----------------------------------------------------------------------------
(* The inductive invariant.                                                *)

(* Nothing is left of an instance that was never started.                  *)
Untouched(x) ==
    /\ script[x] = <<>> /\ frames[x] = <<>> /\ tries[x] = 0
    /\ x \notin replied /\ x \notin reading /\ x \notin alive
    /\ x \notin box /\ tree[x] = "absent"
    /\ \A k \in Kind : lease[<<x, k>>] = "none" /\ registry[<<x, k>>] = "none"

(* A runner that has ended does nothing more, and the provider is asked    *)
(* for a sandbox after all that was to be told before.                     *)
ScriptIsOrderly(x) ==
    /\ x \notin alive => script[x] = <<>>
    /\ \A i \in 1 .. Len(script[x]) : script[x][i] = Do("create") => i = Len(script[x])

Creating(x) == Do("create") \in StepsOf(script[x])

(* What the provider is asked for was told to the Daemon before.           *)
AcquisitionIsTold(x) ==
    /\ x \in box => lease[<<x, "sandbox">>] # "none"
    /\ tree[x] # "absent" => lease[<<x, "worktree">>] # "none"
    /\ Creating(x) =>
          /\ x \notin box /\ tree[x] = "absent"
          /\ \A k \in Scoped : \/ Tell("begin", k) \in StepsOf(script[x])
                               \/ lease[<<x, k>>] # "none"

(* A reply belongs to the mutation the runner waits for.                   *)
ReplyIsCurrent(x) ==
    /\ tries[x] > 0 =>
          /\ script[x] # <<>> /\ Head(script[x]).op \in Mutations
          /\ frames[x] # <<>> => frames[x][Len(frames[x])] = Head(script[x])
    /\ x \in replied =>
          /\ script[x] # <<>> /\ Head(script[x]).op \in Mutations
          /\ Head(script[x]).op = "begin" => lease[<<x, Head(script[x]).kind>>] # "none"

(* Somebody says that the resource is released, or is about to.            *)
SaysReleased(x, k) ==
    \/ \E s \in StepsOf(script[x]) : s.op = "closed" \/ s = Tell("released", k)
    \/ Tell("released", k) \in StepsOf(frames[x])
    \/ registry[<<x, k>>] = "released" \/ lease[<<x, k>>] = "released"

ReleaseIsTrue(x) ==
    /\ SaysReleased(x, "sandbox") => x \notin box /\ ~Creating(x)
    /\ SaysReleased(x, "worktree") => tree[x] # "clean" /\ ~Creating(x)

ExecutionInv(x) ==
    /\ stage[x] = "none" => Untouched(x)
    /\ ScriptIsOrderly(x) /\ AcquisitionIsTold(x) /\ ReplyIsCurrent(x) /\ ReleaseIsTrue(x)

RowInv ==
    /\ ~up => alive = {} /\ reading = {}
    /\ \A x \in cancels : x \notin alive /\ stage[x] # "none"
    /\ row.safety # "safe" => row.prior \in Runner
    /\ row.prior \in Runner => stage[row.prior] # "none"
    /\ SafeIsReconciled

RecoveryInv == RecoveryTypeOK /\ RowInv /\ \A x \in Execution : ExecutionInv(x)

LEMMA RecoveryInvInit == RecoveryInit => RecoveryInv
<1> SUFFICES ASSUME RecoveryInit
             PROVE  RecoveryInv
    OBVIOUS
<1> USE DEF RecoveryInit, ResourceInit
<1>1. ResourceTypeOK
    BY DEF ResourceTypeOK, LeaseStates
<1>2. RecoveryTypeOK
    BY <1>1 DEF RecoveryTypeOK, Healthy, Stages
<1>3. RowInv
    BY DEF RowInv, Healthy, SafeIsReconciled
<1>4. ASSUME NEW x \in Execution
      PROVE  ExecutionInv(x)
  <2>1. /\ script[x] = <<>> /\ frames[x] = <<>> /\ tries[x] = 0 /\ tree[x] = "absent"
        /\ stage[x] = "none"
        /\ \A k \in Kind : lease[<<x, k>>] = "none" /\ registry[<<x, k>>] = "none"
      BY DEF Leases
  <2>2. StepsOf(script[x]) = {} /\ StepsOf(frames[x]) = {} /\ Len(script[x]) = 0
      BY <2>1, ShortPlans
  <2>3. "sandbox" \in Kind /\ "worktree" \in Kind
      BY DEF Kind, Scoped
  <2> QED
      BY <2>1, <2>2, <2>3
      DEF ExecutionInv, Untouched, ScriptIsOrderly, AcquisitionIsTold, ReplyIsCurrent,
          ReleaseIsTrue, SaysReleased, Creating
<1> QED
    BY <1>2, <1>3, <1>4 DEF RecoveryInv

-----------------------------------------------------------------------------
(* What the steps of the Daemon around a runner leave of it.               *)

(* The runner goes on as it was or does nothing more, nothing is made or   *)
(* removed, and a lease changes only in a way that the facts justify.      *)
Quiet(x) ==
    /\ \/ script'[x] = script[x] /\ tries'[x] = tries[x] /\ (x \in replied' => x \in replied)
       \/ script'[x] = <<>> /\ tries'[x] = 0 /\ x \notin replied'
    /\ frames'[x] = frames[x] \/ frames'[x] = <<>>
    /\ x \in reading' => x \in reading
    /\ x \in alive' => x \in alive
    /\ x \notin alive' => script'[x] = <<>>
    /\ (x \in box' <=> x \in box) /\ tree'[x] = tree[x]
    /\ stage'[x] = "none" => stage[x] = "none"
    /\ \A k \in Kind :
          /\ registry'[<<x, k>>] = registry[<<x, k>>]
          /\ \/ lease'[<<x, k>>] = lease[<<x, k>>]
             \/ /\ lease[<<x, k>>] # "none" /\ lease'[<<x, k>>] # "none"
                /\ lease'[<<x, k>>] = "released" =>
                      \/ registry[<<x, k>>] = "released"
                      \/ k = "worktree" /\ tree[x] = "absent" /\ script[x] = <<>>

LEMMA QuietKeeps ==
    ASSUME RecoveryTypeOK, NEW x \in Execution, ExecutionInv(x), Quiet(x)
    PROVE  ExecutionInv(x)'
<1>0. /\ script[x] \in Seq(Step) /\ frames[x] \in Seq(Told) /\ tries[x] \in Nat
      /\ "sandbox" \in Kind /\ "worktree" \in Kind /\ Scoped \subseteq Kind
    BY DEF RecoveryTypeOK, ResourceTypeOK, Kind, Scoped
<1>1. /\ script'[x] = script[x] \/ script'[x] = <<>>
      /\ StepsOf(script'[x]) \subseteq StepsOf(script[x])
      /\ StepsOf(frames'[x]) \subseteq StepsOf(frames[x])
      /\ Creating(x)' => Creating(x) /\ script'[x] = script[x]
    BY ShortPlans DEF Quiet, Creating
<1>2. stage'[x] = "none" => Untouched(x)'
  <2> SUFFICES ASSUME stage'[x] = "none"
               PROVE  Untouched(x)'
      OBVIOUS
  <2>1. Untouched(x)
      BY DEF Quiet, ExecutionInv
  <2> QED
      BY <2>1 DEF Quiet, Untouched
<1>3. ScriptIsOrderly(x)'
    BY <1>1, ShortPlans DEF Quiet, ExecutionInv, ScriptIsOrderly
<1>4. AcquisitionIsTold(x)'
    BY <1>0, <1>1 DEF Quiet, ExecutionInv, AcquisitionIsTold
<1>5. ReplyIsCurrent(x)'
  <2>1. ASSUME tries'[x] > 0
        PROVE  /\ script'[x] # <<>> /\ Head(script'[x]).op \in Mutations
               /\ frames'[x] # <<>> => frames'[x][Len(frames'[x])] = Head(script'[x])
      BY <2>1 DEF Quiet, ExecutionInv, ReplyIsCurrent
  <2>2. ASSUME x \in replied'
        PROVE  /\ script'[x] # <<>> /\ Head(script'[x]).op \in Mutations
               /\ Head(script'[x]).op = "begin" => lease'[<<x, Head(script'[x]).kind>>] # "none"
    <3>1. /\ script'[x] = script[x] /\ x \in replied
        BY <2>2 DEF Quiet
    <3>2. /\ script[x] # <<>> /\ Head(script[x]).op \in Mutations
          /\ Head(script[x]).op = "begin" => lease[<<x, Head(script[x]).kind>>] # "none"
        BY <3>1 DEF ExecutionInv, ReplyIsCurrent
    <3>3. Head(script[x]).kind \in Kind
        BY <1>0, <3>2, FirstAndRest, StepTypes DEF Told
    <3> QED
        BY <3>1, <3>2, <3>3 DEF Quiet
  <2> QED
      BY <2>1, <2>2 DEF ReplyIsCurrent
<1>6. ReleaseIsTrue(x)'
  <2>1. ASSUME SaysReleased(x, "sandbox")'
        PROVE  SaysReleased(x, "sandbox")
      BY <1>0, <1>1, <2>1 DEF SaysReleased, Quiet
  <2>2. ASSUME SaysReleased(x, "worktree")'
        PROVE  SaysReleased(x, "worktree") \/ (tree[x] = "absent" /\ script[x] = <<>>)
      BY <1>0, <1>1, <2>2 DEF SaysReleased, Quiet
  <2>3. script[x] = <<>> => ~Creating(x)
      BY ShortPlans DEF Creating
  <2> QED
      BY <1>1, <2>1, <2>2, <2>3 DEF ReleaseIsTrue, ExecutionInv, Quiet
<1> QED
    BY <1>2, <1>3, <1>4, <1>5, <1>6 DEF ExecutionInv

-----------------------------------------------------------------------------
(* The steps of a runner.                                                  *)

\* Nothing of another execution moves.
Apart(x) ==
    \A y \in Execution : y # x =>
        /\ script'[y] = script[y] /\ frames'[y] = frames[y] /\ tries'[y] = tries[y]
        /\ (y \in replied' <=> y \in replied) /\ (y \in reading' <=> y \in reading)
        /\ (y \in alive' <=> y \in alive) /\ (y \in box' <=> y \in box) /\ tree'[y] = tree[y]
        /\ \A k \in Kind : /\ lease'[<<y, k>>] = lease[<<y, k>>]
                           /\ registry'[<<y, k>>] = registry[<<y, k>>]

LEMMA ApartKeeps ==
    ASSUME RecoveryTypeOK, NEW x \in Execution, NEW y \in Execution, y # x,
           ExecutionInv(y), Apart(x), stage' = stage
    PROVE  ExecutionInv(y)'
BY QuietKeeps DEF Quiet, Apart, ExecutionInv, ScriptIsOrderly

LEMMA OneScript ==
    ASSUME ResourceTypeOK, NEW x \in Execution, NEW s \in Seq(Step), Go(x, s)
    PROVE  /\ script' \in [Execution -> Seq(Step)] /\ script'[x] = s
           /\ \A y \in Execution : y # x => script'[y] = script[y]
BY DEF ResourceTypeOK, Go

LEMMA OneRecord ==
    ASSUME ResourceTypeOK, NEW x \in Execution,
           NEW state \in {"none", "creating", "acquired", "release-intent", "released"},
           Record(x, state)
    PROVE  /\ registry' \in [Leases -> {"none", "creating", "acquired", "release-intent", "released"}]
           /\ \A k \in Scoped : registry'[<<x, k>>] = state
           /\ registry'[<<x, "agent">>] = registry[<<x, "agent">>]
           /\ \A y \in Execution, k \in Kind : y # x => registry'[<<y, k>>] = registry[<<y, k>>]
BY DEF ResourceTypeOK, Record, Leases, Kind, Scoped

\* The first step of a runner that lives.
LEMMA FirstStep ==
    ASSUME RecoveryTypeOK, NEW x \in Execution, ExecutionInv(x), x \in alive, script[x] # <<>>
    PROVE  /\ Head(script[x]) \in Step /\ Head(script[x]) \in StepsOf(script[x])
           /\ stage[x] # "none"
           /\ Head(script[x]).op \notin Mutations => tries[x] = 0 /\ x \notin replied
           /\ x \notin replied /\ tries[x] = MaxTries => x \notin replied
<1>1. script[x] \in Seq(Step) /\ tries[x] \in Nat
    BY DEF RecoveryTypeOK, ResourceTypeOK
<1>2. Head(script[x]) \in Step /\ Head(script[x]) \in StepsOf(script[x])
    BY <1>1, FirstAndRest
<1> QED
    BY <1>1, <1>2 DEF ExecutionInv, Untouched, ReplyIsCurrent

(* A runner that goes on to steps which create nothing.                    *)
LEMMA GoesOn ==
    ASSUME RecoveryTypeOK, NEW x \in Execution, ExecutionInv(x), x \in alive, script[x] # <<>>,
           NEW s \in Seq(Step), script'[x] = s, Do("create") \notin StepsOf(s),
           tries'[x] = 0, x \notin replied', frames' = frames, lease' = lease,
           alive' = alive, stage' = stage,
           x \in box' => x \in box, tree'[x] # "absent" => tree[x] # "absent",
           (\E e \in StepsOf(s) : e.op = "closed" \/ e = Tell("released", "sandbox"))
               \/ registry'[<<x, "sandbox">>] = "released"
               => x \notin box' \/ SaysReleased(x, "sandbox"),
           (\E e \in StepsOf(s) : e.op = "closed" \/ e = Tell("released", "worktree"))
               \/ registry'[<<x, "worktree">>] = "released"
               => tree'[x] # "clean" \/ SaysReleased(x, "worktree"),
           tree'[x] = "clean" => tree[x] = "clean"
    PROVE  ExecutionInv(x)'
<1>1. stage[x] # "none" /\ script[x] \in Seq(Step) /\ ~Creating(x)'
    BY FirstStep DEF RecoveryTypeOK, ResourceTypeOK, Creating
<1>2. ScriptIsOrderly(x)'
  <2>1. \A i \in 1 .. Len(s) : s[i] # Do("create")
      BY DEF StepsOf
  <2> QED
      BY <2>1 DEF ScriptIsOrderly
<1>3. AcquisitionIsTold(x)'
    BY <1>1 DEF ExecutionInv, AcquisitionIsTold
<1>4. ReplyIsCurrent(x)'
    BY DEF ReplyIsCurrent
<1>5. ASSUME SaysReleased(x, "sandbox")'
      PROVE  x \notin box'
    BY <1>5 DEF ExecutionInv, SaysReleased, ReleaseIsTrue
<1>6. ASSUME SaysReleased(x, "worktree")'
      PROVE  tree'[x] # "clean"
    BY <1>6 DEF ExecutionInv, SaysReleased, ReleaseIsTrue
<1> QED
    BY <1>1, <1>2, <1>3, <1>4, <1>5, <1>6 DEF ExecutionInv, ReleaseIsTrue

\* Steps that neither create anything nor say that it is released.
Harmless(s) ==
    /\ s \in Seq(Step) /\ Do("create") \notin StepsOf(s)
    /\ \A e \in StepsOf(s) : /\ e.op # "closed"
                             /\ e # Tell("released", "sandbox") /\ e # Tell("released", "worktree")

LEMMA HarmlessPlans ==
    /\ Harmless(<<>>) /\ Harmless(Release)
    /\ Harmless(TellBoth("acquired") \o <<Do("work")>>) /\ Harmless(TellBoth("unresolved"))
    /\ Harmless(<<Do("made")>>) /\ Harmless(<<Tell("begin", "agent"), Do("ask"), Do("work")>>)
    /\ Harmless(<<Tell("unresolved", "agent"), Do("work")>>)
    /\ \A end \in {"released", "preserved"} : Harmless(Answered(end))
    /\ Harmless(<<Tell("preserved", "worktree"), Tell("unresolved", "sandbox")>>)
    /\ \A k \in {"absent", "clean", "dirty"} : Harmless(<<Tell("close", k)>>)
<1>1. /\ \A op \in Mutations, k \in Kind : Tell(op, k) \in Step
      /\ Do("made") \in Step /\ Do("ask") \in Step /\ Do("work") \in Step
      /\ {"begin", "unresolved", "preserved"} \subseteq Mutations
      /\ {"agent", "worktree", "sandbox"} \subseteq Kind
    BY StepTypes DEF Mutations, Kind, Scoped
<1>2. Harmless(<<>>)
    BY ShortPlans DEF Harmless
<1>3. Harmless(Release)
  <2>1. Release \in Seq(Step)
      BY PlansAreScripts
  <2>2. StepsOf(Release) = {Tell("intent", "sandbox"), Tell("intent", "worktree"), Do("look")}
      BY Plans, ShortPlans
  <2> QED
      BY <2>1, <2>2 DEF Harmless, Tell, Do
<1>4. Harmless(TellBoth("acquired") \o <<Do("work")>>)
  <2>1. TellBoth("acquired") \o <<Do("work")>> \in Seq(Step)
      BY PlansAreScripts
  <2>2. StepsOf(TellBoth("acquired") \o <<Do("work")>>)
            = {Tell("acquired", "sandbox"), Tell("acquired", "worktree"), Do("work")}
    <3> DEFINE plan == <<Tell("acquired", "sandbox"), Tell("acquired", "worktree"), Do("work")>>
    <3>1. TellBoth("acquired") \o <<Do("work")>> = plan
        BY Plans
    <3>2. StepsOf(plan) = {Tell("acquired", "sandbox"), Tell("acquired", "worktree"), Do("work")}
        BY ShortPlans
    <3> HIDE DEF plan
    <3> QED
        BY <3>1, <3>2, Zenon
  <2> QED
      BY <2>1, <2>2 DEF Harmless, Tell, Do
<1>5. Harmless(TellBoth("unresolved"))
  <2>1. TellBoth("unresolved") \in Seq(Step)
      BY PlansAreScripts
  <2>2. StepsOf(TellBoth("unresolved"))
          = {Tell("unresolved", "sandbox"), Tell("unresolved", "worktree")}
      BY Plans, ShortPlans DEF TellBoth
  <2> QED
      BY <2>1, <2>2 DEF Harmless, Tell, Do
<1>6. Harmless(<<Do("made")>>)
  <2>1. <<Do("made")>> \in Seq(Step)
      BY <1>1, PlansAreScripts
  <2>2. StepsOf(<<Do("made")>>) = {Do("made")}
      BY Plans, ShortPlans DEF TellBoth
  <2> QED
      BY <2>1, <2>2 DEF Harmless, Tell, Do
<1>7. Harmless(<<Tell("begin", "agent"), Do("ask"), Do("work")>>)
  <2>1. <<Tell("begin", "agent"), Do("ask"), Do("work")>> \in Seq(Step)
      BY <1>1, PlansAreScripts
  <2>2. StepsOf(<<Tell("begin", "agent"), Do("ask"), Do("work")>>)
          = {Tell("begin", "agent"), Do("ask"), Do("work")}
      BY Plans, ShortPlans DEF TellBoth
  <2> QED
      BY <2>1, <2>2 DEF Harmless, Tell, Do
<1>8. Harmless(<<Tell("unresolved", "agent"), Do("work")>>)
  <2>1. <<Tell("unresolved", "agent"), Do("work")>> \in Seq(Step)
      BY <1>1, PlansAreScripts
  <2>2. StepsOf(<<Tell("unresolved", "agent"), Do("work")>>)
          = {Tell("unresolved", "agent"), Do("work")}
      BY Plans, ShortPlans DEF TellBoth
  <2> QED
      BY <2>1, <2>2 DEF Harmless, Tell, Do
<1>9. \A end \in {"released", "preserved"} : Harmless(Answered(end))
  <2> SUFFICES ASSUME NEW end \in {"released", "preserved"}
               PROVE  Harmless(Answered(end))
      OBVIOUS
  <2>1. StepsOf(Answered(end)) = {Tell("acquired", "agent"), Tell("intent", "agent"),
                                  Tell(end, "agent"), Do("work")}
      BY ShortPlans DEF Answered
  <2> QED
      BY <2>1, PlansAreScripts DEF Harmless, Tell, Do
<1>10. Harmless(<<Tell("preserved", "worktree"), Tell("unresolved", "sandbox")>>)
  <2>1. <<Tell("preserved", "worktree"), Tell("unresolved", "sandbox")>> \in Seq(Step)
      BY <1>1, PlansAreScripts
  <2>2. StepsOf(<<Tell("preserved", "worktree"), Tell("unresolved", "sandbox")>>)
          = {Tell("preserved", "worktree"), Tell("unresolved", "sandbox")}
      BY Plans, ShortPlans DEF TellBoth
  <2> QED
      BY <2>1, <2>2 DEF Harmless, Tell, Do
<1>11. ASSUME NEW k \in {"absent", "clean", "dirty"}
       PROVE  Harmless(<<Tell("close", k)>>)
  <2>1. Tell("close", k) \in Step
      BY StepTypes
  <2> QED
    <3>1. <<Tell("close", k)>> \in Seq(Step)
        BY <2>1, PlansAreScripts
    <3>2. StepsOf(<<Tell("close", k)>>) = {Tell("close", k)}
        BY ShortPlans
    <3> QED
        BY <3>1, <3>2 DEF Harmless, Tell, Do
<1> QED
    BY <1>2, <1>3, <1>4, <1>5, <1>6, <1>7, <1>8, <1>9, <1>10, <1>11

(* A runner that goes on to such steps, and what its provider says of the  *)
(* sandbox and the worktree is not that they are released.                 *)
LEMMA GoesOnHarmlessly ==
    ASSUME RecoveryTypeOK, NEW x \in Execution, ExecutionInv(x), x \in alive, script[x] # <<>>,
           NEW s, Harmless(s), script'[x] = s,
           tries'[x] = 0, x \notin replied', frames' = frames, lease' = lease,
           alive' = alive, stage' = stage, x \in box' => x \in box, tree' = tree,
           \A k \in Scoped : registry'[<<x, k>>] = "released" => registry[<<x, k>>] = "released"
    PROVE  ExecutionInv(x)'
<1>1. "sandbox" \in Scoped /\ "worktree" \in Scoped
    BY DEF Scoped
<1> QED
    BY <1>1, GoesOn DEF Harmless, SaysReleased

Kept(x) == ResourceTypeOK' /\ Apart(x) /\ ExecutionInv(x)'

LEMMA GiveUpKeeps ==
    ASSUME RecoveryTypeOK, NEW x \in Execution, ExecutionInv(x), GiveUp(x), stage' = stage
    PROVE  Kept(x)
<1> DEFINE s == IF Head(script[x]).op = "acquired" \/ Head(script[x]).kind = "agent"
                THEN Release ELSE <<>>
<1>1. Harmless(s) /\ s \in Seq(Step)
    BY HarmlessPlans DEF Harmless
<1>2. /\ Go(x, s) /\ tries' = [tries EXCEPT ![x] = 0]
      /\ x \in alive /\ script[x] # <<>> /\ x \notin replied
      /\ UNCHANGED <<lease, registry, box, tree, replied, frames, reading, alive>>
    BY DEF GiveUp, Telling, providerVars
<1> HIDE DEF s
<1>3. /\ script' \in [Execution -> Seq(Step)] /\ script'[x] = s
      /\ \A y \in Execution : y # x => script'[y] = script[y]
    BY <1>1, <1>2, OneScript DEF RecoveryTypeOK
<1>4. tries' \in [Execution -> 0 .. MaxTries] /\ tries'[x] = 0
      /\ \A y \in Execution : y # x => tries'[y] = tries[y]
    BY <1>2 DEF RecoveryTypeOK, ResourceTypeOK
<1>5. ResourceTypeOK' /\ Apart(x)
    BY <1>2, <1>3, <1>4 DEF RecoveryTypeOK, ResourceTypeOK, Apart
<1>6. ExecutionInv(x)'
    BY <1>1, <1>2, <1>3, <1>4, GoesOnHarmlessly
<1> QED
    BY <1>5, <1>6 DEF Kept

LEMMA MadeKeeps ==
    ASSUME RecoveryTypeOK, NEW x \in Execution, ExecutionInv(x), Made(x), stage' = stage
    PROVE  Kept(x)
<1>1. /\ x \in alive /\ script[x] # <<>> /\ Head(script[x]).op \notin Mutations
      /\ UNCHANGED <<lease, box, tree, tries, replied, frames, reading, alive>>
    BY DEF Made, At, Mutations
<1>2. tries[x] = 0 /\ x \notin replied
    BY <1>1, FirstStep
<1>3. PICK s : /\ Harmless(s) /\ Go(x, s)
               /\ Record(x, "acquired") \/ registry' = registry
    BY HarmlessPlans DEF Made
<1>4. /\ script' \in [Execution -> Seq(Step)] /\ script'[x] = s
      /\ \A y \in Execution : y # x => script'[y] = script[y]
    BY <1>3, OneScript DEF RecoveryTypeOK, Harmless
<1>5. /\ registry' \in [Leases -> {"none", "creating", "acquired", "release-intent", "released"}]
      /\ \A k \in Scoped : registry'[<<x, k>>] = "released" => registry[<<x, k>>] = "released"
      /\ \A y \in Execution, k \in Kind : y # x => registry'[<<y, k>>] = registry[<<y, k>>]
    BY <1>3, OneRecord DEF RecoveryTypeOK, ResourceTypeOK
<1>6. ResourceTypeOK' /\ Apart(x)
    BY <1>1, <1>4, <1>5 DEF RecoveryTypeOK, ResourceTypeOK, Apart
<1>7. ExecutionInv(x)'
    BY <1>1, <1>2, <1>3, <1>4, <1>5, GoesOnHarmlessly
<1> QED
    BY <1>6, <1>7 DEF Kept

LEMMA InvokeKeeps ==
    ASSUME RecoveryTypeOK, NEW x \in Execution, ExecutionInv(x), Invoke(x) \/ LeaveScope(x),
           stage' = stage
    PROVE  Kept(x)
<1>1. /\ x \in alive /\ script[x] # <<>> /\ Head(script[x]).op \notin Mutations
      /\ UNCHANGED <<lease, registry, box, tree, tries, replied, frames, reading, alive>>
    BY DEF Invoke, LeaveScope, At, Mutations, providerVars
<1>2. tries[x] = 0 /\ x \notin replied
    BY <1>1, FirstStep
<1>3. PICK s : Harmless(s) /\ Go(x, s)
    BY HarmlessPlans DEF Invoke, LeaveScope
<1>4. /\ script' \in [Execution -> Seq(Step)] /\ script'[x] = s
      /\ \A y \in Execution : y # x => script'[y] = script[y]
    BY <1>3, OneScript DEF RecoveryTypeOK, Harmless
<1>5. ResourceTypeOK' /\ Apart(x)
    BY <1>1, <1>4 DEF RecoveryTypeOK, ResourceTypeOK, Apart
<1>6. ExecutionInv(x)'
    BY <1>1, <1>2, <1>3, <1>4, GoesOnHarmlessly
<1> QED
    BY <1>5, <1>6 DEF Kept

LEMMA AskKeeps ==
    ASSUME RecoveryTypeOK, NEW x \in Execution, ExecutionInv(x), Ask(x), stage' = stage
    PROVE  Kept(x)
<1>1. /\ x \in alive /\ script[x] # <<>> /\ Head(script[x]).op \notin Mutations
      /\ UNCHANGED <<lease, box, tree, tries, replied, frames, reading, alive>>
    BY DEF Ask, At, Mutations
<1>2. tries[x] = 0 /\ x \notin replied
    BY <1>1, FirstStep
<1>3. PICK found \in {"creating", "release-intent", "released"} :
          /\ registry' = [registry EXCEPT ![<<x, "agent">>] = found]
          /\ Go(x, CASE found = "creating" -> <<Tell("unresolved", "agent"), Do("work")>>
                    [] found = "released" -> Answered("released")
                    [] OTHER -> Answered("preserved"))
    BY DEF Ask
<1>4. PICK s : Harmless(s) /\ Go(x, s)
    BY <1>3, HarmlessPlans
<1>5. /\ script' \in [Execution -> Seq(Step)] /\ script'[x] = s
      /\ \A y \in Execution : y # x => script'[y] = script[y]
    BY <1>4, OneScript DEF RecoveryTypeOK, Harmless
<1>6. /\ registry' \in [Leases -> {"none", "creating", "acquired", "release-intent", "released"}]
      /\ \A k \in Scoped : registry'[<<x, k>>] = registry[<<x, k>>]
      /\ \A y \in Execution, k \in Kind : y # x => registry'[<<y, k>>] = registry[<<y, k>>]
    BY <1>3 DEF RecoveryTypeOK, ResourceTypeOK, Leases, Kind, Scoped
<1>7. ResourceTypeOK' /\ Apart(x)
    BY <1>1, <1>5, <1>6 DEF RecoveryTypeOK, ResourceTypeOK, Apart
<1>8. ExecutionInv(x)'
    BY <1>1, <1>2, <1>4, <1>5, <1>6, GoesOnHarmlessly
<1> QED
    BY <1>7, <1>8 DEF Kept

LEMMA LookKeeps ==
    ASSUME RecoveryTypeOK, NEW x \in Execution, ExecutionInv(x), Look(x), stage' = stage
    PROVE  Kept(x)
<1>1. /\ x \in alive /\ script[x] # <<>> /\ Head(script[x]).op \notin Mutations
      /\ Record(x, "release-intent")
      /\ UNCHANGED <<lease, box, tree, tries, replied, frames, reading, alive>>
    BY DEF Look, At, Mutations
<1>2. tries[x] = 0 /\ x \notin replied
    BY <1>1, FirstStep
<1>3. tree[x] # "unreadable" => tree[x] \in {"absent", "clean", "dirty"}
    BY DEF RecoveryTypeOK, ResourceTypeOK
<1>4. PICK s : Harmless(s) /\ Go(x, s)
    BY <1>3, HarmlessPlans DEF Look
<1>5. /\ script' \in [Execution -> Seq(Step)] /\ script'[x] = s
      /\ \A y \in Execution : y # x => script'[y] = script[y]
    BY <1>4, OneScript DEF RecoveryTypeOK, Harmless
<1>6. /\ registry' \in [Leases -> {"none", "creating", "acquired", "release-intent", "released"}]
      /\ \A k \in Scoped : registry'[<<x, k>>] # "released"
      /\ \A y \in Execution, k \in Kind : y # x => registry'[<<y, k>>] = registry[<<y, k>>]
    BY <1>1, OneRecord DEF RecoveryTypeOK
<1>7. ResourceTypeOK' /\ Apart(x)
    BY <1>1, <1>5, <1>6 DEF RecoveryTypeOK, ResourceTypeOK, Apart
<1>8. ExecutionInv(x)'
    BY <1>1, <1>2, <1>4, <1>5, <1>6, GoesOnHarmlessly
<1> QED
    BY <1>7, <1>8 DEF Kept

LEMMA CloseKeeps ==
    ASSUME RecoveryTypeOK, NEW x \in Execution, ExecutionInv(x), Close(x), stage' = stage
    PROVE  Kept(x)
<1> DEFINE k == Head(script[x]).kind
<1>1. /\ x \in alive /\ script[x] # <<>> /\ Head(script[x]).op = "close"
      /\ "close" \notin Mutations
      /\ UNCHANGED <<lease, registry, tries, replied, frames, reading, alive>>
    BY DEF Close, At, Mutations
<1>2. tries[x] = 0 /\ x \notin replied /\ Head(script[x]) \in Step
    BY <1>1, FirstStep
<1>3. k \in {"absent", "clean", "dirty"}
    BY <1>1, <1>2 DEF Step, Told
<1>4. box' \in {box, box \ {x}}
    BY DEF Close
<1>5. /\ tree' \in [Execution -> {"absent", "clean", "dirty", "unreadable"}]
      /\ \A y \in Execution : y # x => tree'[y] = tree[y]
      /\ tree'[x] # "absent" => tree[x] # "absent"
      /\ tree'[x] = "clean" => tree[x] = "clean"
    BY DEF Close, RecoveryTypeOK, ResourceTypeOK
<1>6. PICK s \in Seq(Step) :
          /\ Go(x, s) /\ Do("create") \notin StepsOf(s)
          /\ \/ s = TellBoth("unresolved")
             \/ s = <<Tell("closed", k)>> /\ x \notin box' /\ tree'[x] # "clean"
  <2>1. CASE Go(x, TellBoth("unresolved"))
      BY <2>1, HarmlessPlans DEF Harmless
  <2>2. CASE /\ Go(x, <<Tell("closed", k)>>) /\ box' = box \ {x}
             /\ tree' = [tree EXCEPT ![x] = IF @ = "dirty" THEN @ ELSE "absent"]
    <3>1. <<Tell("closed", k)>> \in Seq(Step)
        BY <1>3, StepTypes, PlansAreScripts
    <3>2. Do("create") \notin StepsOf(<<Tell("closed", k)>>)
        BY ShortPlans DEF Tell, Do
    <3> QED
        BY <2>2, <3>1, <3>2 DEF RecoveryTypeOK, ResourceTypeOK
  <2> QED
      BY <2>1, <2>2 DEF Close
<1>7. /\ script' \in [Execution -> Seq(Step)] /\ script'[x] = s
      /\ \A y \in Execution : y # x => script'[y] = script[y]
    BY <1>6, OneScript DEF RecoveryTypeOK
<1>8. ResourceTypeOK' /\ Apart(x)
    BY <1>1, <1>4, <1>5, <1>7 DEF RecoveryTypeOK, ResourceTypeOK, Apart
<1>9. ExecutionInv(x)'
  <2>1. CASE s = TellBoth("unresolved")
      BY <2>1, <1>1, <1>2, <1>4, <1>5, <1>6, <1>7, HarmlessPlans, GoesOn DEF Harmless, SaysReleased
  <2>2. CASE x \notin box' /\ tree'[x] # "clean"
      BY <2>2, <1>1, <1>2, <1>5, <1>6, <1>7, GoesOn
  <2> QED
      BY <1>6, <2>1, <2>2
<1> QED
    BY <1>8, <1>9 DEF Kept

LEMMA ClosedKeeps ==
    ASSUME RecoveryTypeOK, NEW x \in Execution, ExecutionInv(x), Closed(x), stage' = stage
    PROVE  Kept(x)
<1> DEFINE left == Head(script[x]).kind = "dirty"
           last == Tell(IF left THEN "preserved" ELSE "released", "worktree")
           s    == <<Tell("released", "sandbox"), last>>
<1>1. /\ x \in alive /\ script[x] # <<>> /\ Head(script[x]).op = "closed"
      /\ "closed" \notin Mutations
      /\ registry' = [registry EXCEPT ![<<x, "sandbox">>] = "released",
                          ![<<x, "worktree">>] = IF left THEN @ ELSE "released"]
      /\ Go(x, s)
      /\ UNCHANGED <<lease, box, tree, tries, replied, frames, reading, alive>>
    BY DEF Closed, At, Mutations
<1>0. UNCHANGED <<lease, box, tree, tries, replied, frames, reading, alive>>
    BY DEF Closed
<1>2. tries[x] = 0 /\ x \notin replied /\ Head(script[x]) \in StepsOf(script[x])
    BY <1>1, FirstStep
<1>3. s \in Seq(Step) /\ Do("create") \notin StepsOf(s)
  <2>1. Tell("released", "sandbox") \in Step /\ last \in Step
      BY StepTypes DEF Mutations, Kind, Scoped
  <2>2. StepsOf(s) = {Tell("released", "sandbox"), last}
      BY ShortPlans
  <2> HIDE DEF last
  <2>3. s \in Seq(Step)
      BY <2>1, PlansAreScripts
  <2> USE DEF last
  <2> QED
      BY <2>2, <2>3 DEF Tell, Do
<1>4. SaysReleased(x, "sandbox") /\ SaysReleased(x, "worktree")
    BY <1>1, <1>2 DEF SaysReleased
<1>5. registry' \in [Leases -> {"none", "creating", "acquired", "release-intent", "released"}]
      /\ \A y \in Execution, k \in Kind : y # x => registry'[<<y, k>>] = registry[<<y, k>>]
    BY <1>1 DEF RecoveryTypeOK, ResourceTypeOK, Leases, Kind, Scoped
<1> HIDE DEF s
<1>6. /\ script' \in [Execution -> Seq(Step)] /\ script'[x] = s
      /\ \A y \in Execution : y # x => script'[y] = script[y]
    BY <1>1, <1>3, OneScript DEF RecoveryTypeOK
<1>7. ResourceTypeOK' /\ Apart(x)
    BY <1>0, <1>5, <1>6 DEF RecoveryTypeOK, ResourceTypeOK, Apart
<1>8. ExecutionInv(x)'
    BY <1>1, <1>2, <1>3, <1>4, <1>6, GoesOn
<1> QED
    BY <1>7, <1>8 DEF Kept

(* The provider is asked when the begin mutations were committed.          *)
LEMMA CreateKeeps ==
    ASSUME RecoveryTypeOK, NEW x \in Execution, ExecutionInv(x), Create(x), stage' = stage
    PROVE  Kept(x)
<1>1. /\ x \in alive /\ script[x] # <<>> /\ Head(script[x]).op = "create"
      /\ "create" \notin Mutations
      /\ Record(x, "creating") /\ box' \in {box, box \cup {x}}
      /\ Go(x, <<Do("made")>>)
      /\ UNCHANGED <<lease, tries, replied, frames, reading, alive>>
    BY DEF Create, At, Mutations
<1>2. PICK t \in {"absent", "clean"} : tree' = [tree EXCEPT ![x] = t]
    BY DEF Create
<1>3. /\ tries[x] = 0 /\ x \notin replied /\ stage[x] # "none"
      /\ Head(script[x]) \in Step /\ script[x] \in Seq(Step)
    BY <1>1, FirstStep DEF RecoveryTypeOK, ResourceTypeOK
<1>4. Head(script[x]) = Do("create") /\ Head(script[x]) = script[x][1] /\ Len(script[x]) = 1
  <2>1. Head(script[x]) = Do("create")
      BY <1>1, <1>3 DEF Step, Told, Do
  <2> QED
      BY <2>1, <1>1, <1>3, FirstAndRest DEF ExecutionInv, ScriptIsOrderly
<1>5. StepsOf(script[x]) = {Do("create")}
    BY <1>4 DEF StepsOf
<1>6. /\ Creating(x) /\ x \notin box /\ tree[x] = "absent"
      /\ \A k \in Scoped : lease[<<x, k>>] # "none"
  <2>1. Creating(x)
      BY <1>5 DEF Creating
  <2>2. \A k \in Scoped : Tell("begin", k) # Do("create")
      BY DEF Tell, Do
  <2> QED
      BY <1>5, <2>1, <2>2 DEF ExecutionInv, AcquisitionIsTold
<1>7. <<Do("made")>> \in Seq(Step) /\ Len(<<Do("made")>>) = 1
      /\ StepsOf(<<Do("made")>>) = {Do("made")}
    BY StepTypes, PlansAreScripts, ShortPlans
<1>8. /\ script' \in [Execution -> Seq(Step)] /\ script'[x] = <<Do("made")>>
      /\ \A y \in Execution : y # x => script'[y] = script[y]
    BY <1>1, <1>7, OneScript DEF RecoveryTypeOK
<1>9. /\ registry' \in [Leases -> {"none", "creating", "acquired", "release-intent", "released"}]
      /\ \A k \in Scoped : registry'[<<x, k>>] # "released"
      /\ \A y \in Execution, k \in Kind : y # x => registry'[<<y, k>>] = registry[<<y, k>>]
    BY <1>1, OneRecord DEF RecoveryTypeOK
<1>10. /\ tree' \in [Execution -> {"absent", "clean", "dirty", "unreadable"}]
       /\ \A y \in Execution : y # x => tree'[y] = tree[y]
    BY <1>2 DEF RecoveryTypeOK, ResourceTypeOK
<1>11. ResourceTypeOK' /\ Apart(x)
    BY <1>1, <1>8, <1>9, <1>10 DEF RecoveryTypeOK, ResourceTypeOK, Apart
<1>12. ~Creating(x)' /\ ~SaysReleased(x, "sandbox")' /\ ~SaysReleased(x, "worktree")'
  <2>1. ~SaysReleased(x, "sandbox") /\ ~SaysReleased(x, "worktree")
      BY <1>6 DEF ExecutionInv, ReleaseIsTrue
  <2>2. Do("made") # Do("create") /\ Do("made").op # "closed"
        /\ \A k \in Scoped : Do("made") # Tell("released", k)
      BY DEF Do, Tell
  <2>3. "sandbox" \in Scoped /\ "worktree" \in Scoped
      BY DEF Scoped
  <2> QED
      BY <1>1, <1>7, <1>8, <1>9, <2>1, <2>2, <2>3 DEF Creating, SaysReleased
<1>13. ExecutionInv(x)'
  <2>1. ScriptIsOrderly(x)'
    <3>1. <<Do("made")>>[1] # Do("create")
        BY DEF Do
    <3> QED
        BY <1>1, <1>7, <1>8, <3>1 DEF ScriptIsOrderly
  <2>2. AcquisitionIsTold(x)'
      BY <1>1, <1>6, <1>12 DEF AcquisitionIsTold, Scoped
  <2>3. ReplyIsCurrent(x)' /\ ReleaseIsTrue(x)'
      BY <1>1, <1>3, <1>12 DEF ReplyIsCurrent, ReleaseIsTrue
  <2> QED
      BY <1>3, <2>1, <2>2, <2>3 DEF ExecutionInv
<1> QED
    BY <1>11, <1>13 DEF Kept

(* A begin mutation whose reply came has its lease.                        *)
LEMMA CommittedKeeps ==
    ASSUME RecoveryTypeOK, NEW x \in Execution, ExecutionInv(x), Committed(x), stage' = stage
    PROVE  Kept(x)
<1>1. /\ x \in alive /\ script[x] # <<>> /\ x \in replied
      /\ Go(x, Tail(script[x]))
      /\ tries' = [tries EXCEPT ![x] = 0] /\ replied' = replied \ {x}
      /\ UNCHANGED <<lease, registry, box, tree, frames, reading, alive>>
    BY DEF Committed, Telling, Advance, providerVars
<1>2. /\ script[x] \in Seq(Step) /\ stage[x] # "none"
      /\ Tail(script[x]) \in Seq(Step) /\ Len(script[x]) \in Nat
      /\ Len(Tail(script[x])) = Len(script[x]) - 1
      /\ \A i \in 1 .. Len(script[x]) - 1 : Tail(script[x])[i] = script[x][i + 1]
      /\ StepsOf(Tail(script[x])) \subseteq StepsOf(script[x])
      /\ \A e \in StepsOf(script[x]) : e = Head(script[x]) \/ e \in StepsOf(Tail(script[x]))
    BY <1>1, FirstAndRest, FirstStep DEF RecoveryTypeOK, ResourceTypeOK
<1>3. /\ script' \in [Execution -> Seq(Step)] /\ script'[x] = Tail(script[x])
      /\ \A y \in Execution : y # x => script'[y] = script[y]
    BY <1>1, <1>2, OneScript DEF RecoveryTypeOK
<1>4. tries' \in [Execution -> 0 .. MaxTries] /\ tries'[x] = 0
      /\ \A y \in Execution : y # x => tries'[y] = tries[y]
    BY <1>1 DEF RecoveryTypeOK, ResourceTypeOK
<1>5. ResourceTypeOK' /\ Apart(x)
    BY <1>1, <1>3, <1>4 DEF RecoveryTypeOK, ResourceTypeOK, Apart
<1>6. ScriptIsOrderly(x)'
  <2> SUFFICES ASSUME NEW i \in 1 .. Len(script'[x]), script'[x][i] = Do("create")
               PROVE  i = Len(script'[x])
      BY <1>1 DEF ScriptIsOrderly
  <2>1. i + 1 \in 1 .. Len(script[x]) /\ script[x][i + 1] = Do("create")
      BY <1>2, <1>3
  <2> QED
      BY <1>2, <1>3, <2>1 DEF ExecutionInv, ScriptIsOrderly
<1>7. AcquisitionIsTold(x)'
  <2>1. ASSUME Creating(x)', NEW k \in Scoped
        PROVE  Tell("begin", k) \in StepsOf(script'[x]) \/ lease[<<x, k>>] # "none"
    <3>1. Creating(x)
        BY <1>2, <1>3, <2>1 DEF Creating
    <3>2. CASE Tell("begin", k) = Head(script[x])
        BY <1>1, <3>2 DEF ExecutionInv, ReplyIsCurrent, Tell
    <3> QED
        BY <1>2, <1>3, <3>1, <3>2 DEF ExecutionInv, AcquisitionIsTold
  <2>2. Creating(x)' => Creating(x)
      BY <1>2, <1>3 DEF Creating
  <2> QED
      BY <1>1, <2>1, <2>2 DEF ExecutionInv, AcquisitionIsTold
<1>8. ReplyIsCurrent(x)'
    BY <1>1, <1>4 DEF ReplyIsCurrent
<1>9. ReleaseIsTrue(x)'
  <2>1. /\ SaysReleased(x, "sandbox")' => SaysReleased(x, "sandbox")
        /\ SaysReleased(x, "worktree")' => SaysReleased(x, "worktree")
        /\ Creating(x)' => Creating(x)
      BY <1>1, <1>2, <1>3 DEF SaysReleased, Creating
  <2> QED
      BY <1>1, <2>1 DEF ExecutionInv, ReleaseIsTrue
<1> QED
    BY <1>2, <1>5, <1>6, <1>7, <1>8, <1>9 DEF Kept, ExecutionInv

LEMMA SendKeeps ==
    ASSUME RecoveryTypeOK, NEW x \in Execution, ExecutionInv(x), Send(x), stage' = stage
    PROVE  Kept(x)
<1> DEFINE f == Head(script[x])
<1>1. /\ x \in alive /\ script[x] # <<>> /\ x \notin replied /\ tries[x] < MaxTries
      /\ f.op \in Mutations
      /\ frames' = [frames EXCEPT ![x] = Append(@, f)] /\ tries' = [tries EXCEPT ![x] = @ + 1]
      /\ UNCHANGED <<lease, registry, box, tree, script, replied, reading, alive>>
    BY DEF Send, Telling, providerVars
<1>2. f \in StepsOf(script[x]) /\ f \in Told /\ stage[x] # "none"
    BY <1>1, FirstStep, StepTypes
<1>3. /\ frames[x] \in Seq(Told) /\ frames'[x] = Append(frames[x], f)
      /\ frames' = [y \in Execution |-> IF y = x THEN frames'[x] ELSE frames[y]]
    BY <1>1 DEF RecoveryTypeOK, ResourceTypeOK
<1> HIDE DEF f
<1>4. /\ frames'[x] \in Seq(Told) /\ frames'[x][Len(frames'[x])] = f
      /\ \A e \in StepsOf(frames'[x]) : e = f \/ e \in StepsOf(frames[x])
    BY <1>2, <1>3, OneMore
<1>5. frames' \in [Execution -> Seq(Told)] /\ \A y \in Execution : y # x => frames'[y] = frames[y]
    BY <1>3, <1>4 DEF RecoveryTypeOK, ResourceTypeOK
<1>6. tries' \in [Execution -> 0 .. MaxTries]
      /\ \A y \in Execution : y # x => tries'[y] = tries[y]
    BY <1>1 DEF RecoveryTypeOK, ResourceTypeOK
<1>7. ResourceTypeOK' /\ Apart(x)
    BY <1>1, <1>5, <1>6 DEF RecoveryTypeOK, ResourceTypeOK, Apart
<1>8. ScriptIsOrderly(x)' /\ AcquisitionIsTold(x)'
    BY <1>1 DEF ExecutionInv, ScriptIsOrderly, AcquisitionIsTold, Creating
<1>9. ReplyIsCurrent(x)'
    BY <1>1, <1>4 DEF ReplyIsCurrent, f
<1>10. ReleaseIsTrue(x)'
  <2>1. /\ SaysReleased(x, "sandbox")' => SaysReleased(x, "sandbox")
        /\ SaysReleased(x, "worktree")' => SaysReleased(x, "worktree")
      BY <1>1, <1>2, <1>4 DEF SaysReleased
  <2> QED
      BY <1>1, <2>1 DEF ExecutionInv, ReleaseIsTrue, Creating
<1> QED
    BY <1>2, <1>7, <1>8, <1>9, <1>10 DEF Kept, ExecutionInv

(* An agent changes only a worktree that was clean.                        *)
LEMMA AgentKeeps ==
    ASSUME RecoveryTypeOK, NEW x \in Execution, ExecutionInv(x), AgentWrites(x), stage' = stage
    PROVE  Kept(x)
<1>1. PICK t \in {"dirty", "unreadable"} : tree' = [tree EXCEPT ![x] = t]
    BY DEF AgentWrites
<1>2. /\ x \in box /\ tree[x] = "clean"
      /\ UNCHANGED <<lease, registry, box, script, tries, replied, alive, frames, reading>>
    BY DEF AgentWrites, runnerVars
<1>3. /\ tree' \in [Execution -> {"absent", "clean", "dirty", "unreadable"}] /\ tree'[x] = t
      /\ \A y \in Execution : y # x => tree'[y] = tree[y]
    BY <1>1 DEF RecoveryTypeOK, ResourceTypeOK
<1>4. ResourceTypeOK' /\ Apart(x)
    BY <1>2, <1>3 DEF RecoveryTypeOK, ResourceTypeOK, Apart
<1>5. ExecutionInv(x)'
    BY <1>2, <1>3
    DEF ExecutionInv, Untouched, ScriptIsOrderly, AcquisitionIsTold, Creating, ReplyIsCurrent,
        ReleaseIsTrue, SaysReleased
<1> QED
    BY <1>4, <1>5 DEF Kept

-----------------------------------------------------------------------------
(* The steps of the Daemon.                                                *)

(* A frame is handled: the lease is as it says, and a runner that waits    *)
(* for this mutation and has sent nothing after it gets its reply.         *)
LEMMA HandleKeeps ==
    ASSUME RecoveryTypeOK, NEW x \in Execution, ExecutionInv(x), Handle(x), stage' = stage
    PROVE  Kept(x)
<1> DEFINE f == Head(frames[x])
<1>1. /\ x \in reading /\ frames[x] # <<>>
      /\ UNCHANGED <<registry, box, tree, script, tries, alive>>
    BY DEF Handle, providerVars
<1>2. /\ frames[x] \in Seq(Told) /\ f \in Told
      /\ Tail(frames[x]) \in Seq(Told) /\ Len(frames[x]) \in Nat \ {0}
      /\ Len(Tail(frames[x])) = Len(frames[x]) - 1
      /\ \A i \in 1 .. Len(frames[x]) - 1 : Tail(frames[x])[i] = frames[x][i + 1]
      /\ f = frames[x][1] /\ f \in StepsOf(frames[x])
      /\ StepsOf(Tail(frames[x])) \subseteq StepsOf(frames[x])
    BY <1>1, FirstAndRest DEF RecoveryTypeOK, ResourceTypeOK
<1>3. stage[x] # "none"
    BY <1>1 DEF ExecutionInv, Untouched
<1>4. CASE ~Accepts(<<x, f.kind>>, f.op)
  <2>1. /\ frames' = [frames EXCEPT ![x] = <<>>] /\ reading' = reading \ {x}
        /\ UNCHANGED <<lease, replied>>
      BY <1>4 DEF Handle
  <2>2. frames' \in [Execution -> Seq(Told)] /\ frames'[x] = <<>>
        /\ \A y \in Execution : y # x => frames'[y] = frames[y]
      BY <2>1 DEF RecoveryTypeOK, ResourceTypeOK
  <2>3. ResourceTypeOK' /\ Apart(x)
      BY <1>1, <2>1, <2>2 DEF RecoveryTypeOK, ResourceTypeOK, Apart
  <2>4. Quiet(x)
      BY <1>1, <1>3, <2>1, <2>2 DEF Quiet, ExecutionInv, ScriptIsOrderly
  <2> QED
      BY <2>3, <2>4, QuietKeeps DEF Kept
<1>5. CASE Accepts(<<x, f.kind>>, f.op)
  <2>1. /\ lease' = [lease EXCEPT ![<<x, f.kind>>] =
                        IF Repeats(<<x, f.kind>>, f.op) THEN @ ELSE Becomes[f.op]]
        /\ frames' = [frames EXCEPT ![x] = Tail(@)]
        /\ replied' = IF x \in alive /\ Len(frames[x]) = 1 /\ tries[x] > 0
                      THEN replied \cup {x} ELSE replied
        /\ UNCHANGED reading
      BY <1>5 DEF Handle
  <2>2. frames' \in [Execution -> Seq(Told)] /\ frames'[x] = Tail(frames[x])
        /\ \A y \in Execution : y # x => frames'[y] = frames[y]
      BY <1>2, <2>1 DEF RecoveryTypeOK, ResourceTypeOK
  <2>3. /\ f.op \in Mutations /\ f.kind \in Kind /\ f = Tell(f.op, f.kind)
        /\ Becomes[f.op] \in LeaseStates /\ Becomes[f.op] # "none"
        /\ Becomes[f.op] = "released" => f.op = "released"
      BY <1>2 DEF Told, Tell, Becomes, LeaseStates, Mutations
  <2> HIDE DEF f
  <2>4. /\ lease' \in [Leases -> LeaseStates]
        /\ lease'[<<x, f.kind>>] # "none"
        /\ lease'[<<x, f.kind>>] \in {lease[<<x, f.kind>>], Becomes[f.op]}
        /\ \A k \in Kind : k # f.kind => lease'[<<x, k>>] = lease[<<x, k>>]
        /\ \A y \in Execution, k \in Kind : y # x => lease'[<<y, k>>] = lease[<<y, k>>]
      BY <2>1, <2>3 DEF RecoveryTypeOK, ResourceTypeOK, Leases, Repeats
  <2>5. /\ \A k \in Kind : lease[<<x, k>>] # "none" => lease'[<<x, k>>] # "none"
        /\ \A k \in Kind : lease'[<<x, k>>] = "released" =>
              lease[<<x, k>>] = "released" \/ Tell("released", k) \in StepsOf(frames[x])
      BY <1>2, <2>3, <2>4 DEF f
  <2>6. ResourceTypeOK' /\ Apart(x)
      BY <1>1, <2>1, <2>2, <2>4 DEF RecoveryTypeOK, ResourceTypeOK, Apart
  <2>7. ScriptIsOrderly(x)'
      BY <1>1 DEF ExecutionInv, ScriptIsOrderly
  <2>8. "sandbox" \in Kind /\ "worktree" \in Kind /\ Scoped \subseteq Kind
      BY DEF Kind, Scoped
  <2>9. AcquisitionIsTold(x)'
      BY <1>1, <2>5, <2>8 DEF ExecutionInv, AcquisitionIsTold, Creating
  <2>10. ReplyIsCurrent(x)'
    <3>1. ASSUME tries[x] > 0
          PROVE  /\ script[x] # <<>> /\ Head(script[x]).op \in Mutations
                 /\ frames'[x] # <<>> => frames'[x][Len(frames'[x])] = Head(script[x])
      <4>1. /\ script[x] # <<>> /\ Head(script[x]).op \in Mutations
            /\ frames[x][Len(frames[x])] = Head(script[x])
          BY <1>1, <3>1 DEF ExecutionInv, ReplyIsCurrent
      <4>2. ASSUME Tail(frames[x]) # <<>>
            PROVE  Tail(frames[x])[Len(Tail(frames[x]))] = frames[x][Len(frames[x])]
        <5>1. Len(Tail(frames[x])) \in 1 .. Len(frames[x]) - 1
            BY <1>2, <4>2
        <5> QED
            BY <1>2, <5>1
      <4> QED
          BY <2>2, <4>1, <4>2
    <3>2. ASSUME x \in replied'
          PROVE  /\ script[x] # <<>> /\ Head(script[x]).op \in Mutations
                 /\ Head(script[x]).op = "begin" => lease'[<<x, Head(script[x]).kind>>] # "none"
      <4>1. CASE x \in replied
        <5>1. /\ script[x] # <<>> /\ Head(script[x]).op \in Mutations
              /\ Head(script[x]).op = "begin" => lease[<<x, Head(script[x]).kind>>] # "none"
            BY <4>1 DEF ExecutionInv, ReplyIsCurrent
        <5>2. Head(script[x]).kind \in Kind
            BY <5>1, FirstAndRest, StepTypes DEF RecoveryTypeOK, ResourceTypeOK, Told
        <5> QED
            BY <2>5, <5>1, <5>2
      <4>2. CASE Len(frames[x]) = 1 /\ tries[x] > 0
        <5>1. /\ script[x] # <<>> /\ Head(script[x]).op \in Mutations
              /\ frames[x][Len(frames[x])] = Head(script[x])
            BY <1>1, <4>2 DEF ExecutionInv, ReplyIsCurrent
        <5>2. Head(script[x]) = f
            BY <1>2, <4>2, <5>1
        <5> QED
            BY <2>3, <2>4, <5>1, <5>2
      <4> QED
          BY <2>1, <3>2, <4>1, <4>2
    <3> QED
        BY <1>1, <3>1, <3>2 DEF ReplyIsCurrent
  <2>11. ReleaseIsTrue(x)'
    <3>1. /\ SaysReleased(x, "sandbox")' => SaysReleased(x, "sandbox")
          /\ SaysReleased(x, "worktree")' => SaysReleased(x, "worktree")
        BY <1>1, <1>2, <2>2, <2>5, <2>8 DEF SaysReleased
    <3> QED
        BY <1>1, <3>1 DEF ExecutionInv, ReleaseIsTrue, Creating
  <2> QED
      BY <1>3, <2>6, <2>7, <2>9, <2>10, <2>11 DEF Kept, ExecutionInv
<1> QED
    BY <1>4, <1>5

LEMMA ChannelKeeps ==
    ASSUME RecoveryTypeOK, NEW x \in Execution, ExecutionInv(x),
           RunnerStep(x) \/ AgentWrites(x) \/ Handle(x), stage' = stage
    PROVE  Kept(x)
BY GiveUpKeeps, MadeKeeps, InvokeKeeps, AskKeeps, LookKeeps, CloseKeeps, ClosedKeeps, CreateKeeps,
   CommittedKeeps, SendKeeps, AgentKeeps, HandleKeeps DEF RunnerStep

(* A runner is started only once, so there is nothing of an earlier one.   *)
LEMMA SpawnKeeps ==
    ASSUME RecoveryTypeOK, \A x \in Execution : ExecutionInv(x),
           NEW r \in Runner, Spawn(r), stage[r] = "none",
           stage' = [stage EXCEPT ![r] = "running"]
    PROVE  ResourceTypeOK' /\ \A x \in Execution : ExecutionInv(x)'
<1>1. /\ alive' = alive \cup {r} /\ reading' = reading \cup ({r} \cap Execution)
      /\ script' = [x \in Execution |-> IF x = r THEN Acquire ELSE script[x]]
      /\ UNCHANGED <<lease, registry, box, tree, frames, tries, replied>>
    BY DEF Spawn, providerVars
<1>2. Acquire \in Seq(Step)
    BY PlansAreScripts
<1>3. ResourceTypeOK'
    BY <1>1, <1>2 DEF RecoveryTypeOK, ResourceTypeOK
<1>4. ASSUME NEW x \in Execution, x # r
      PROVE  ExecutionInv(x)'
  <2>1. Quiet(x)
      BY <1>1, <1>4 DEF Quiet, ExecutionInv, ScriptIsOrderly, RecoveryTypeOK
  <2> QED
      BY <2>1, QuietKeeps
<1>5. ASSUME r \in Execution
      PROVE  ExecutionInv(r)'
  <2>1. Untouched(r)
      BY <1>5 DEF ExecutionInv
  <2>2. /\ script'[r] = Acquire /\ r \in alive' /\ stage'[r] # "none"
        /\ frames'[r] = <<>> /\ tries'[r] = 0 /\ r \notin replied'
        /\ r \notin box' /\ tree'[r] = "absent"
        /\ \A k \in Kind : lease'[<<r, k>>] = "none" /\ registry'[<<r, k>>] = "none"
      BY <1>1, <1>5, <2>1 DEF Untouched, RecoveryTypeOK
  <2>3. /\ StepsOf(Acquire) = {Tell("begin", "sandbox"), Tell("begin", "worktree"), Do("create")}
        /\ Len(Acquire) = 3 /\ Acquire[1] # Do("create") /\ Acquire[2] # Do("create")
      BY Plans, ShortPlans DEF Tell, Do
  <2>4. "sandbox" \in Kind /\ "worktree" \in Kind /\ Scoped = {"sandbox", "worktree"}
      BY DEF Kind, Scoped
  <2>5. ScriptIsOrderly(r)'
      BY <2>2, <2>3 DEF ScriptIsOrderly
  <2>6. AcquisitionIsTold(r)'
      BY <2>2, <2>3, <2>4 DEF AcquisitionIsTold
  <2>7. ReplyIsCurrent(r)'
      BY <2>2 DEF ReplyIsCurrent
  <2>8. ~SaysReleased(r, "sandbox")' /\ ~SaysReleased(r, "worktree")'
    <3>1. \A e \in StepsOf(Acquire) : e.op # "closed" /\ \A k \in Scoped : e # Tell("released", k)
        BY <2>3 DEF Tell, Do
    <3>2. StepsOf(frames'[r]) = {}
        BY <2>2, ShortPlans
    <3> QED
        BY <2>2, <2>4, <3>1, <3>2 DEF SaysReleased
  <2> QED
      BY <2>2, <2>5, <2>6, <2>7, <2>8 DEF ExecutionInv, ReleaseIsTrue
<1> QED
    BY <1>3, <1>4, <1>5

LEMMA StillQuiet ==
    ASSUME RecoveryTypeOK, \A x \in Execution : ExecutionInv(x), UNCHANGED resourceVars,
           \A r \in Runner : stage'[r] = "none" => stage[r] = "none"
    PROVE  ResourceTypeOK' /\ \A x \in Execution : ExecutionInv(x)'
<1>1. UNCHANGED <<lease, registry, box, tree, script, tries, replied, alive, frames, reading>>
    BY DEF resourceVars, providerVars, runnerVars
<1>2. ASSUME NEW x \in Execution
      PROVE  Quiet(x)
    BY <1>1 DEF Quiet, ExecutionInv, ScriptIsOrderly
<1> QED
    BY <1>1, <1>2, QuietKeeps DEF RecoveryTypeOK, ResourceTypeOK

LEMMA DieKeeps ==
    ASSUME RecoveryTypeOK, \A x \in Execution : ExecutionInv(x),
           NEW s \in Runner, Die(s), UNCHANGED <<lease, providerVars, frames, reading>>,
           \A r \in Runner : stage'[r] = "none" => stage[r] = "none"
    PROVE  /\ ResourceTypeOK' /\ \A x \in Execution : ExecutionInv(x)'
           /\ alive' = alive \ {s}
<1>1. /\ alive' = alive \ {s} /\ replied' = replied \ {s}
      /\ script' = [x \in Execution |-> IF x = s THEN <<>> ELSE script[x]]
      /\ tries' = [x \in Execution |-> IF x = s THEN 0 ELSE tries[x]]
      /\ UNCHANGED <<lease, registry, box, tree, frames, reading>>
    BY DEF Die, providerVars
<1>2. <<>> \in Seq(Step)
    OBVIOUS
<1>3. ResourceTypeOK'
    BY <1>1, <1>2 DEF RecoveryTypeOK, ResourceTypeOK
<1>4. ASSUME NEW x \in Execution
      PROVE  Quiet(x)
    BY <1>1 DEF Quiet, ExecutionInv, ScriptIsOrderly, RecoveryTypeOK
<1> QED
    BY <1>1, <1>3, <1>4, QuietKeeps

(* What reconciliation makes of the leases of a runner.                    *)
LEMMA ReconciledLeases ==
    ASSUME RecoveryTypeOK, NEW r \in Runner
    PROVE  /\ Reconciled(r) \in [Leases -> LeaseStates]
           /\ \A x \in Execution, k \in Kind :
                 \/ Reconciled(r)[<<x, k>>] = lease[<<x, k>>]
                 \/ /\ x = r /\ lease[<<x, k>>] # "none" /\ Reconciled(r)[<<x, k>>] # "none"
                    /\ Reconciled(r)[<<x, k>>] = "released" =>
                          \/ registry[<<x, k>>] = "released"
                          \/ k = "worktree" /\ tree[x] = "absent"
           /\ \A s \in Runner : AllReleased(lease, s) =>
                 \A l \in Leases : l[1] = s => Reconciled(r)[l] = lease[l]
<1>1. \A l \in Leases : Observed(l) \in {"unresolved", "released", "preserved"}
    BY DEF Observed
<1>2. Reconciled(r) \in [Leases -> LeaseStates]
    BY <1>1 DEF Reconciled, RecoveryTypeOK, ResourceTypeOK, LeaseStates
<1>3. ASSUME NEW x \in Execution, NEW k \in Kind
      PROVE  \/ Reconciled(r)[<<x, k>>] = lease[<<x, k>>]
             \/ /\ x = r /\ lease[<<x, k>>] # "none" /\ Reconciled(r)[<<x, k>>] # "none"
                /\ Reconciled(r)[<<x, k>>] = "released" =>
                      \/ registry[<<x, k>>] = "released"
                      \/ k = "worktree" /\ tree[x] = "absent"
  <2>1. <<x, k>> \in Leases
      BY DEF Leases
  <2>2. Observed(<<x, k>>) = "released" => \/ registry[<<x, k>>] = "released"
                                           \/ k = "worktree" /\ tree[x] = "absent"
      BY DEF Observed
  <2>3. Observed(<<x, k>>) # "none"
      BY <1>1, <2>1
  <2>4. Reconciled(r)[<<x, k>>] =
            IF x = r /\ lease[<<x, k>>] \in Open THEN Observed(<<x, k>>) ELSE lease[<<x, k>>]
      BY <2>1 DEF Reconciled
  <2> QED
      BY <2>2, <2>3, <2>4 DEF Open
<1>4. \A s \in Runner : AllReleased(lease, s) =>
          \A l \in Leases : l[1] = s => Reconciled(r)[l] = lease[l]
    BY DEF AllReleased, Reconciled, Open
<1> QED
    BY <1>2, <1>3, <1>4

LEMMA ReconcileKeeps ==
    ASSUME RecoveryTypeOK, \A x \in Execution : ExecutionInv(x),
           lease' = lease \/ \E r \in Runner : r \notin alive /\ lease' = Reconciled(r),
           UNCHANGED <<providerVars, runnerVars, frames, reading>>,
           \A s \in Runner : stage'[s] = "none" => stage[s] = "none"
    PROVE  /\ ResourceTypeOK' /\ \A x \in Execution : ExecutionInv(x)'
           /\ \A s \in Runner : AllReleased(lease, s) =>
                 \A l \in Leases : l[1] = s => lease'[l] = lease[l]
<1>1. CASE lease' = lease
    BY <1>1, StillQuiet DEF resourceVars
<1>2. ASSUME NEW r \in Runner, r \notin alive, lease' = Reconciled(r)
      PROVE  /\ ResourceTypeOK' /\ \A x \in Execution : ExecutionInv(x)'
             /\ \A s \in Runner : AllReleased(lease, s) =>
                   \A l \in Leases : l[1] = s => lease'[l] = lease[l]
  <2>1. UNCHANGED <<registry, box, tree, script, tries, replied, alive, frames, reading>>
      BY DEF providerVars, runnerVars
  <2>2. /\ lease' \in [Leases -> LeaseStates]
        /\ \A s \in Runner : AllReleased(lease, s) =>
              \A l \in Leases : l[1] = s => lease'[l] = lease[l]
      BY <1>2, ReconciledLeases
  <2>3. ASSUME NEW x \in Execution
        PROVE  Quiet(x)
    <3>1. \A k \in Kind :
              \/ lease'[<<x, k>>] = lease[<<x, k>>]
              \/ /\ x = r /\ lease[<<x, k>>] # "none" /\ lease'[<<x, k>>] # "none"
                 /\ lease'[<<x, k>>] = "released" =>
                       \/ registry[<<x, k>>] = "released"
                       \/ k = "worktree" /\ tree[x] = "absent"
        BY <1>2, ReconciledLeases
    <3>2. x = r => script[x] = <<>>
        BY <1>2 DEF ExecutionInv, ScriptIsOrderly
    <3> QED
        BY <2>1, <3>1, <3>2 DEF Quiet, ExecutionInv, ScriptIsOrderly
  <2> QED
      BY <2>1, <2>2, <2>3, QuietKeeps DEF RecoveryTypeOK, ResourceTypeOK
<1> QED
    BY <1>1, <1>2

-----------------------------------------------------------------------------
(* The row of the Project.                                                 *)

RowType == [cycle : 1 .. MaxCycle, attempts : 0 .. Delays,
            state : {"healthy", "recovering", "held"},
            safety : {"safe", "pending", "uncertain"},
            failing : BOOLEAN, prior : Runner \cup {NoRunner},
            confirmed : BOOLEAN, due : BOOLEAN]

LEMMA RowChanges ==
    ASSUME RecoveryTypeOK
    PROVE  /\ row \in RowType
           /\ \A r \in Runner : Failed(r) \in RowType /\ Failed(r).safety = "pending"
                                /\ Failed(r).prior = r
           /\ \A safe \in BOOLEAN : /\ Judged(safe) \in RowType /\ Judged(safe).prior = row.prior
                                    /\ Judged(safe).safety = "safe" <=> safe
           /\ Uncertain \in RowType /\ Uncertain.safety = "uncertain" /\ Uncertain.prior = row.prior
           /\ \A succeeded \in BOOLEAN : \A new \in SeenHealthy(succeeded) :
                 /\ new \in RowType
                 /\ \/ new.safety = row.safety /\ new.prior = row.prior
                    \/ new.safety = "safe" /\ new.prior = NoRunner
<1>1. row \in RowType
    BY DEF RecoveryTypeOK, RowType
<1>2. ASSUME NEW r \in Runner
      PROVE  Failed(r) \in RowType /\ Failed(r).safety = "pending" /\ Failed(r).prior = r
  <2> DEFINE a == IF row.attempts < Delays THEN row.attempts + 1 ELSE row.attempts
             t == IF row.attempts < Delays THEN "recovering" ELSE "held"
  <2>1. a \in 0 .. Delays /\ t \in {"recovering", "held"}
      BY <1>1 DEF RowType
  <2>2. Failed(r) = [row EXCEPT !.attempts = a, !.state = t, !.safety = "pending", !.failing = TRUE,
                                !.prior = r, !.confirmed = FALSE, !.due = FALSE]
      BY DEF Failed
  <2> HIDE DEF a, t
  <2> QED
      BY <1>1, <2>1, <2>2 DEF RowType
<1>3. ASSUME NEW safe \in BOOLEAN
      PROVE  /\ Judged(safe) \in RowType /\ Judged(safe).prior = row.prior
             /\ Judged(safe).safety = "safe" <=> safe
  <2>1. CASE safe
      BY <1>1, <2>1 DEF Judged, RowType
  <2>2. CASE ~safe
      BY <1>1, <2>2 DEF Judged, RowType
  <2> QED
      BY <2>1, <2>2
<1>4. Uncertain \in RowType /\ Uncertain.safety = "uncertain" /\ Uncertain.prior = row.prior
    BY <1>1 DEF Uncertain, RowType
<1>5. ASSUME NEW succeeded \in BOOLEAN, NEW new \in SeenHealthy(succeeded)
      PROVE  /\ new \in RowType
             /\ \/ new.safety = row.safety /\ new.prior = row.prior
                \/ new.safety = "safe" /\ new.prior = NoRunner
  <2>1. \/ new = row
        \/ new = [row EXCEPT !.failing = @ /\ ~succeeded]
        \/ new = [Healthy EXCEPT !.cycle = row.cycle]
      BY DEF SeenHealthy
  <2>2. CASE new = row
      BY <1>1, <2>2
  <2>3. CASE new = [row EXCEPT !.failing = @ /\ ~succeeded]
    <3> DEFINE b == row.failing /\ ~succeeded
    <3>1. b \in BOOLEAN
        OBVIOUS
    <3>2. new = [row EXCEPT !.failing = b]
        BY <2>3
    <3> HIDE DEF b
    <3> QED
        BY <1>1, <3>1, <3>2 DEF RowType
  <2>4. CASE new = [Healthy EXCEPT !.cycle = row.cycle]
    <3>1. Healthy \in RowType /\ Healthy.safety = "safe" /\ Healthy.prior = NoRunner
        BY DEF RowType, Healthy
    <3> QED
        BY <1>1, <2>4, <3>1 DEF RowType
  <2> QED
      BY <2>1, <2>2, <2>3, <2>4
<1> QED
    BY <1>1, <1>2, <1>3, <1>4, <1>5

LEMMA StageChanges ==
    ASSUME RecoveryTypeOK, NEW r \in Runner
    PROVE  /\ \A s \in Stages : s # "none" /\ Becoming(r, s) =>
                 /\ stage' \in [Runner -> Stages]
                 /\ \A q \in Runner : stage'[q] = "none" => stage[q] = "none"
           /\ stage' = Interrupted(r) =>
                 /\ stage' \in [Runner -> Stages]
                 /\ \A q \in Runner : stage'[q] = "none" => stage[q] = "none"
BY DEF RecoveryTypeOK, Becoming, Interrupted, Stages

(* A recovery that is safe stays so as long as nothing of its runner       *)
(* changes: no process of it starts, no frame of it comes, no proof of it  *)
(* is withdrawn and no lease of it is opened.                              *)
LEMMA SafeStays ==
    ASSUME RecoveryTypeOK, SafeIsReconciled,
           row'.safety = "safe" /\ row'.prior # NoRunner
               => row.safety = "safe" /\ row'.prior = row.prior,
           row'.prior \in Runner \cup {NoRunner},
           \A r \in Runner :
               /\ r \in alive' => r \in alive \/ r # row.prior
               /\ proof[r] # "none" => proof'[r] # "none",
           \A x \in Execution :
               x = row.prior /\ Drained(x) => (x \in reading' => x \in reading)
                                              /\ (frames'[x] = frames[x] \/ frames'[x] = <<>>),
           \A s \in Runner : s = row.prior /\ proof[s] # "none" /\ s \notin alive
                             /\ Drained(s) /\ AllReleased(lease, s) =>
                 \A l \in Leases : l[1] = s => lease'[l] = lease[l],
           reading' \subseteq Execution
    PROVE  SafeIsReconciled'
<1> SUFFICES ASSUME row'.safety = "safe", row'.prior # NoRunner
             PROVE  /\ row'.prior \notin alive' /\ Drained(row.prior)'
                    /\ proof'[row.prior] # "none" /\ row'.prior = row.prior
                    /\ AllReleased(lease', row.prior)
    BY DEF SafeIsReconciled, Drained
<1>1. /\ row'.prior = row.prior /\ row.prior \in Runner
      /\ row.prior \notin alive /\ Drained(row.prior) /\ proof[row.prior] # "none"
      /\ AllReleased(lease, row.prior)
    BY DEF SafeIsReconciled
<1>2. row.prior \notin alive' /\ proof'[row.prior] # "none"
    BY <1>1
<1>3. Drained(row.prior)'
    BY <1>1 DEF Drained
<1>4. AllReleased(lease', row.prior)
    BY <1>1 DEF AllReleased
<1> QED
    BY <1>1, <1>2, <1>3, <1>4

-----------------------------------------------------------------------------
(* Every step keeps the invariant.                                         *)

(* What RecoveryTypeOK says besides the resources.                         *)
RestTypeOK ==
    /\ up \in BOOLEAN /\ row \in RowType
    /\ proof \in [Runner -> {"none", "loss", "cancel"}]
    /\ handle \in Runner \cup {NoRunner} /\ stage \in [Runner -> Stages]
    /\ cancels \subseteq Execution /\ crashes \in 0 .. MaxCrashes

LEMMA TypesApart ==
    /\ RecoveryTypeOK <=> ResourceTypeOK /\ RestTypeOK
    /\ RecoveryTypeOK' <=> ResourceTypeOK' /\ RestTypeOK'
BY DEF RecoveryTypeOK, RestTypeOK, RowType

LEMMA ChannelStep ==
    ASSUME RecoveryInv, NEW x \in Execution, Channel(x)
    PROVE  RecoveryInv'
<1>1. /\ RecoveryTypeOK /\ RowInv /\ ExecutionInv(x)
      /\ RunnerStep(x) \/ AgentWrites(x) \/ Handle(x)
      /\ UNCHANGED <<up, row, proof, handle, stage, cancels, crashes>>
    BY DEF RecoveryInv, Channel, recoveryVars
<1>2. ResourceTypeOK' /\ Apart(x) /\ ExecutionInv(x)'
    BY <1>1, ChannelKeeps DEF Kept
<1>3. RecoveryTypeOK'
    BY <1>1, <1>2, TypesApart DEF RestTypeOK
<1>4. \A y \in Execution : ExecutionInv(y)'
    BY <1>1, <1>2, ApartKeeps DEF RecoveryInv
<1>5. alive' = alive /\ reading' \subseteq reading
  <2>1. CASE RunnerStep(x)
      BY <2>1
      DEF RunnerStep, Send, Committed, GiveUp, Create, Made, Invoke, Ask, LeaveScope, Look, Close,
          Closed
  <2>2. CASE AgentWrites(x)
      BY <2>2 DEF AgentWrites, runnerVars
  <2>3. CASE Handle(x)
    <3>1. alive' = alive /\ (reading' = reading \/ reading' = reading \ {x})
        BY <2>3 DEF Handle
    <3> QED
        BY <3>1
  <2> QED
      BY <1>1, <2>1, <2>2, <2>3
<1>6. SafeIsReconciled'
  <2>1. ASSUME row.prior = x, x \notin alive, Drained(x)
        PROVE  frames' = frames /\ lease' = lease
    <3>1. AgentWrites(x)
        BY <1>1, <2>1
        DEF RunnerStep, Handle, Drained, Send, Committed, GiveUp, Create, Made, Invoke, Ask,
            LeaveScope, Look, Close, Closed, At, Telling
    <3> QED
        BY <3>1 DEF AgentWrites
  <2>2. \A s \in Runner : s = row.prior /\ s \notin alive /\ Drained(s) =>
            /\ \A l \in Leases : l[1] = s => lease'[l] = lease[l]
            /\ s \in Execution => frames'[s] = frames[s]
    <3> SUFFICES ASSUME row.prior \in Runner, row.prior \notin alive, Drained(row.prior)
                 PROVE  /\ \A l \in Leases : l[1] = row.prior => lease'[l] = lease[l]
                        /\ row.prior \in Execution => frames'[row.prior] = frames[row.prior]
        OBVIOUS
    <3>1. CASE row.prior = x
        BY <2>1, <3>1
    <3>2. CASE row.prior # x
      <4>1. ASSUME NEW l \in Leases, l[1] = row.prior
            PROVE  lease'[l] = lease[l]
        <5>1. l[1] \in Execution /\ l[2] \in Kind /\ l = <<l[1], l[2]>>
            BY DEF Leases
        <5> QED
            BY <1>2, <3>2, <4>1, <5>1 DEF Apart
      <4> QED
          BY <1>2, <3>2, <4>1 DEF Apart
    <3> QED
        BY <3>1, <3>2
  <2>3. \A z \in Execution : z = row.prior /\ Drained(z) /\ z \notin alive
            => frames'[z] = frames[z]
      BY <2>2
  <2> SUFFICES ASSUME row.safety = "safe", row.prior # NoRunner
               PROVE  /\ row.prior \notin alive' /\ Drained(row.prior)'
                      /\ proof'[row.prior] # "none" /\ AllReleased(lease', row.prior)
      BY <1>1 DEF SafeIsReconciled, Drained
  <2>4. /\ row.prior \in Runner /\ row.prior \notin alive /\ Drained(row.prior)
        /\ proof[row.prior] # "none" /\ AllReleased(lease, row.prior)
      BY <1>1, TypesApart DEF RowInv, SafeIsReconciled, RestTypeOK, RowType
  <2>5. Drained(row.prior)'
    <3>1. reading \subseteq Execution
        BY <1>1 DEF RecoveryTypeOK, ResourceTypeOK
    <3> QED
        BY <1>1, <1>5, <2>2, <2>4, <3>1 DEF Drained
  <2> QED
      BY <1>1, <1>5, <2>2, <2>4, <2>5 DEF AllReleased
<1>7. RowInv'
    BY <1>1, <1>5, <1>6 DEF RowInv
<1> QED
    BY <1>3, <1>4, <1>7 DEF RecoveryInv

(* A step that leaves the resources, the owner of the place and the proofs *)
(* alone, and does not make the row safe.                                  *)
LEMMA StillStep ==
    ASSUME RecoveryInv, UNCHANGED <<resourceVars, up, proof, cancels, crashes>>,
           handle' = handle, row' \in RowType,
           row'.safety = "safe" => row.safety = "safe",
           row'.safety = "safe" /\ row'.prior # NoRunner => row'.prior = row.prior,
           row'.safety # "safe" => row'.prior \in Runner,
           row'.prior \in Runner => stage'[row'.prior] # "none",
           stage' \in [Runner -> Stages],
           \A q \in Runner : stage'[q] = "none" => stage[q] = "none"
    PROVE  RecoveryInv'
<1>1. ResourceTypeOK' /\ \A x \in Execution : ExecutionInv(x)'
    BY StillQuiet DEF RecoveryInv
<1>2. RecoveryTypeOK'
    BY <1>1, TypesApart DEF RestTypeOK, RecoveryInv
<1>3. UNCHANGED <<lease, frames, reading, alive>>
    BY DEF resourceVars, runnerVars
<1>4. SafeIsReconciled'
  <2> SUFFICES ASSUME row'.safety = "safe", row'.prior # NoRunner
               PROVE  /\ row'.prior \notin alive' /\ Drained(row.prior)'
                      /\ proof'[row'.prior] # "none" /\ AllReleased(lease', row'.prior)
      BY DEF SafeIsReconciled, Drained, AllReleased
  <2>1. row'.prior = row.prior /\ proof' = proof
      OBVIOUS
  <2>2. /\ row.prior \notin alive /\ Drained(row.prior)
        /\ proof[row.prior] # "none" /\ AllReleased(lease, row.prior)
      BY <2>1 DEF RecoveryInv, RowInv, SafeIsReconciled
  <2> QED
      BY <1>3, <2>1, <2>2 DEF Drained, AllReleased
<1>5. \A x \in cancels : stage[x] # "none" => stage'[x] # "none"
    BY DEF RecoveryInv, RecoveryTypeOK
<1>6. RowInv'
    BY <1>3, <1>4, <1>5 DEF RowInv, RecoveryInv
<1> QED
    BY <1>1, <1>2, <1>6 DEF RecoveryInv

\* What the steps of the row ask of it.
RowGoesOn ==
    /\ row' \in RowType
    /\ row'.safety = "safe" => row.safety = "safe"
    /\ row'.safety = "safe" /\ row'.prior # NoRunner => row'.prior = row.prior
    /\ row'.safety # "safe" => row'.prior \in Runner
    /\ row'.prior \in Runner => row'.prior = row.prior \/ stage'[row'.prior] # "none"

LEMMA RowFacts ==
    ASSUME RecoveryInv
    PROVE  /\ RecoveryTypeOK /\ RowInv /\ row \in RowType
           /\ row' = row => RowGoesOn
           /\ \A succeeded \in BOOLEAN : row' \in SeenHealthy(succeeded) => RowGoesOn
           /\ \A q \in Runner : stage[q] \in Stages
<1>1. RecoveryTypeOK /\ RowInv /\ row \in RowType
    BY TypesApart DEF RecoveryInv, RestTypeOK
<1>2. row' = row => RowGoesOn
    BY <1>1 DEF RowInv, RowGoesOn
<1>3. ASSUME NEW succeeded \in BOOLEAN, row' \in SeenHealthy(succeeded)
      PROVE  RowGoesOn
  <2>1. /\ row' \in RowType
        /\ \/ row'.safety = row.safety /\ row'.prior = row.prior
           \/ row'.safety = "safe" /\ row'.prior = NoRunner
      BY <1>1, <1>3, RowChanges
  <2>2. row'.safety = "safe" => row.safety = "safe"
      BY <1>3, <2>1 DEF SeenHealthy
  <2> QED
      BY <1>1, <2>1, <2>2 DEF RowInv, RowGoesOn
<1> QED
    BY <1>1, <1>2, <1>3 DEF RecoveryTypeOK

LEMMA RowStep ==
    ASSUME RecoveryInv, UNCHANGED <<resourceVars, up, proof, handle, cancels, crashes>>, RowGoesOn,
           \/ stage' = stage
           \/ \E r \in Runner, s \in Stages : s # "none" /\ Becoming(r, s)
    PROVE  RecoveryInv'
<1>1. /\ stage' \in [Runner -> Stages]
      /\ \A q \in Runner : stage'[q] = "none" => stage[q] = "none"
    BY RowFacts, StageChanges DEF RecoveryTypeOK
<1>2. row'.prior \in Runner => stage'[row'.prior] # "none"
    BY <1>1, RowFacts DEF RowGoesOn, RowInv
<1> QED
    BY <1>1, <1>2, StillStep DEF RowGoesOn

LEMMA RowStepsKeep ==
    ASSUME RecoveryInv, Repair \/ DelayEnds \/ Heartbeat
    PROVE  RecoveryInv'
<1>1. CASE Repair
  <2>1. /\ row' = [row EXCEPT !.cycle = @ + 1, !.attempts = 0, !.state = "recovering", !.due = TRUE]
        /\ row.cycle < MaxCycle /\ stage' = stage
        /\ UNCHANGED <<resourceVars, up, proof, handle, cancels, crashes>>
      BY <1>1 DEF Repair
  <2>2. row.cycle + 1 \in 1 .. MaxCycle /\ 0 \in 0 .. Delays
      BY <2>1, RowFacts DEF RowType
  <2>3. row' \in RowType /\ row'.safety = row.safety /\ row'.prior = row.prior
      BY <2>1, <2>2, RowFacts DEF RowType
  <2> QED
      BY <2>1, <2>3, RowFacts, RowStep DEF RowGoesOn, RowInv
<1>2. CASE DelayEnds
  <2>1. /\ row' = [row EXCEPT !.due = TRUE] /\ stage' = stage
        /\ UNCHANGED <<resourceVars, up, proof, handle, cancels, crashes>>
      BY <1>2 DEF DelayEnds
  <2>2. row' \in RowType /\ row'.safety = row.safety /\ row'.prior = row.prior
      BY <2>1, RowFacts DEF RowType
  <2> QED
      BY <2>1, <2>2, RowFacts, RowStep DEF RowGoesOn, RowInv
<1>3. CASE Heartbeat
  <2>1. /\ row' \in SeenHealthy(FALSE) /\ stage' = stage
        /\ UNCHANGED <<resourceVars, up, proof, handle, cancels, crashes>>
      BY <1>3 DEF Heartbeat
  <2> QED
      BY <2>1, RowFacts, RowStep
<1> QED
    BY <1>1, <1>2, <1>3

LEMMA LossStepsKeep ==
    ASSUME RecoveryInv, NEW r \in Runner, RecordLoss(r) \/ StopFails(r) \/ Recovered(r)
    PROVE  RecoveryInv'
<1>1. UNCHANGED <<resourceVars, up, proof, handle, cancels, crashes>>
    BY DEF RecordLoss, StopFails, Recovered
<1>2. /\ r # NoRunner /\ RecoveryTypeOK
      /\ Failed(r) \in RowType /\ Failed(r).safety = "pending" /\ Failed(r).prior = r
      /\ Uncertain \in RowType /\ Uncertain.safety = "uncertain" /\ Uncertain.prior = row.prior
    BY RowFacts, RowChanges
<1>3. CASE RecordLoss(r)
  <2>1. row' = Failed(r) /\ Becoming(r, "recorded") /\ stage[r] = "lost"
      BY <1>3 DEF RecordLoss
  <2>2. stage'[r] # "none"
      BY <1>2, <2>1 DEF RecoveryTypeOK, Becoming
  <2> QED
    <3>1. RowGoesOn
        BY <1>2, <2>1, <2>2 DEF RowGoesOn
    <3> QED
        BY <1>1, <2>1, <3>1, RowStep DEF Stages
<1>4. CASE StopFails(r)
  <2>1. Becoming(r, "held") \/ Becoming(r, "failed")
    <3>1. Becoming(r, IF row.prior = r THEN "held" ELSE "failed")
        BY <1>4 DEF StopFails
    <3> QED
        BY <3>1
  <2>2. row' = row \/ (row' = Uncertain /\ row.prior = r)
      BY <1>4 DEF StopFails
  <2>3. RowGoesOn
      BY <1>2, <2>2, RowFacts DEF RowGoesOn
  <2> QED
      BY <1>1, <2>1, <2>3, RowStep DEF Stages
<1>5. CASE Recovered(r)
    BY <1>1, <1>5, RowFacts, RowStep DEF Recovered, Stages
<1> QED
    BY <1>3, <1>4, <1>5

(* A step in which a runner dies.                                          *)
LEMMA DyingStep ==
    ASSUME RecoveryInv, NEW s \in Runner, Die(s),
           UNCHANGED <<lease, providerVars, frames, reading, up, proof, crashes>>,
           RowGoesOn, handle' \in Runner \cup {NoRunner},
           cancels' \subseteq Execution,
           \A x \in cancels' : x \in cancels \/ (x = s /\ stage'[s] # "none"),
           stage' \in [Runner -> Stages],
           \A q \in Runner : stage'[q] = "none" => stage[q] = "none"
    PROVE  RecoveryInv'
<1>1. /\ ResourceTypeOK' /\ \A x \in Execution : ExecutionInv(x)'
      /\ alive' = alive \ {s}
    BY DieKeeps DEF RecoveryInv
<1>2. RecoveryTypeOK'
    BY <1>1, TypesApart DEF RestTypeOK, RecoveryInv, RowGoesOn
<1>3. SafeIsReconciled'
  <2> SUFFICES ASSUME row'.safety = "safe", row'.prior # NoRunner
               PROVE  /\ row'.prior \notin alive' /\ Drained(row.prior)'
                      /\ proof'[row'.prior] # "none" /\ AllReleased(lease', row'.prior)
                      /\ row'.prior = row.prior
      BY DEF SafeIsReconciled, Drained, AllReleased
  <2>1. row'.prior = row.prior /\ row.safety = "safe"
      BY DEF RowGoesOn
  <2>2. /\ row.prior \notin alive /\ Drained(row.prior)
        /\ proof[row.prior] # "none" /\ AllReleased(lease, row.prior)
      BY <2>1 DEF RecoveryInv, RowInv, SafeIsReconciled
  <2> QED
      BY <1>1, <2>1, <2>2 DEF Drained, AllReleased
<1>4. RowInv'
  <2>1. row'.prior \in Runner => stage'[row'.prior] # "none"
      BY DEF RowGoesOn, RecoveryInv, RowInv
  <2>2. ~up' => alive' = {} /\ reading' = {}
      BY <1>1 DEF RecoveryInv, RowInv
  <2>3. \A x \in cancels' : x \notin alive' /\ stage'[x] # "none"
      BY <1>1 DEF RecoveryInv, RowInv
  <2> QED
      BY <1>3, <2>1, <2>2, <2>3 DEF RowInv, RowGoesOn
<1> QED
    BY <1>1, <1>2, <1>4 DEF RecoveryInv

LEMMA DyingStepsKeep ==
    ASSUME RecoveryInv,
           \/ \E r \in Runner : Replace(r) \/ StopLost(r)
           \/ \E x \in Execution : Finish(x) \/ ForceCancel(x)
    PROVE  RecoveryInv'
<1>1. RecoveryTypeOK /\ handle \in Runner \cup {NoRunner} /\ cancels \subseteq Execution
      /\ stage \in [Runner -> Stages] /\ Execution \subseteq Runner
    BY RowFacts DEF RecoveryTypeOK
<1>2. ASSUME NEW r \in Runner, Replace(r)
      PROVE  RecoveryInv'
  <2>1. /\ handle \in Runner /\ Die(handle) /\ stage' = Interrupted(handle) /\ handle' = NoRunner
        /\ UNCHANGED <<lease, providerVars, frames, reading, up, row, proof, cancels, crashes>>
      BY <1>1, <1>2 DEF Replace
  <2>2. /\ stage' \in [Runner -> Stages]
        /\ \A q \in Runner : stage'[q] = "none" => stage[q] = "none"
      BY <1>1, <2>1, StageChanges
  <2>3. RowGoesOn
      BY <2>1, RowFacts
  <2> QED
      BY <1>1, <2>1, <2>2, <2>3, DyingStep
<1>3. ASSUME NEW r \in Runner, StopLost(r)
      PROVE  RecoveryInv'
  <2>1. PICK s \in Runner :
            /\ Die(s) /\ stage' = Interrupted(s)
            /\ handle' = IF handle = s THEN NoRunner ELSE handle
      BY <1>1, <1>3 DEF StopLost
  <2>2. UNCHANGED <<lease, providerVars, frames, reading, up, row, proof, cancels, crashes>>
      BY <1>3 DEF StopLost
  <2>3. handle' \in Runner \cup {NoRunner}
      BY <1>1, <2>1
  <2>4. /\ stage' \in [Runner -> Stages]
        /\ \A q \in Runner : stage'[q] = "none" => stage[q] = "none"
      BY <1>1, <2>1, StageChanges
  <2>5. RowGoesOn
      BY <2>2, RowFacts
  <2> QED
      BY <1>1, <2>1, <2>2, <2>3, <2>4, <2>5, DyingStep
<1>4. ASSUME NEW x \in Execution, Finish(x)
      PROVE  RecoveryInv'
  <2>1. /\ Die(x) /\ Becoming(x, "ended") /\ handle' = NoRunner
        /\ row' \in SeenHealthy(TRUE) \/ row' = row
        /\ UNCHANGED <<lease, providerVars, frames, reading, up, proof, cancels, crashes>>
      BY <1>4 DEF Finish
  <2>2. RowGoesOn
      BY <2>1, RowFacts
  <2>3. /\ stage' \in [Runner -> Stages]
        /\ \A q \in Runner : stage'[q] = "none" => stage[q] = "none"
      BY <1>1, <2>1, StageChanges DEF Stages
  <2>4. x \in Runner /\ cancels' = cancels
      BY <1>1, <2>1
  <2>5. cancels' \subseteq Execution /\ \A y \in cancels' : y \in cancels
      BY <1>1, <2>4
  <2> QED
      BY <2>1, <2>2, <2>3, <2>4, <2>5, DyingStep
<1>5. ASSUME NEW x \in Execution, ForceCancel(x)
      PROVE  RecoveryInv'
  <2>1. /\ Die(x) /\ Becoming(x, "lost") /\ handle' = NoRunner
        /\ row' = row /\ cancels' = cancels \cup {x}
        /\ UNCHANGED <<lease, providerVars, frames, reading, up, proof, crashes>>
      BY <1>5 DEF ForceCancel
  <2>2. RowGoesOn
      BY <2>1, RowFacts
  <2>3. /\ stage' \in [Runner -> Stages]
        /\ \A q \in Runner : stage'[q] = "none" => stage[q] = "none"
      BY <1>1, <2>1, StageChanges DEF Stages
  <2>4. x \in Runner /\ cancels' \subseteq Execution /\ stage'[x] # "none"
      BY <1>1, <2>1 DEF Becoming
  <2> QED
      BY <1>1, <2>1, <2>2, <2>3, <2>4, DyingStep
<1> QED
    BY <1>2, <1>3, <1>4, <1>5

(* The process dies, or only its channel does.                             *)
LEMMA LoseKeeps ==
    ASSUME RecoveryInv, NEW r \in Runner, Lose(r)
    PROVE  RecoveryInv'
<1>1. /\ Becoming(r, "lost")
      /\ UNCHANGED <<lease, providerVars, up, row, proof, handle, cancels, crashes>>
    BY DEF Lose
<1>2. /\ stage' \in [Runner -> Stages]
      /\ \A q \in Runner : stage'[q] = "none" => stage[q] = "none"
    BY <1>1, RowFacts, StageChanges DEF Stages
<1>3. CASE Die(r) /\ UNCHANGED <<frames, reading>>
  <2>1. /\ handle' \in Runner \cup {NoRunner} /\ cancels' \subseteq Execution
        /\ \A x \in cancels' : x \in cancels
      BY <1>1, RowFacts DEF RecoveryTypeOK
  <2>2. RowGoesOn
      BY <1>1, RowFacts
  <2> QED
      BY <1>1, <1>2, <1>3, <2>1, <2>2, DyingStep
<1>4. CASE /\ reading' = reading \ {r}
           /\ frames' = [x \in Execution |-> IF x = r THEN <<>> ELSE frames[x]]
           /\ UNCHANGED runnerVars
  <2>1. UNCHANGED <<lease, registry, box, tree, script, tries, replied, alive>>
      BY <1>1, <1>4 DEF providerVars, runnerVars
  <2>2. ASSUME NEW x \in Execution
        PROVE  Quiet(x)
      BY <1>2, <1>4, <2>1 DEF RecoveryInv, Quiet, ExecutionInv, ScriptIsOrderly, RecoveryTypeOK
  <2>3. \A x \in Execution : ExecutionInv(x)'
      BY <2>2, QuietKeeps DEF RecoveryInv
  <2>4. <<>> \in Seq(Told)
      OBVIOUS
  <2>5. RecoveryTypeOK'
    <3>1. frames' \in [Execution -> Seq(Told)] /\ reading' \subseteq Execution
        BY <1>4, <2>4, RowFacts DEF RecoveryTypeOK, ResourceTypeOK
    <3> QED
        BY <1>1, <1>2, <2>1, <3>1, RowFacts DEF RecoveryTypeOK, ResourceTypeOK
  <2>6. SafeIsReconciled'
    <3> SUFFICES ASSUME row.safety = "safe", row.prior # NoRunner
                 PROVE  /\ row.prior \notin alive' /\ Drained(row.prior)'
                        /\ proof'[row.prior] # "none" /\ AllReleased(lease', row.prior)
        BY <1>1 DEF SafeIsReconciled, Drained, AllReleased
    <3>1. /\ row.prior \notin alive /\ Drained(row.prior)
          /\ proof[row.prior] # "none" /\ AllReleased(lease, row.prior)
        BY DEF RecoveryInv, RowInv, SafeIsReconciled
    <3>2. Drained(row.prior)'
      <4>1. reading \subseteq Execution
          BY RowFacts DEF RecoveryTypeOK, ResourceTypeOK
      <4> QED
          BY <1>1, <1>4, <3>1, <4>1 DEF Drained
    <3> QED
        BY <1>1, <2>1, <3>1, <3>2
  <2>7. RowInv'
    <3>1. /\ RowInv /\ Execution \subseteq Runner /\ cancels \subseteq Execution
        BY RowFacts DEF RecoveryTypeOK
    <3>2. ~up' => alive' = {} /\ reading' = {}
        BY <1>1, <1>4, <2>1, <3>1 DEF RowInv
    <3>3. \A x \in cancels' : x \notin alive' /\ stage'[x] # "none"
        BY <1>1, <1>2, <2>1, <3>1 DEF RowInv
    <3>4. row'.prior \in Runner => stage'[row'.prior] # "none"
        BY <1>1, <1>2, <3>1 DEF RowInv
    <3> QED
        BY <1>1, <2>6, <3>1, <3>2, <3>3, <3>4 DEF RowInv
  <2> QED
      BY <2>3, <2>5, <2>7 DEF RecoveryInv
<1> QED
    BY <1>3, <1>4 DEF Lose

LEMMA StartKeeps ==
    ASSUME RecoveryInv, NEW r \in Runner, Start(r)
    PROVE  RecoveryInv'
<1>1. /\ up = TRUE /\ stage[r] = "none" /\ Spawn(r) /\ handle' = r /\ Becoming(r, "running")
      /\ UNCHANGED <<up, row, proof, cancels, crashes>>
      /\ alive' = alive \cup {r} /\ reading' = reading \cup ({r} \cap Execution)
      /\ UNCHANGED <<lease, frames>>
    BY RowFacts DEF Start, MayStart, Spawn, RecoveryTypeOK
<1>2. /\ stage' \in [Runner -> Stages]
      /\ \A q \in Runner : stage'[q] = "none" => stage[q] = "none"
    BY <1>1, RowFacts, StageChanges DEF Stages
<1>3. ResourceTypeOK' /\ \A x \in Execution : ExecutionInv(x)'
    BY <1>1, SpawnKeeps DEF RecoveryInv, Becoming
<1>4. RecoveryTypeOK'
    BY <1>1, <1>2, <1>3, TypesApart, RowFacts DEF RestTypeOK
<1>5. row.prior # r
    BY <1>1 DEF RecoveryInv, RowInv
<1>6. SafeIsReconciled'
    BY <1>1, <1>5 DEF RecoveryInv, RowInv, SafeIsReconciled, Drained, AllReleased
<1>7. \A x \in cancels : x \notin alive' /\ stage'[x] # "none"
    BY <1>1, <1>2 DEF RecoveryInv, RowInv, RecoveryTypeOK
<1>8. RowInv'
    BY <1>1, <1>2, <1>6, <1>7 DEF RecoveryInv, RowInv
<1> QED
    BY <1>3, <1>4, <1>8 DEF RecoveryInv

(* A step that proves the end of a runner, or reconciles what it left.     *)
LEMMA ReconcileStep ==
    ASSUME RecoveryInv,
           lease' = lease \/ \E r \in Runner : r \notin alive /\ lease' = Reconciled(r),
           UNCHANGED <<providerVars, runnerVars, frames, reading, handle>>,
           stage' \in [Runner -> Stages],
           \A s \in Runner : stage'[s] = "none" => stage[s] = "none",
           crashes' \in 0 .. MaxCrashes, cancels' \subseteq cancels,
           up' \in BOOLEAN, ~up' => ~up,
           proof' \in [Runner -> {"none", "loss", "cancel"}],
           \A s \in Runner : proof[s] # "none" => proof'[s] # "none",
           row' \in RowType, row'.prior = row.prior,
           row'.safety # "safe" => row.prior \in Runner,
           row'.safety = "safe" /\ row.prior # NoRunner =>
               \/ row.safety = "safe"
               \/ /\ row.prior \notin alive /\ Drained(row.prior)
                  /\ proof'[row.prior] # "none" /\ AllReleased(lease', row.prior)
    PROVE  RecoveryInv'
<1>1. RecoveryTypeOK /\ RowInv /\ row \in RowType
    BY RowFacts
<1>2. /\ ResourceTypeOK' /\ \A x \in Execution : ExecutionInv(x)'
      /\ \A s \in Runner : AllReleased(lease, s) =>
            \A l \in Leases : l[1] = s => lease'[l] = lease[l]
    BY ReconcileKeeps DEF RecoveryInv
<1>3. alive' = alive
    BY DEF runnerVars
<1>4. RecoveryTypeOK'
  <2>1. handle' \in Runner \cup {NoRunner} /\ cancels' \subseteq Execution
      BY <1>1 DEF RecoveryTypeOK
  <2> QED
      BY <1>2, <2>1, TypesApart DEF RestTypeOK
<1>5. SafeIsReconciled'
  <2> SUFFICES ASSUME row'.safety = "safe", row.prior # NoRunner
               PROVE  /\ row.prior \notin alive /\ Drained(row.prior)
                      /\ proof'[row.prior] # "none" /\ AllReleased(lease', row.prior)
      BY <1>3 DEF SafeIsReconciled, Drained, AllReleased
  <2>1. CASE row.safety = "safe"
    <3>1. /\ row.prior \notin alive /\ Drained(row.prior) /\ row.prior \in Runner
          /\ proof[row.prior] # "none" /\ AllReleased(lease, row.prior)
        BY <1>1, <2>1 DEF RowInv, SafeIsReconciled, RowType
    <3> QED
        BY <1>2, <3>1 DEF AllReleased
  <2> QED
      BY <2>1
<1>6. RowInv'
  <2>1. ~up' => alive' = {} /\ reading' = {}
      BY <1>1, <1>3 DEF RowInv
  <2>2. \A x \in cancels' : x \notin alive' /\ stage'[x] # "none"
      BY <1>1, <1>3 DEF RowInv, RecoveryTypeOK
  <2>3. row'.prior \in Runner => stage'[row'.prior] # "none"
      BY <1>1 DEF RowInv
  <2> QED
      BY <1>5, <2>1, <2>2, <2>3 DEF RowInv
<1> QED
    BY <1>2, <1>4, <1>6 DEF RecoveryInv

LEMMA SettleCancelKeeps ==
    ASSUME RecoveryInv, NEW x \in Execution, SettleCancel(x)
    PROVE  RecoveryInv'
<1>1. /\ x \in cancels /\ cancels' \subseteq cancels
      /\ UNCHANGED <<providerVars, runnerVars, frames, reading, up, row, handle, stage, crashes>>
      /\ lease' \in {lease, Reconciled(x)}
      /\ proof' = [proof EXCEPT ![x] = "cancel"] \/ proof' = proof
    BY DEF SettleCancel
<1>2. RecoveryTypeOK /\ RowInv /\ row \in RowType
    BY RowFacts
<1>3. x \in Runner /\ x \notin alive
    BY <1>1, <1>2 DEF RowInv
<1>4. /\ proof' \in [Runner -> {"none", "loss", "cancel"}]
      /\ \A s \in Runner : proof[s] # "none" => proof'[s] # "none"
    BY <1>1, <1>2 DEF RecoveryTypeOK
<1>5. /\ stage' \in [Runner -> Stages] /\ crashes' \in 0 .. MaxCrashes /\ up' \in BOOLEAN
      /\ up' = up /\ stage' = stage /\ row' = row
    BY <1>1, <1>2 DEF RecoveryTypeOK
<1>6. row.safety # "safe" => row.prior \in Runner
    BY <1>2 DEF RowInv
<1> QED
    BY <1>1, <1>2, <1>3, <1>4, <1>5, <1>6, ReconcileStep

LEMMA ProofsStay ==
    ASSUME RecoveryTypeOK, NEW r \in Runner
    PROVE  /\ [proof EXCEPT ![r] = "loss"] \in [Runner -> {"none", "loss", "cancel"}]
           /\ [proof EXCEPT ![r] = "loss"][r] # "none"
           /\ \A s \in Runner : proof[s] # "none" => [proof EXCEPT ![r] = "loss"][s] # "none"
BY DEF RecoveryTypeOK

LEMMA JudgeLossKeeps ==
    ASSUME RecoveryInv, NEW r \in Runner, JudgeLoss(r)
    PROVE  RecoveryInv'
<1>1. /\ up /\ r \notin alive /\ Drained(r)
      /\ UNCHANGED <<providerVars, runnerVars, frames, reading, up, handle, cancels, crashes>>
    BY DEF JudgeLoss, Stopped
<1>2. RecoveryTypeOK /\ RowInv /\ row \in RowType
    BY RowFacts
<1>3. PICK end \in Stages : end # "none" /\ Becoming(r, end)
  <2>1. /\ "failed" \in Stages /\ "held" \in Stages /\ "waiting" \in Stages
      BY DEF Stages
  <2>2. CASE row.prior # r
      BY <2>1, <2>2 DEF JudgeLoss
  <2>3. CASE row.prior = r
    <3>1. Becoming(r, IF row'.state = "held" THEN "held" ELSE "waiting")
        BY <2>3 DEF JudgeLoss
    <3> QED
        BY <2>1, <3>1
  <2> QED
      BY <2>2, <2>3
<1>4. /\ stage' \in [Runner -> Stages]
      /\ \A q \in Runner : stage'[q] = "none" => stage[q] = "none"
    BY <1>2, <1>3, StageChanges
<1>5. crashes' \in 0 .. MaxCrashes /\ up' \in BOOLEAN /\ (~up' => ~up) /\ cancels' \subseteq cancels
    BY <1>1, <1>2 DEF RecoveryTypeOK
<1>6. CASE row.prior = r /\ Provable(r)
  <2>1. /\ proof' = [proof EXCEPT ![r] = "loss"] /\ lease' = Reconciled(r)
        /\ row' = Judged(AllReleased(lease', r))
      BY <1>6 DEF JudgeLoss
  <2>2. AllReleased(lease', r) \in BOOLEAN
      BY DEF AllReleased
  <2>3. /\ row' \in RowType /\ row'.prior = row.prior
        /\ row'.safety = "safe" <=> AllReleased(lease', r)
      BY <1>2, <2>1, <2>2, RowChanges
  <2>4. /\ proof' \in [Runner -> {"none", "loss", "cancel"}] /\ proof'[r] # "none"
        /\ \A s \in Runner : proof[s] # "none" => proof'[s] # "none"
      BY <1>2, <2>1, ProofsStay
  <2> QED
      BY <1>1, <1>4, <1>5, <1>6, <2>1, <2>3, <2>4, ReconcileStep
<1>7. CASE row.prior # r
  <2>1. row' = row /\ proof' = proof /\ lease' = lease
      BY <1>7 DEF JudgeLoss
  <2>2. row.safety # "safe" => row.prior \in Runner
      BY <1>2 DEF RowInv
  <2>3. proof' \in [Runner -> {"none", "loss", "cancel"}]
      BY <1>2, <2>1 DEF RecoveryTypeOK
  <2> QED
      BY <1>1, <1>2, <1>4, <1>5, <2>1, <2>2, <2>3, ReconcileStep
<1>8. CASE row.prior = r /\ ~Provable(r)
  <2>1. row' = Judged(FALSE) /\ proof' = proof /\ lease' = lease
      BY <1>8 DEF JudgeLoss
  <2>2. row' \in RowType /\ row'.prior = row.prior /\ row'.safety # "safe"
      BY <1>2, <2>1, RowChanges
  <2>3. proof' \in [Runner -> {"none", "loss", "cancel"}]
      BY <1>2, <2>1 DEF RecoveryTypeOK
  <2> QED
      BY <1>1, <1>4, <1>5, <1>8, <2>1, <2>2, <2>3, ReconcileStep
<1> QED
    BY <1>6, <1>7, <1>8

LEMMA RestoreKeeps ==
    ASSUME RecoveryInv, Restore
    PROVE  RecoveryInv'
<1> DEFINE r == row.prior
<1>1. RecoveryTypeOK /\ RowInv /\ row \in RowType
    BY RowFacts
<1>2. /\ ~up /\ alive = {} /\ reading = {}
      /\ UNCHANGED <<providerVars, runnerVars, frames, reading, handle, stage, cancels>>
    BY <1>1 DEF Restore, RowInv
<1>3. /\ stage' \in [Runner -> Stages] /\ stage' = stage /\ cancels' \subseteq cancels
      /\ proof \in [Runner -> {"none", "loss", "cancel"}]
    BY <1>1, <1>2 DEF RecoveryTypeOK
<1>4. r \notin alive /\ Drained(r) /\ (row.safety # "safe" => r \in Runner)
    BY <1>1, <1>2 DEF Drained, RowInv
<1>5. crashes' \in 0 .. MaxCrashes /\ up' \in BOOLEAN
  <2>1. crashes' = crashes \/ (crashes < MaxCrashes /\ crashes' = crashes + 1)
      BY DEF Restore
  <2>2. crashes \in 0 .. MaxCrashes /\ MaxCrashes \in Nat
      BY <1>1 DEF RecoveryTypeOK
  <2>3. crashes' \in 0 .. MaxCrashes
      BY <2>1, <2>2
  <2>4. up' \in BOOLEAN
      BY <1>1 DEF Restore, RecoveryTypeOK
  <2> QED
      BY <2>3, <2>4
<1> HIDE DEF r
<1>6. CASE row' = row /\ proof' = proof /\ lease' = lease
    BY <1>1, <1>2, <1>3, <1>4, <1>5, <1>6, ReconcileStep DEF r
<1>7. CASE /\ r \in Runner /\ row.safety # "safe"
           /\ proof' = [proof EXCEPT ![r] = "loss"] /\ lease' = Reconciled(r)
           /\ row' = Judged(AllReleased(lease', r))
  <2>1. AllReleased(lease', r) \in BOOLEAN
      BY DEF AllReleased
  <2>2. /\ row' \in RowType /\ row'.prior = row.prior
        /\ row'.safety = "safe" <=> AllReleased(lease', r)
      BY <1>1, <1>7, <2>1, RowChanges
  <2>3. /\ proof' \in [Runner -> {"none", "loss", "cancel"}] /\ proof'[r] # "none"
        /\ \A s \in Runner : proof[s] # "none" => proof'[s] # "none"
      BY <1>1, <1>7, ProofsStay
  <2>4. row.prior = r
      BY DEF r
  <2> QED
      BY <1>1, <1>2, <1>3, <1>4, <1>5, <1>7, <2>2, <2>3, <2>4, ReconcileStep
<1>8. CASE /\ r \in Runner /\ row' = Uncertain /\ proof' = proof /\ lease' = lease
  <2>1. row' \in RowType /\ row'.prior = row.prior /\ row'.safety # "safe"
      BY <1>1, <1>8, RowChanges
  <2>2. row.prior = r
      BY DEF r
  <2> QED
      BY <1>1, <1>2, <1>3, <1>4, <1>5, <1>8, <2>1, <2>2, ReconcileStep
<1>9. CASE r \in Runner /\ row.safety = "pending" /\ row' = row /\ Begun(r)
  <2>1. lease' = lease \/ lease' = Reconciled(r)
      BY <1>9 DEF Begun
  <2>2. /\ proof' \in [Runner -> {"none", "loss", "cancel"}]
        /\ \A s \in Runner : proof[s] # "none" => proof'[s] # "none"
      BY <1>1, <1>3, <1>9, ProofsStay DEF Begun
  <2>3. row.prior = r
      BY DEF r
  <2> QED
      BY <1>1, <1>2, <1>3, <1>4, <1>5, <1>9, <2>1, <2>2, <2>3, ReconcileStep
<1>10. \/ row' = row /\ proof' = proof /\ lease' = lease
       \/ /\ r \in Runner /\ row.safety # "safe"
          /\ proof' = [proof EXCEPT ![r] = "loss"] /\ lease' = Reconciled(r)
          /\ row' = Judged(AllReleased(lease', r))
       \/ /\ r \in Runner /\ row' = Uncertain /\ proof' = proof /\ lease' = lease
       \/ /\ r \in Runner /\ row.safety = "pending" /\ row' = row /\ Begun(r)
  <2>1. row.prior = r /\ (row.safety = "pending" => r \in Runner /\ row.safety # "safe")
      BY <1>4 DEF r
  <2> QED
      BY <2>1 DEF Restore
<1> QED
    BY <1>6, <1>7, <1>8, <1>9, <1>10

(* A crash ends every runner and forgets what was not read; the chain of   *)
(* the recovery can be broken off after each of its transactions.          *)
LEMMA CrashKeeps ==
    ASSUME RecoveryInv, Crash
    PROVE  RecoveryInv'
<1>1. RecoveryTypeOK /\ RowInv /\ row \in RowType
    BY RowFacts
<1>2. /\ crashes < MaxCrashes /\ crashes' = crashes + 1 /\ up' = FALSE
      /\ alive' = {} /\ reading' = {} /\ replied' = {} /\ cancels' = {}
      /\ script' = [x \in Execution |-> <<>>] /\ frames' = [x \in Execution |-> <<>>]
      /\ tries' = [x \in Execution |-> 0] /\ handle' = NoRunner
      /\ stage' = [r \in Runner |-> IF stage[r] = "none" THEN "none" ELSE "gone"]
      /\ UNCHANGED <<registry, box, tree>>
    BY DEF Crash, Down, providerVars
<1>3. /\ stage' \in [Runner -> Stages]
      /\ \A q \in Runner : stage'[q] = "none" <=> stage[q] = "none"
      /\ crashes' \in 0 .. MaxCrashes
    BY <1>1, <1>2 DEF Stages, RecoveryTypeOK
<1>4. /\ row' \in RowType /\ row'.safety = row.safety /\ row'.prior = row.prior
  <2>1. row' = row \/ row' = [row EXCEPT !.confirmed = TRUE]
      BY DEF Crash
  <2>2. [row EXCEPT !.confirmed = TRUE] \in RowType
      BY <1>1 DEF RowType
  <2>3. /\ [row EXCEPT !.confirmed = TRUE].safety = row.safety
        /\ [row EXCEPT !.confirmed = TRUE].prior = row.prior
      BY <1>1 DEF RowType
  <2> QED
      BY <1>1, <2>1, <2>2, <2>3
<1>5. /\ proof' \in [Runner -> {"none", "loss", "cancel"}]
      /\ \A s \in Runner : proof[s] # "none" => proof'[s] # "none"
      /\ lease' = lease \/ \E r \in Runner : r \notin alive /\ lease' = Reconciled(r)
  <2>1. CASE proof' = proof /\ lease' = lease
      BY <1>1, <2>1 DEF RecoveryTypeOK
  <2>2. ASSUME NEW r \in Runner, Stopped(r), Begun(r)
        PROVE  /\ proof' \in [Runner -> {"none", "loss", "cancel"}]
               /\ \A s \in Runner : proof[s] # "none" => proof'[s] # "none"
               /\ lease' = lease \/ (r \notin alive /\ lease' = Reconciled(r))
    <3>1. r \notin alive /\ (lease' = lease \/ lease' = Reconciled(r))
        BY <2>2 DEF Begun, Stopped
    <3>2. proof' = proof \/ proof' = [proof EXCEPT ![r] = "loss"]
        BY <2>2 DEF Begun
    <3>3. proof \in [Runner -> {"none", "loss", "cancel"}]
        BY <1>1 DEF RecoveryTypeOK
    <3> QED
        BY <1>1, <3>1, <3>2, <3>3, ProofsStay
  <2> QED
      BY <2>1, <2>2 DEF Crash
<1>6. /\ lease' \in [Leases -> LeaseStates]
      /\ \A s \in Runner : AllReleased(lease, s) =>
            \A l \in Leases : l[1] = s => lease'[l] = lease[l]
    BY <1>1, <1>5, ReconciledLeases DEF RecoveryTypeOK, ResourceTypeOK
<1>7. ASSUME NEW x \in Execution
      PROVE  ExecutionInv(x)'
  <2>1. \A k \in Kind :
            \/ lease'[<<x, k>>] = lease[<<x, k>>]
            \/ /\ lease[<<x, k>>] # "none" /\ lease'[<<x, k>>] # "none"
               /\ lease'[<<x, k>>] = "released" =>
                     \/ registry[<<x, k>>] = "released"
                     \/ k = "worktree" /\ tree[x] = "absent" /\ script[x] = <<>>
    <3>1. CASE lease' = lease
        BY <3>1
    <3>2. ASSUME NEW r \in Runner, r \notin alive, lease' = Reconciled(r)
          PROVE  \A k \in Kind :
                    \/ lease'[<<x, k>>] = lease[<<x, k>>]
                    \/ /\ lease[<<x, k>>] # "none" /\ lease'[<<x, k>>] # "none"
                       /\ lease'[<<x, k>>] = "released" =>
                             \/ registry[<<x, k>>] = "released"
                             \/ k = "worktree" /\ tree[x] = "absent" /\ script[x] = <<>>
      <4>1. x = r => script[x] = <<>>
          BY <3>2 DEF RecoveryInv, ExecutionInv, ScriptIsOrderly
      <4> QED
          BY <1>1, <3>2, <4>1, ReconciledLeases
    <3> QED
        BY <1>5, <3>1, <3>2
  <2>2. Quiet(x)
      BY <1>2, <1>3, <2>1 DEF Quiet
  <2> QED
      BY <1>1, <2>2, QuietKeeps DEF RecoveryInv
<1>8. RecoveryTypeOK'
  <2>1. <<>> \in Seq(Step) /\ <<>> \in Seq(Told)
      OBVIOUS
  <2>2. ResourceTypeOK'
      BY <1>1, <1>2, <1>6, <2>1 DEF RecoveryTypeOK, ResourceTypeOK
  <2> QED
      BY <1>2, <1>3, <1>4, <1>5, <2>2, TypesApart DEF RestTypeOK
<1>9. SafeIsReconciled'
  <2> SUFFICES ASSUME row.safety = "safe", row.prior # NoRunner
               PROVE  proof'[row.prior] # "none" /\ AllReleased(lease', row.prior)
      BY <1>2, <1>4 DEF SafeIsReconciled, Drained, AllReleased
  <2>1. /\ row.prior \in Runner /\ proof[row.prior] # "none" /\ AllReleased(lease, row.prior)
      BY <1>1 DEF RowInv, SafeIsReconciled, RowType
  <2> QED
      BY <1>5, <1>6, <2>1 DEF AllReleased
<1>10. RowInv'
    BY <1>1, <1>2, <1>3, <1>4, <1>9 DEF RowInv
<1> QED
    BY <1>7, <1>8, <1>10 DEF RecoveryInv

LEMMA RecoveryInvNext == RecoveryInv /\ [RecoveryNext]_allVars => RecoveryInv'
<1> SUFFICES ASSUME RecoveryInv, [RecoveryNext]_allVars
             PROVE  RecoveryInv'
    OBVIOUS
<1>1. CASE RecoveryNext
    BY <1>1, ChannelStep, DyingStepsKeep, SettleCancelKeeps, StartKeeps, LoseKeeps, LossStepsKeep,
       JudgeLossKeeps, RowStepsKeep, CrashKeeps, RestoreKeeps DEF RecoveryNext, LossStep
<1>2. CASE UNCHANGED allVars
  <2>1. UNCHANGED <<resourceVars, up, row, proof, handle, stage, cancels, crashes>>
      BY <1>2 DEF allVars, recoveryVars
  <2> QED
      BY <2>1, RowFacts, RowStep
<1> QED
    BY <1>1, <1>2

LEMMA RecoveryStaysSound == RecoverySpec => []RecoveryInv
BY RecoveryInvInit, RecoveryInvNext, PTL DEF RecoverySpec

-----------------------------------------------------------------------------
(* Type correctness of the recovery, the leases and the channel: mutations *)
(* only reach the Daemon, whatever a runner does.                          *)
THEOREM RecoveryTypes == RecoverySpec => []RecoveryTypeOK
<1>1. RecoveryInv => RecoveryTypeOK
    BY DEF RecoveryInv
<1> QED
    BY <1>1, RecoveryStaysSound, PTL

(* Whatever runners die, replies get lost and crashes come between the     *)
(* transactions of a recovery, a container and a clean worktree that exist *)
(* have an open lease (sandboxed, acquireSandbox, reconcileTerminatedRunner). *)
THEOREM ResourcesStayTracked == RecoverySpec => []ResourcesAreTracked
<1>1. RecoveryInv => ResourcesAreTracked
  <2> SUFFICES ASSUME RecoveryInv, NEW x \in Execution
               PROVE  /\ x \in box => lease[<<x, "sandbox">>] \notin {"none", "released"}
                      /\ tree[x] = "clean" => lease[<<x, "worktree">>] \notin {"none", "released"}
                      /\ tree[x] # "absent" => lease[<<x, "worktree">>] # "none"
      BY DEF ResourcesAreTracked
  <2> QED
      BY DEF RecoveryInv, ExecutionInv, AcquisitionIsTold, ReleaseIsTrue, SaysReleased
<1> QED
    BY <1>1, RecoveryStaysSound, PTL

(* A recovery that is judged safe, by the chain or by a restart, has       *)
(* nothing left of the failed runner, and it stays so.                     *)
THEOREM SafeStaysReconciled == RecoverySpec => []SafeIsReconciled
<1>1. RecoveryInv => SafeIsReconciled
    BY DEF RecoveryInv, RowInv
<1> QED
    BY <1>1, RecoveryStaysSound, PTL
=============================================================================
