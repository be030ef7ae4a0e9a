---------------------------- MODULE ResourceLease -----------------------------
(***************************************************************************)
(* Resource leases: what a Project Runner tells the Daemon about the       *)
(* sandbox and the worktree it holds (sandboxed, acquireSandbox), the      *)
(* channel those mutations cross (DaemonResourceLeaseClient,               *)
(* ProjectRunnerTransport) and the store that keeps them                   *)
(* (SqliteResourceLeaseRepository).                                        *)
(*                                                                         *)
(* A runner executes the body of one scope.  It holds one mutation at a    *)
(* time: it sends it up to MaxTries times and dies when no reply comes in  *)
(* time; the Daemon reads the frames of the channel in order and stops     *)
(* reading at the first one it refuses.  Left out: a rebuilt container, a  *)
(* worktree outside its allocation, timestamps and other evidence a retry  *)
(* repeats, and a second agent invocation in one scope.                    *)
(***************************************************************************)
EXTENDS Naturals, Sequences

CONSTANTS
    Runner,    \* Project Runner instances
    Execution, \* those that execute a Run; the others poll Triggers
    MaxTries   \* Effect.retry({ times: 2 }): how often a mutation is sent

ASSUME RunnerAssumption == Execution \subseteq Runner /\ MaxTries \in Nat \ {0}

VARIABLES
    lease,    \* the lease rows: their states
    registry, \* the provider's inspection files
    box,      \* the containers that exist
    tree,     \* what host git would say of a runner's worktree
    script,   \* what the runner still has to do, in order
    frames,   \* mutations in the channel the Daemon has not handled
    tries,    \* how often the runner has sent its current mutation
    replied,  \* the reply to the last of them has arrived
    reading,  \* the runners whose frames the Daemon still handles
    alive     \* runner processes

runnerVars   == <<script, tries, replied, alive>>
providerVars == <<registry, box, tree>>
resourceVars == <<lease, providerVars, runnerVars, frames, reading>>

Scoped == {"sandbox", "worktree"}
Kind   == Scoped \cup {"agent"}
Leases == Execution \X Kind

Mutations == {"begin", "acquired", "intent", "released", "preserved", "unresolved"}
Told      == [op : Mutations, kind : Kind]
Step      == Told
                 \cup [op : {"create", "made", "work", "ask", "look"}, kind : {"none"}]
                 \cup [op : {"close", "closed"}, kind : {"absent", "clean", "dirty"}]

Do(op)       == [op |-> op, kind |-> "none"]
Tell(op, k)  == [op |-> op, kind |-> k]
TellBoth(op) == <<Tell(op, "sandbox"), Tell(op, "worktree")>>

\* What a mutation asks of the row, and what it makes of it.
From == [begin      |-> {"none"},
         acquired   |-> {"acquisition-intent"},
         intent     |-> {"acquired"},
         released   |-> {"release-intent"},
         preserved  |-> {"acquired", "release-intent"},
         unresolved |-> {"acquisition-intent", "acquired", "release-intent"}]
Becomes ==
    [begin      |-> "acquisition-intent",
     acquired   |-> "acquired",
     intent     |-> "release-intent",
     released   |-> "released",
     preserved  |-> "preserved",
     unresolved |-> "unresolved"]

LeaseStates == {"none", "acquisition-intent", "acquired", "release-intent", "released",
                "preserved", "unresolved"}

\* A faulty variant: the provider is asked before the intent is durable.
FaultyAcquire == <<Do("create")>> \o TellBoth("begin")

Acquire == TellBoth("begin") \o <<Do("create")>>
Answered(end) ==
    <<Tell("acquired", "agent"), Tell("intent", "agent"), Tell(end, "agent"), Do("work")>>
Release == TellBoth("intent") \o <<Do("look")>>

ResourceTypeOK ==
    /\ lease \in [Leases -> LeaseStates]
    /\ registry \in [Leases -> {"none", "creating", "acquired", "release-intent", "released"}]
    /\ box \subseteq Execution
    /\ tree \in [Execution -> {"absent", "clean", "dirty", "unreadable"}]
    /\ script \in [Execution -> Seq(Step)]
    /\ frames \in [Execution -> Seq(Told)]
    /\ tries \in [Execution -> 0 .. MaxTries]
    /\ replied \subseteq Execution
    /\ reading \subseteq Execution
    /\ alive \subseteq Runner

ResourceInit ==
    /\ lease = [l \in Leases |-> "none"]
    /\ registry = [l \in Leases |-> "none"]
    /\ box = {} /\ tree = [x \in Execution |-> "absent"]
    /\ script = [x \in Execution |-> <<>>]
    /\ frames = [x \in Execution |-> <<>>]
    /\ tries = [x \in Execution |-> 0]
    /\ replied = {} /\ reading = {} /\ alive = {}

-----------------------------------------------------------------------------
(* The runner.                                                             *)

\* The runner is about to do a step with this operation.
At(x, op) == x \in alive /\ script[x] # <<>> /\ Head(script[x]).op = op

Go(x, s)  == script' = [script EXCEPT ![x] = s]
Advance(x) == Go(x, Tail(script[x]))

Telling(x) == x \in alive /\ script[x] # <<>> /\ Head(script[x]).op \in Mutations

(* One try at the current mutation, the first or after 250 ms without the  *)
(* reply.                                                                  *)
Send(x) ==
    /\ Telling(x) /\ x \notin replied /\ tries[x] < MaxTries
    /\ frames' = [frames EXCEPT ![x] = Append(@, Head(script[x]))]
    /\ tries' = [tries EXCEPT ![x] = @ + 1]
    /\ UNCHANGED <<lease, providerVars, script, replied, reading, alive>>

(* The reply to the last try: the next step.                               *)
Committed(x) ==
    /\ Telling(x) /\ x \in replied
    /\ Advance(x)
    /\ tries' = [tries EXCEPT ![x] = 0]
    /\ replied' = replied \ {x}
    /\ UNCHANGED <<lease, providerVars, frames, reading, alive>>

(* No reply to any try (orDie).  A scope that holds its sandbox runs its   *)
(* finalizer, which is the release; a release that dies is given up.       *)
GiveUp(x) ==
    /\ Telling(x) /\ x \notin replied /\ tries[x] = MaxTries
    /\ LET step == Head(script[x])
       IN Go(x, IF step.op = "acquired" \/ step.kind = "agent" THEN Release ELSE <<>>)
    /\ tries' = [tries EXCEPT ![x] = 0]
    /\ UNCHANGED <<lease, providerVars, replied, frames, reading, alive>>

Record(x, state) ==
    registry' = [l \in Leases |-> IF l[1] = x /\ l[2] \in Scoped THEN state ELSE registry[l]]

(* acquireSandbox asks the provider, whose work a failure or the end of the *)
(* runner can leave behind.                                                *)
Create(x) ==
    /\ At(x, "create")
    /\ Record(x, "creating")
    /\ box' \in {box, box \cup {x}}
    /\ \E t \in {"absent", "clean"} : tree' = [tree EXCEPT ![x] = t]
    /\ Go(x, <<Do("made")>>)
    /\ UNCHANGED <<lease, tries, replied, frames, reading, alive>>

(* The answer of the provider, a sandbox or a SandboxError.                *)
Made(x) ==
    /\ At(x, "made")
    /\ \/ /\ x \in box /\ tree[x] # "absent"
          /\ Record(x, "acquired")
          /\ Go(x, TellBoth("acquired") \o <<Do("work")>>)
       \/ /\ Go(x, TellBoth("unresolved"))
          /\ UNCHANGED registry
    /\ UNCHANGED <<lease, box, tree, tries, replied, frames, reading, alive>>

(* The body invokes an agent, which has a lease of its own.                *)
Invoke(x) ==
    /\ At(x, "work") /\ lease[<<x, "agent">>] = "none"
    /\ Go(x, <<Tell("begin", "agent"), Do("ask"), Do("work")>>)
    /\ UNCHANGED <<lease, providerVars, tries, replied, frames, reading, alive>>

(* The agent answers, with or without evidence of the provider that it is  *)
(* gone, or its provider fails.                                            *)
Ask(x) ==
    /\ At(x, "ask")
    /\ \E found \in {"creating", "release-intent", "released"} :
          /\ registry' = [registry EXCEPT ![<<x, "agent">>] = found]
          /\ Go(x, CASE found = "creating" -> <<Tell("unresolved", "agent"), Do("work")>>
                    [] found = "released" -> Answered("released")
                    [] OTHER -> Answered("preserved"))
    /\ UNCHANGED <<lease, box, tree, tries, replied, frames, reading, alive>>

(* An agent in the sandbox: it writes as long as the container lives, also *)
(* after its phase or its runner ended (the promise of sandbox.run has no  *)
(* signal), and can break the repository for host git.                     *)
AgentWrites(x) ==
    /\ x \in box /\ tree[x] = "clean"
    /\ \E t \in {"dirty", "unreadable"} : tree' = [tree EXCEPT ![x] = t]
    /\ UNCHANGED <<lease, registry, box, runnerVars, frames, reading>>

(* The body ends: a result, a suspension or an interruption.               *)
LeaveScope(x) ==
    /\ At(x, "work")
    /\ Go(x, Release)
    /\ UNCHANGED <<lease, providerVars, tries, replied, alive, frames, reading>>

(* The release: Kojo looks at the worktree, and does not ask the provider  *)
(* to close what host git cannot read.                                     *)
Look(x) ==
    /\ At(x, "look")
    /\ Record(x, "release-intent")
    /\ Go(x, IF tree[x] = "unreadable"
             THEN <<Tell("preserved", "worktree"), Tell("unresolved", "sandbox")>>
             ELSE <<Tell("close", tree[x])>>)
    /\ UNCHANGED <<lease, box, tree, tries, replied, frames, reading, alive>>

(* The provider closes the sandbox, and removes the worktree if it finds   *)
(* it clean or cannot read it.  Or it fails, its work done or not.         *)
Close(x) ==
    /\ At(x, "close")
    /\ \/ /\ box' = box \ {x}
          /\ tree' = [tree EXCEPT ![x] = IF @ = "dirty" THEN @ ELSE "absent"]
          /\ Go(x, <<Tell("closed", Head(script[x]).kind)>>)
       \/ /\ box' \in {box, box \ {x}}
          /\ Go(x, TellBoth("unresolved"))
          /\ UNCHANGED tree
    /\ UNCHANGED <<lease, registry, tries, replied, frames, reading, alive>>

(* What Kojo saw before decides what it says of the worktree afterwards.   *)
Closed(x) ==
    /\ At(x, "closed")
    /\ LET left == Head(script[x]).kind = "dirty"
       IN /\ registry' = [registry EXCEPT
                 ![<<x, "sandbox">>] = "released",
                 ![<<x, "worktree">>] = IF left THEN @ ELSE "released"]
          /\ Go(x, <<Tell("released", "sandbox"),
                     Tell(IF left THEN "preserved" ELSE "released", "worktree")>>)
    /\ UNCHANGED <<lease, box, tree, tries, replied, frames, reading, alive>>

RunnerStep(x) ==
    \/ Send(x) \/ Committed(x) \/ GiveUp(x)
    \/ Create(x) \/ Made(x) \/ Invoke(x) \/ Ask(x) \/ LeaveScope(x) \/ Look(x) \/ Close(x) \/ Closed(x)

-----------------------------------------------------------------------------
(* The Daemon.                                                             *)

\* A retry finds what the mutation made of the row, or, when it begins a
\* lease, whatever the row has become since.
Repeats(l, op) == lease[l] = Becomes[op] \/ (op = "begin" /\ lease[l] # "none")

Accepts(l, op) == lease[l] \in From[op] \/ Repeats(l, op)

(* The next frame of a channel.  A refused one ends the reading, and the   *)
(* execution with it.                                                      *)
Handle(x) ==
    /\ x \in reading /\ frames[x] # <<>>
    /\ LET f == Head(frames[x])
           l == <<x, f.kind>>
       IN IF Accepts(l, f.op)
          THEN /\ lease' = [lease EXCEPT ![l] = IF Repeats(l, f.op) THEN @ ELSE Becomes[f.op]]
               /\ frames' = [frames EXCEPT ![x] = Tail(@)]
               /\ replied' = IF x \in alive /\ Len(frames[x]) = 1 /\ tries[x] > 0
                             THEN replied \cup {x} ELSE replied
               /\ UNCHANGED reading
          ELSE /\ frames' = [frames EXCEPT ![x] = <<>>]
               /\ reading' = reading \ {x}
               /\ UNCHANGED <<lease, replied>>
    /\ UNCHANGED <<providerVars, script, tries, alive>>

(* The process of a runner begins, with the scope it will open.            *)
Spawn(r) ==
    /\ alive' = alive \cup {r}
    /\ reading' = reading \cup ({r} \cap Execution)
    /\ script' = [x \in Execution |-> IF x = r THEN Acquire ELSE script[x]]
    /\ UNCHANGED <<lease, providerVars, frames, tries, replied>>

(* The process of a runner ends; what it wrote is still in the channel.    *)
Die(r) ==
    /\ alive' = alive \ {r}
    /\ script' = [x \in Execution |-> IF x = r THEN <<>> ELSE script[x]]
    /\ tries' = [x \in Execution |-> IF x = r THEN 0 ELSE tries[x]]
    /\ replied' = replied \ {r}

\* A faulty variant: nobody waits for the end of the channel.
FaultyDrained(r) == TRUE

\* Everything the runner wrote has been handled: readerDone.
Drained(r) == r \in reading => frames[r] = <<>>

(* reconcileTerminatedRunner over terminatedResourceObservations: what the *)
(* provider's registry, or the Host for a worktree, can confirm is         *)
(* released; a worktree that exists is kept, the rest stays unresolved.    *)
Observed(l) ==
    IF registry[l] = "released" THEN "released"
    ELSE IF registry[l] = "none" \/ l[2] # "worktree" \/ registry[l] = "creating"
         THEN "unresolved"
    ELSE IF tree[l[1]] = "absent" THEN "released" ELSE "preserved"

Open == {"acquisition-intent", "acquired", "release-intent"}

Reconciled(r) ==
    [l \in Leases |-> IF l[1] = r /\ lease[l] \in Open THEN Observed(l) ELSE lease[l]]

\* pendingForTerminatedRunner finds nothing left once these are the leases.
AllReleased(ls, r) == \A l \in Leases : l[1] = r => ls[l] \in {"none", "released"}
=============================================================================
