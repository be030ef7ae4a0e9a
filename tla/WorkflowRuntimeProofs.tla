----------------------- MODULE WorkflowRuntimeProofs ------------------------
(***************************************************************************)
(* Proofs about WorkflowRuntime: no external action that is not declared   *)
(* safe is performed more often than somebody allowed, a durable step      *)
(* stays recorded, and a Run that succeeded has all that it needed.        *)
(*                                                                         *)
(* The first argument counts what may still happen.  A runner that was     *)
(* permitted to perform an action may do so whatever becomes of its claim  *)
(* and of the Daemon, so each such permission counts as one, and so does   *)
(* an action that the next claim would be permitted to perform.  Beginning *)
(* an action turns the second into the first, performing it uses a         *)
(* permission up, and only an authorised retry adds to them.               *)
(***************************************************************************)
EXTENDS WorkflowRuntime, FiniteSetTheorems, TLAPS

RunnerModes == {"none", "running", "permitted", "performed", "dying"}
ExecutionRecord == [mode : RunnerModes, at : Nat, known : SUBSET Phase,
                    answers : SUBSET Gate, asked : SUBSET Gate]

(* An activity is under way at a step that has one.                        *)
Execution == {x \in ExecutionRecord :
                x.mode \in {"permitted", "performed"} =>
                    x.at \in Steps /\ Program[x.at].kind # "await"}

RuntimeTypeOK ==
    /\ runner \in [Run -> [Generations -> Execution]]
    /\ action \in [Run -> [Action -> ActionStates]]
    /\ performed \in [Run -> [Action -> Nat]]
    /\ authorised \in [Run -> [Action -> Nat]]

Permitted(r, g, a) ==
    /\ runner[r][g].mode = "permitted"
    /\ runner[r][g].at \in Steps
    /\ Standing(r, g).kind = "action" /\ Standing(r, g).name = a

Permits(r, a) == {g \in Generations : Permitted(r, g, a)}
Credit(r, a) == IF action[r][a] \in {"none", "retry-authorized"} THEN 1 ELSE 0

ActionsAreAllowed ==
    \A r \in Run, a \in Action \ SafeAction :
        /\ action[r][a] \notin {"not-performed", "repetition-safe"}
        /\ performed[r][a] + Cardinality(Permits(r, a)) + Credit(r, a) <= 1 + authorised[r][a]

RuntimeInv == RuntimeTypeOK /\ ActionsAreAllowed

allVars == <<vars, gateVars, action, runtimeVars>>

-----------------------------------------------------------------------------
(* Counting permissions.                                                   *)

LEMMA PermitsAreCounted ==
    \A r \in Run, a \in Action :
        IsFiniteSet(Permits(r, a)) /\ Cardinality(Permits(r, a)) \in Nat
<1> IsFiniteSet(Generations)
    BY LimitAssumption, FS_Interval DEF Generations
<1> QED
    BY FS_Subset, FS_CardinalityType DEF Permits

(* Permissions that are lost, gained and used.                             *)
LEMMA PermitsShrink ==
    ASSUME NEW S, NEW T, IsFiniteSet(S), T \subseteq S
    PROVE  IsFiniteSet(T) /\ Cardinality(T) \in Nat /\ Cardinality(T) <= Cardinality(S)
BY FS_Subset, FS_CardinalityType

LEMMA PermitsGrow ==
    ASSUME NEW S, NEW T, NEW x, IsFiniteSet(S), T \subseteq S \cup {x}
    PROVE  Cardinality(T) \in Nat /\ Cardinality(T) <= Cardinality(S) + 1
<1>a. Cardinality(S) \in Nat
    BY FS_CardinalityType
<1>b. /\ IsFiniteSet(S \cup {x})
      /\ Cardinality(S \cup {x}) = IF x \in S THEN Cardinality(S) ELSE Cardinality(S) + 1
    BY FS_AddElement
<1>1. IsFiniteSet(S \cup {x}) /\ Cardinality(S \cup {x}) <= Cardinality(S) + 1
    BY <1>a, <1>b
<1>2. IsFiniteSet(T) /\ Cardinality(T) <= Cardinality(S \cup {x})
    BY <1>1, FS_Subset
<1> QED
    BY <1>1, <1>2, FS_CardinalityType

LEMMA PermitUsed ==
    ASSUME NEW S, NEW T, NEW x \in S, IsFiniteSet(S), T \subseteq S \ {x}
    PROVE  Cardinality(T) \in Nat /\ Cardinality(T) + 1 <= Cardinality(S)
<1>1. IsFiniteSet(S \ {x}) /\ Cardinality(S \ {x}) = Cardinality(S) - 1
    BY FS_RemoveElement
<1>2. IsFiniteSet(T) /\ Cardinality(T) <= Cardinality(S \ {x})
    BY <1>1, FS_Subset
<1> QED
    BY <1>1, <1>2, FS_CardinalityType

(* A step that performs nothing, permits nothing and makes no action       *)
(* available again keeps the invariant.                                    *)
NothingAllowed ==
    /\ UNCHANGED historyVars
    /\ \A r \in Run, a \in Action \ SafeAction :
          /\ \A g \in Generations : Permitted(r, g, a)' => Permitted(r, g, a)
          /\ action'[r][a] \notin {"not-performed", "repetition-safe"}
          /\ action'[r][a] \in {"none", "retry-authorized"} => action'[r][a] = action[r][a]

LEMMA NothingAllowedIsSafe ==
    ASSUME RuntimeInv, RuntimeTypeOK', NothingAllowed
    PROVE  RuntimeInv'
<1> SUFFICES ASSUME NEW r \in Run, NEW a \in Action \ SafeAction
    PROVE  /\ action'[r][a] \notin {"not-performed", "repetition-safe"}
           /\ performed'[r][a] + Cardinality(Permits(r, a)') + Credit(r, a)'
                 <= 1 + authorised'[r][a]
    BY DEF RuntimeInv, ActionsAreAllowed
<1>1. Permits(r, a)' \subseteq Permits(r, a)
    BY DEF Permits, NothingAllowed, Generations
<1>2. /\ Cardinality(Permits(r, a)') \in Nat /\ Cardinality(Permits(r, a)) \in Nat
      /\ Cardinality(Permits(r, a)') <= Cardinality(Permits(r, a))
    BY <1>1, PermitsAreCounted, PermitsShrink
<1>3. Credit(r, a)' <= Credit(r, a) /\ Credit(r, a) \in Nat /\ Credit(r, a)' \in Nat
    BY DEF Credit, NothingAllowed
<1>4. /\ performed'[r][a] = performed[r][a] /\ authorised'[r][a] = authorised[r][a]
      /\ performed[r][a] \in Nat /\ authorised[r][a] \in Nat
    BY DEF NothingAllowed, historyVars, RuntimeInv, RuntimeTypeOK
<1>5. performed[r][a] + Cardinality(Permits(r, a)) + Credit(r, a) <= 1 + authorised[r][a]
    BY DEF RuntimeInv, ActionsAreAllowed
<1>6. action'[r][a] \notin {"not-performed", "repetition-safe"}
    BY DEF NothingAllowed
<1> QED
    BY <1>2, <1>3, <1>4, <1>5, <1>6

-----------------------------------------------------------------------------
(* The steps of a dispatch, a recovery and a person that neither runners   *)
(* nor actions notice.                                                     *)

LEMMA QuietSteps ==
    ASSUME RuntimeInv, UNCHANGED <<runner, action, historyVars>>
    PROVE  RuntimeTypeOK' /\ NothingAllowed
BY DEF RuntimeInv, RuntimeTypeOK, ActionsAreAllowed, NothingAllowed, Permitted, Standing,
       historyVars

(* The steps that end a runner, start one or move it on, and leave the     *)
(* actions alone.                                                          *)
LEMMA RunnerChanges ==
    ASSUME RuntimeInv, UNCHANGED <<action, historyVars>>,
           NEW r \in Run, NEW g, NEW x \in Execution, x.mode # "permitted",
           runner' = [runner EXCEPT ![r][g] = x]
    PROVE  RuntimeTypeOK' /\ NothingAllowed
<1>1. RuntimeTypeOK'
    BY DEF RuntimeInv, RuntimeTypeOK, historyVars
<1>2. ASSUME NEW q \in Run, NEW h \in Generations
      PROVE  runner'[q][h] = runner[q][h] \/ runner'[q][h].mode # "permitted"
    BY DEF RuntimeInv, RuntimeTypeOK
<1> QED
    BY <1>1, <1>2 DEF RuntimeInv, ActionsAreAllowed, NothingAllowed, Permitted, Standing,
       historyVars

LEMMA NoRunnerIsExecution == NoRunner \in Execution /\ NoRunner.mode # "permitted"
BY DEF NoRunner, Execution, ExecutionRecord, RunnerModes

(* A runner that moves on within its record.                               *)
LEMMA RunnerMoves ==
    ASSUME RuntimeInv, NEW r \in Run, NEW g \in Generations, NEW m \in RunnerModes
    PROVE  /\ runner[r][g] \in ExecutionRecord
           /\ [runner[r][g] EXCEPT !.mode = m] \in ExecutionRecord
           /\ [runner[r][g] EXCEPT !.at = @ + 1] \in ExecutionRecord
           /\ \A k \in Gate :
                 [runner[r][g] EXCEPT !.mode = m, !.asked = @ \cup {k}] \in ExecutionRecord
           /\ \A f \in Phase :
                 [runner[r][g] EXCEPT !.mode = m, !.at = @ + 1, !.known = @ \cup {f}]
                     \in ExecutionRecord
<1> DEFINE x == runner[r][g]
<1>1. x \in ExecutionRecord
    BY DEF RuntimeInv, RuntimeTypeOK, Execution
<1>2. [x EXCEPT !.mode = m] \in ExecutionRecord
    BY <1>1 DEF ExecutionRecord
<1>3. [x EXCEPT !.at = @ + 1] \in ExecutionRecord
    BY <1>1 DEF ExecutionRecord
<1>4. ASSUME NEW k \in Gate
      PROVE  [x EXCEPT !.mode = m, !.asked = @ \cup {k}] \in ExecutionRecord
  <2>1. x.asked \cup {k} \in SUBSET Gate
    BY <1>1 DEF ExecutionRecord
  <2> QED
    BY <1>1, <2>1 DEF ExecutionRecord
<1>5. ASSUME NEW f \in Phase
      PROVE  [x EXCEPT !.mode = m, !.at = @ + 1, !.known = @ \cup {f}] \in ExecutionRecord
  <2>1. x.known \cup {f} \in SUBSET Phase /\ x.at + 1 \in Nat
    BY <1>1 DEF ExecutionRecord
  <2> DEFINE y == [x EXCEPT !.mode = m, !.at = @ + 1]
  <2>2. y \in ExecutionRecord
    BY <1>1, <2>1 DEF ExecutionRecord
  <2>3. [y EXCEPT !.known = x.known \cup {f}] \in ExecutionRecord
    BY <2>1, <2>2 DEF ExecutionRecord
  <2> QED
    BY <1>1, <2>1, <2>3 DEF ExecutionRecord
<1> QED
    BY <1>1, <1>2, <1>3, <1>4, <1>5

LEMMA StandingIsAStep ==
    ASSUME NEW r \in Run, NEW g \in Generations, runner[r][g].at \in Steps
    PROVE  LET s == Standing(r, g) IN
           /\ s.kind \in {"phase", "action", "request", "await"}
           /\ s.kind # "await" => s.phase \in Phase
           /\ s.kind = "action" => s.name \in Action
           /\ s.kind = "request" => s.name \in Gate
BY ProgramAssumption DEF Standing

-----------------------------------------------------------------------------
(* The steps of the engine.                                                *)

LEMMA StartExecutionIsSafe ==
    ASSUME RuntimeInv, NEW r \in Run, StartExecution(r)
    PROVE  RuntimeTypeOK' /\ NothingAllowed
<1> DEFINE g == generation'[r]
           x == [mode |-> "running", at |-> 1,
                 known |-> {f \in Phase : result[r][f] # 0},
                 answers |-> {k \in Gate : wakeup[r][k] # "none"}, asked |-> {}]
<1>1. x \in Execution /\ x.mode # "permitted"
    BY DEF Execution, ExecutionRecord, RunnerModes
<1>2. runner' = [runner EXCEPT ![r][g] = x] /\ UNCHANGED <<action, historyVars>>
    BY DEF StartExecution
<1> HIDE DEF g, x
<1> QED
    BY <1>1, <1>2, RunnerChanges

LEMMA ReplayIsSafe ==
    ASSUME RuntimeInv, NEW r \in Run, NEW g \in Generations, Replay(r, g)
    PROVE  RuntimeTypeOK' /\ NothingAllowed
<1> DEFINE x == [runner[r][g] EXCEPT !.at = @ + 1]
<1>1. x \in ExecutionRecord /\ runner[r][g] \in ExecutionRecord
    BY RunnerMoves DEF RunnerModes
<1>2. x.mode = "running"
    BY <1>1 DEF Replay, ExecutionRecord
<1>3. runner' = [runner EXCEPT ![r][g] = x] /\ UNCHANGED <<action, historyVars>>
    BY DEF Replay
<1> HIDE DEF x
<1>4. x \in Execution
    BY <1>1, <1>2 DEF Execution
<1> QED
    BY <1>2, <1>3, <1>4, RunnerChanges

(* The action's name and what its claim makes of it.                       *)
LEMMA BeginTakesTheCredit ==
    ASSUME RuntimeInv, NEW r \in Run, NEW g \in Generations, NEW a \in Action,
           BeginAction(r, g, a)
    PROVE  /\ action' \in [Run -> [Action -> ActionStates]]
           /\ \A q \in Run, b \in Action : <<q, b>> # <<r, a>> => action'[q][b] = action[q][b]
           /\ action'[r][a] \in {"intended", "unresolved"}
           /\ action'[r][a] = "intended" =>
                 action[r][a] \in {"none", "not-performed", "repetition-safe", "retry-authorized"}
<1>1. PICK v \in {"intended", "unresolved"} :
        /\ action' = [action EXCEPT ![r][a] = v]
        /\ v = "intended" => action[r][a] \in MayPerform
    BY DEF BeginAction
<1>2. action \in [Run -> [Action -> ActionStates]] /\ v \in ActionStates
    BY DEF RuntimeInv, RuntimeTypeOK, ActionStates
<1>3. action' \in [Run -> [Action -> ActionStates]] /\ action'[r][a] = v
    BY <1>1, <1>2
<1>4. ASSUME NEW q \in Run, NEW b \in Action, <<q, b>> # <<r, a>>
      PROVE  action'[q][b] = action[q][b]
    BY <1>1, <1>2, <1>4
<1> QED
    BY <1>1, <1>3, <1>4 DEF MayPerform

LEMMA BeginKeepsTheInvariant ==
    ASSUME RuntimeInv, NEW r \in Run, NEW g \in Generations, Begin(r, g)
    PROVE  RuntimeInv'
<1> DEFINE a == Standing(r, g).name
           m == IF action'[r][a] = "intended" THEN "permitted" ELSE "dying"
           x == [runner[r][g] EXCEPT !.mode = m]
<1>1. a \in Action
    BY StandingIsAStep DEF Begin
<1>2. BeginAction(r, g, a) /\ UNCHANGED historyVars /\ runner[r][g].mode = "running"
    BY DEF Begin
<1>3. runner' = [runner EXCEPT ![r][g] = x]
    BY DEF Begin
<1>4. m \in RunnerModes
    BY DEF RunnerModes
<1>5. x \in ExecutionRecord /\ runner[r][g] \in ExecutionRecord
    BY <1>4, RunnerMoves
<1>6. x.mode = m /\ x.at = runner[r][g].at
    BY <1>5 DEF ExecutionRecord
<1> HIDE DEF x, m
<1>a. x \in Execution
    BY <1>5, <1>6 DEF Execution, Begin, Standing
<1>7. RuntimeTypeOK'
    BY <1>1, <1>2, <1>3, <1>a, BeginTakesTheCredit DEF RuntimeInv, RuntimeTypeOK, historyVars
<1>8. /\ \A q \in Run, h \in Generations : <<q, h>> # <<r, g>> => runner'[q][h] = runner[q][h]
      /\ runner'[r][g] = x
    BY <1>3 DEF RuntimeInv, RuntimeTypeOK
<1>9. ASSUME NEW q \in Run, NEW b \in Action \ SafeAction
      PROVE  /\ action'[q][b] \notin {"not-performed", "repetition-safe"}
             /\ performed'[q][b] + Cardinality(Permits(q, b)') + Credit(q, b)'
                   <= 1 + authorised'[q][b]
  <2>1. /\ action[q][b] \notin {"not-performed", "repetition-safe"}
        /\ performed[q][b] + Cardinality(Permits(q, b)) + Credit(q, b) <= 1 + authorised[q][b]
    BY DEF RuntimeInv, ActionsAreAllowed
  <2>2. /\ performed'[q][b] = performed[q][b] /\ authorised'[q][b] = authorised[q][b]
        /\ performed[q][b] \in Nat /\ authorised[q][b] \in Nat
    BY <1>2 DEF historyVars, RuntimeInv, RuntimeTypeOK
  <2>3. IsFiniteSet(Permits(q, b)) /\ Cardinality(Permits(q, b)) \in Nat
    BY PermitsAreCounted
  <2>4. CASE <<q, b>> = <<r, a>> /\ action'[r][a] = "intended"
    <3>1. Permits(q, b)' \subseteq Permits(q, b) \cup {g}
        BY <1>8 DEF Permits, Permitted, Standing, Generations
    <3>2. Cardinality(Permits(q, b)') \in Nat
          /\ Cardinality(Permits(q, b)') <= Cardinality(Permits(q, b)) + 1
        BY <3>1, <2>3, PermitsGrow
    <3>3. Credit(q, b) = 1 /\ Credit(q, b)' = 0
        BY <1>1, <1>2, <2>1, <2>4, BeginTakesTheCredit DEF Credit
    <3> QED
        BY <2>1, <2>2, <2>3, <2>4, <3>2, <3>3
  <2>5. CASE ~(<<q, b>> = <<r, a>> /\ action'[r][a] = "intended")
    <3>1. ASSUME NEW h \in Generations, Permitted(q, h, b)'
          PROVE  Permitted(q, h, b)
      <4>1. CASE <<q, h>> # <<r, g>>
        BY <1>8, <3>1, <4>1 DEF Permitted, Standing
      <4>2. CASE <<q, h>> = <<r, g>>
        <5>1. m = "permitted" /\ b = a
            BY <1>6, <1>8, <3>1, <4>2 DEF Permitted, Standing
        <5> QED
            BY <5>1, <4>2, <2>5 DEF m
      <4> QED
        BY <4>1, <4>2
    <3>2. Permits(q, b)' \subseteq Permits(q, b)
        BY <3>1 DEF Permits, Generations
    <3>3. Cardinality(Permits(q, b)') \in Nat
          /\ Cardinality(Permits(q, b)') <= Cardinality(Permits(q, b))
        BY <3>2, <2>3, PermitsShrink
    <3>4. /\ action'[q][b] = action[q][b] \/ action'[q][b] = "unresolved"
        BY <1>1, <1>2, <2>5, BeginTakesTheCredit
    <3>5. Credit(q, b)' <= Credit(q, b) /\ Credit(q, b) \in Nat /\ Credit(q, b)' \in Nat
        BY <3>4 DEF Credit
    <3> QED
        BY <2>1, <2>2, <2>3, <3>3, <3>4, <3>5
  <2> QED
    BY <2>4, <2>5
<1> QED
    BY <1>7, <1>9 DEF RuntimeInv, ActionsAreAllowed

LEMMA PerformKeepsTheInvariant ==
    ASSUME RuntimeInv, NEW r \in Run, NEW g \in Generations, Perform(r, g)
    PROVE  RuntimeInv'
<1> DEFINE s == Standing(r, g)
           x == [runner[r][g] EXCEPT !.mode = "performed"]
           y == [runner[r][g] EXCEPT !.mode = "performed", !.asked = @ \cup {s.name}]
<1>1. x \in Execution /\ x.mode = "performed"
  <2>1. x \in ExecutionRecord /\ runner[r][g] \in ExecutionRecord
    BY RunnerMoves DEF RunnerModes
  <2>2. x.mode = "performed" /\ x.at = runner[r][g].at
    BY <2>1 DEF ExecutionRecord
  <2> HIDE DEF x
  <2> QED
    BY <2>1, <2>2 DEF Execution, Perform, Standing
<1>2. CASE /\ runner' = [runner EXCEPT ![r][g] = x]
           /\ UNCHANGED <<action, historyVars>>
    BY <1>1, <1>2, RunnerChanges, NothingAllowedIsSafe
<1>3. CASE s.kind = "request" /\ Ask(r, g) /\ UNCHANGED <<action, historyVars>>
  <2>1. s.name \in Gate
    BY <1>3, StandingIsAStep DEF Perform
  <2>2. y \in ExecutionRecord /\ runner[r][g] \in ExecutionRecord
    BY <2>1, RunnerMoves DEF RunnerModes
  <2>3. y.mode = "performed" /\ y.at = runner[r][g].at
    BY <2>2 DEF ExecutionRecord
  <2>4. runner' = [runner EXCEPT ![r][g] = y]
    BY <1>3, <2>2 DEF Ask, RuntimeInv, RuntimeTypeOK
  <2> HIDE DEF y
  <2>5. y \in Execution
    BY <1>3, <2>2, <2>3 DEF Execution, Perform, Standing
  <2> QED
    BY <1>3, <2>3, <2>4, <2>5, RunnerChanges, NothingAllowedIsSafe
<1>4. CASE /\ s.kind = "action" /\ runner[r][g].mode = "permitted"
           /\ runner' = [runner EXCEPT ![r][g] = x]
           /\ performed' = [performed EXCEPT ![r][s.name] = @ + 1]
           /\ UNCHANGED <<action, authorised>>
  <2>1. s.name \in Action
    BY <1>4, StandingIsAStep DEF Perform
  <2>2. RuntimeTypeOK'
    BY <1>1, <1>4, <2>1 DEF RuntimeInv, RuntimeTypeOK
  <2>3. \A q \in Run, h \in Generations :
           runner'[q][h] = IF q = r /\ h = g THEN x ELSE runner[q][h]
    BY <1>4 DEF RuntimeInv, RuntimeTypeOK
  <2>4. Permitted(r, g, s.name)
    BY <1>4 DEF Permitted, Perform
  <2> HIDE DEF x, s
  <2>5. ASSUME NEW q \in Run, NEW b \in Action \ SafeAction
        PROVE  /\ action'[q][b] \notin {"not-performed", "repetition-safe"}
               /\ performed'[q][b] + Cardinality(Permits(q, b)') + Credit(q, b)'
                     <= 1 + authorised'[q][b]
    <3>1. /\ action[q][b] \notin {"not-performed", "repetition-safe"}
          /\ performed[q][b] + Cardinality(Permits(q, b)) + Credit(q, b)
                <= 1 + authorised[q][b]
        BY DEF RuntimeInv, ActionsAreAllowed
    <3>2. /\ performed[q][b] \in Nat /\ authorised[q][b] \in Nat
          /\ authorised'[q][b] = authorised[q][b]
          /\ action'[q][b] = action[q][b]
        BY <1>4 DEF RuntimeInv, RuntimeTypeOK
    <3>3. Credit(q, b)' = Credit(q, b) /\ Credit(q, b) \in Nat
        BY <3>2 DEF Credit
    <3>4. IsFiniteSet(Permits(q, b)) /\ Cardinality(Permits(q, b)) \in Nat
        BY PermitsAreCounted
    <3>5. \A h \in Generations : Permitted(q, h, b)' => Permitted(q, h, b) /\ ~(q = r /\ h = g)
        BY <1>1, <2>3 DEF Permitted, Standing
    <3>6. CASE q = r /\ b = s.name
      <4>1. g \in Permits(q, b) /\ Permits(q, b)' \subseteq Permits(q, b) \ {g}
        BY <2>4, <3>5, <3>6 DEF Permits, Generations
      <4>2. Cardinality(Permits(q, b)') \in Nat
            /\ Cardinality(Permits(q, b)') + 1 <= Cardinality(Permits(q, b))
        BY <4>1, <3>4, PermitUsed
      <4>3. performed'[q][b] = performed[q][b] + 1
        BY <1>4, <3>6 DEF RuntimeInv, RuntimeTypeOK
      <4> QED
        BY <3>1, <3>2, <3>3, <3>4, <4>2, <4>3
    <3>7. CASE ~(q = r /\ b = s.name)
      <4>1. Permits(q, b)' \subseteq Permits(q, b)
        BY <3>5 DEF Permits, Generations
      <4>2. Cardinality(Permits(q, b)') \in Nat
            /\ Cardinality(Permits(q, b)') <= Cardinality(Permits(q, b))
        BY <4>1, <3>4, PermitsShrink
      <4>3. performed'[q][b] = performed[q][b]
        BY <1>4, <3>7 DEF RuntimeInv, RuntimeTypeOK
      <4> QED
        BY <3>1, <3>2, <3>3, <3>4, <4>2, <4>3
    <3> QED
        BY <3>6, <3>7
  <2> QED
    BY <2>2, <2>5 DEF RuntimeInv, ActionsAreAllowed
<1> QED
    BY <1>2, <1>3, <1>4 DEF Perform, historyVars

LEMMA CommitIsSafe ==
    ASSUME RuntimeInv, NEW r \in Run, NEW g \in Generations, Commit(r, g)
    PROVE  RuntimeTypeOK' /\ NothingAllowed
<1> DEFINE f == Standing(r, g).phase
           x == [runner[r][g] EXCEPT !.mode = "running", !.at = @ + 1, !.known = @ \cup {f}]
<1>1. runner' = [runner EXCEPT ![r][g] = x] /\ UNCHANGED historyVars
    BY DEF Commit
<1>2. Standing(r, g).kind # "await" /\ runner[r][g].at \in Steps
    BY DEF Commit, RuntimeInv, RuntimeTypeOK, Execution, Standing
<1>3. x \in ExecutionRecord /\ runner[r][g] \in ExecutionRecord
    BY <1>2, StandingIsAStep, RunnerMoves DEF RunnerModes
<1>4. x.mode = "running"
    BY <1>3 DEF ExecutionRecord
<1> HIDE DEF x
<1>a. x \in Execution
    BY <1>3, <1>4 DEF Execution
<1>5. \/ UNCHANGED action
      \/ \E a \in Action : action' = [action EXCEPT ![r][a] = "result-confirmed"]
    BY <1>2, StandingIsAStep DEF Commit, ConfirmResult
<1>6. /\ action' \in [Run -> [Action -> ActionStates]]
      /\ \A q \in Run, b \in Action : action'[q][b] \in {action[q][b], "result-confirmed"}
  <2>1. action \in [Run -> [Action -> ActionStates]] /\ "result-confirmed" \in ActionStates
    BY DEF RuntimeInv, RuntimeTypeOK, ActionStates
  <2>2. CASE UNCHANGED action
    BY <2>1, <2>2
  <2>3. ASSUME NEW a \in Action, action' = [action EXCEPT ![r][a] = "result-confirmed"]
        PROVE  /\ action' \in [Run -> [Action -> ActionStates]]
               /\ \A q \in Run, b \in Action :
                     action'[q][b] \in {action[q][b], "result-confirmed"}
    BY <2>1, <2>3
  <2> QED
    BY <1>5, <2>2, <2>3
<1>8. \A q \in Run, h \in Generations :
         runner'[q][h] = IF q = r /\ h = g THEN x ELSE runner[q][h]
    BY <1>1 DEF RuntimeInv, RuntimeTypeOK
<1>9. RuntimeTypeOK'
    BY <1>1, <1>a, <1>6 DEF RuntimeInv, RuntimeTypeOK, historyVars
<1> QED
    BY <1>1, <1>4, <1>6, <1>8, <1>9
    DEF NothingAllowed, Permitted, Standing, RuntimeInv, ActionsAreAllowed

(* The runner of a dispatch is gone.                                       *)
LEMMA RunnerGone ==
    ASSUME RuntimeInv, NEW r \in Run, NEW g,
           runner' = [runner EXCEPT ![r][g] = NoRunner], UNCHANGED <<action, historyVars>>
    PROVE  RuntimeTypeOK' /\ NothingAllowed
BY NoRunnerIsExecution, RunnerChanges

LEMMA RunnerStepKeepsTheInvariant ==
    ASSUME RuntimeInv, NEW r \in Run, NEW g \in Generations,
           RunnerSteps(r, g) \/ RunnerEnds(r, g)
    PROVE  RuntimeInv'
<1>1. CASE Replay(r, g)
    BY <1>1, ReplayIsSafe, NothingAllowedIsSafe
<1>2. CASE Begin(r, g)
    BY <1>2, BeginKeepsTheInvariant
<1>3. CASE Perform(r, g)
    BY <1>3, PerformKeepsTheInvariant
<1>4. CASE Commit(r, g)
    BY <1>4, CommitIsSafe, NothingAllowedIsSafe
<1>5. CASE Return(r, g)
  <2>1. runner' = [runner EXCEPT ![r][g] = NoRunner] /\ UNCHANGED <<action, historyVars>>
    BY <1>5 DEF Return
  <2> QED
    BY <2>1, RunnerGone, NothingAllowedIsSafe
<1>6. CASE RunnerEnds(r, g)
  <2>1. runner' = [runner EXCEPT ![r][g] = NoRunner] /\ UNCHANGED <<action, historyVars>>
    BY <1>6 DEF RunnerEnds
  <2> QED
    BY <2>1, RunnerGone, NothingAllowedIsSafe
<1> QED
    BY <1>1, <1>2, <1>3, <1>4, <1>5, <1>6 DEF RunnerSteps

-----------------------------------------------------------------------------
(* The steps of the Daemon.                                                *)

LEMMA DispatchStepKeepsTheInvariant ==
    ASSUME RuntimeInv, NEW r \in Run, DispatchSteps(r)
    PROVE  RuntimeInv'
<1>1. CASE StartExecution(r)
    BY <1>1, StartExecutionIsSafe, NothingAllowedIsSafe
<1>2. CASE Fault(r)
  <2>1. /\ runner' = [runner EXCEPT ![r][dispatch[r].of] = NoRunner]
        /\ UNCHANGED <<action, historyVars>>
    BY <1>2 DEF Fault
  <2> QED
    BY <2>1, RunnerGone, NothingAllowedIsSafe
<1>3. CASE ApplyWakeup(r) \/ CommitOutcome(r) \/ OutcomeRefused(r) \/ FailRun(r) \/ Reconcile(r)
  <2>1. UNCHANGED <<runner, action, historyVars>>
    BY <1>3 DEF ApplyWakeup, CommitOutcome, OutcomeRefused, FailRun, Reconcile
  <2> QED
    BY <2>1, QuietSteps, NothingAllowedIsSafe
<1> QED
    BY <1>1, <1>2, <1>3 DEF DispatchSteps

LEMMA HoldOpenMarksOpenActions ==
    ASSUME RuntimeInv, NEW r \in Run, HoldOpen(r)
    PROVE  /\ action' \in [Run -> [Action -> ActionStates]]
           /\ \A q \in Run, a \in Action :
                 action[q][a] # "intended" => action'[q][a] = action[q][a]
           /\ \A q \in Run, a \in Action \ SafeAction :
                 action'[q][a] \in {action[q][a], "unresolved"}
<1> DEFINE open == {a \in Action : action[r][a] = "intended"}
           after == [a \in Action |-> IF a \notin open THEN action[r][a]
                                      ELSE IF a \in SafeAction THEN "repetition-safe"
                                      ELSE "unresolved"]
<1>1. action \in [Run -> [Action -> ActionStates]]
    BY DEF RuntimeInv, RuntimeTypeOK
<1>2. action' = [action EXCEPT ![r] = after]
    BY <1>1 DEF HoldOpen
<1>3. after \in [Action -> ActionStates]
    BY <1>1 DEF ActionStates
<1>4. /\ \A a \in Action : action[r][a] # "intended" => after[a] = action[r][a]
      /\ \A a \in Action \ SafeAction : after[a] \in {action[r][a], "unresolved"}
    OBVIOUS
<1> HIDE DEF after
<1> QED
    BY <1>1, <1>2, <1>3, <1>4

(* An action without a known result is never available again by itself.    *)
LEMMA HoldLostIsSafe ==
    ASSUME RuntimeInv, NEW r \in Run, HoldLost(r)
    PROVE  RuntimeTypeOK' /\ NothingAllowed
<1>1. UNCHANGED <<runner, historyVars>>
    BY DEF HoldLost
<1>2. CASE UNCHANGED action
    BY <1>1, <1>2, QuietSteps
<1>3. CASE HoldOpen(r)
    BY <1>1, <1>3, HoldOpenMarksOpenActions
    DEF NothingAllowed, Permitted, Standing, RuntimeInv, RuntimeTypeOK, ActionsAreAllowed,
        historyVars
<1> QED
    BY <1>2, <1>3 DEF HoldLost

LEMMA RecoveryStepKeepsTheInvariant ==
    ASSUME RuntimeInv, NEW r \in Run, RecoverySteps(r)
    PROVE  RuntimeInv'
<1>1. CASE HoldLost(r)
    BY <1>1, HoldLostIsSafe, NothingAllowedIsSafe
<1>2. CASE StopLost(r)
  <2>1. UNCHANGED <<action, historyVars>>
    BY <1>2 DEF StopLost
  <2>2. CASE runner' = [runner EXCEPT ![r][dispatch[r].of] = NoRunner]
    BY <2>1, <2>2, RunnerGone, NothingAllowedIsSafe
  <2>3. CASE UNCHANGED runner
    BY <2>1, <2>3, QuietSteps, NothingAllowedIsSafe
  <2> QED
    BY <1>2, <2>2, <2>3 DEF StopLost
<1>3. CASE Lose(r) \/ RecordLoss(r) \/ Judge(r) \/ Park(r) \/ Release(r) \/ ResumeSettles(r)
  <2>1. UNCHANGED <<runner, action, historyVars>>
    BY <1>3 DEF Lose, RecordLoss, Judge, Park, Release, ResumeSettles,
       SettleAfterRunnerTermination, runtimeVars
  <2> QED
    BY <2>1, QuietSteps, NothingAllowedIsSafe
<1> QED
    BY <1>1, <1>2, <1>3 DEF RecoverySteps

(* A person takes the risk: the action may be performed once more.         *)
LEMMA AuthoriseKeepsTheInvariant ==
    ASSUME RuntimeInv, NEW r \in Run, NEW a \in Action, Authorise(r, a)
    PROVE  RuntimeInv'
<1>1. /\ action[r][a] = "unresolved"
      /\ action' = [action EXCEPT ![r][a] = "retry-authorized"]
      /\ authorised' = [authorised EXCEPT ![r][a] = @ + 1]
      /\ UNCHANGED <<runner, performed>>
    BY DEF Authorise, AuthorizeRetry
<1>2. RuntimeTypeOK'
    BY <1>1 DEF RuntimeInv, RuntimeTypeOK, ActionStates
<1>3. ASSUME NEW q \in Run, NEW b \in Action \ SafeAction
      PROVE  /\ action'[q][b] \notin {"not-performed", "repetition-safe"}
             /\ performed'[q][b] + Cardinality(Permits(q, b)') + Credit(q, b)'
                   <= 1 + authorised'[q][b]
  <2>1. /\ action[q][b] \notin {"not-performed", "repetition-safe"}
        /\ performed[q][b] + Cardinality(Permits(q, b)) + Credit(q, b) <= 1 + authorised[q][b]
    BY DEF RuntimeInv, ActionsAreAllowed
  <2>2. /\ performed[q][b] \in Nat /\ authorised[q][b] \in Nat
        /\ Cardinality(Permits(q, b)) \in Nat
    BY PermitsAreCounted DEF RuntimeInv, RuntimeTypeOK
  <2>3. Permits(q, b)' = Permits(q, b)
    BY <1>1 DEF Permits, Permitted, Standing, Generations
  <2>4. performed'[q][b] = performed[q][b]
    BY <1>1
  <2>5. CASE q = r /\ b = a
    <3>1. Credit(q, b) = 0 /\ Credit(q, b)' = 1
        BY <1>1, <2>5 DEF Credit, RuntimeInv, RuntimeTypeOK
    <3>2. authorised'[q][b] = authorised[q][b] + 1 /\ action'[q][b] = "retry-authorized"
        BY <1>1, <2>5 DEF RuntimeInv, RuntimeTypeOK
    <3> QED
        BY <2>1, <2>2, <2>3, <2>4, <3>1, <3>2
  <2>6. CASE ~(q = r /\ b = a)
    <3>1. authorised'[q][b] = authorised[q][b] /\ action'[q][b] = action[q][b]
        BY <1>1, <2>6 DEF RuntimeInv, RuntimeTypeOK
    <3>2. Credit(q, b)' = Credit(q, b)
        BY <3>1 DEF Credit
    <3> QED
        BY <2>1, <2>2, <2>3, <2>4, <3>1, <3>2
  <2> QED
    BY <2>5, <2>6
<1> QED
    BY <1>2, <1>3 DEF RuntimeInv, ActionsAreAllowed

-----------------------------------------------------------------------------
(* The specification.                                                      *)

LEMMA InitEstablishesTheInvariant == RuntimeInit => RuntimeInv
<1> SUFFICES ASSUME RuntimeInit PROVE RuntimeInv
    OBVIOUS
<1>1. RuntimeTypeOK
    BY NoRunnerIsExecution DEF RuntimeInit, ActionInit, RuntimeTypeOK, ActionStates
<1>2. ASSUME NEW r \in Run, NEW a \in Action \ SafeAction
      PROVE  /\ action[r][a] = "none" /\ Permits(r, a) = {}
             /\ performed[r][a] = 0 /\ authorised[r][a] = 0
    BY NoRunnerIsExecution DEF RuntimeInit, ActionInit, Permits, Permitted
<1>3. ASSUME NEW r \in Run, NEW a \in Action \ SafeAction
      PROVE  Cardinality(Permits(r, a)) = 0 /\ Credit(r, a) = 1
    BY <1>2, FS_EmptySet DEF Credit
<1>4. ActionsAreAllowed
    BY <1>2, <1>3 DEF ActionsAreAllowed
<1> QED
    BY <1>1, <1>4 DEF RuntimeInv

LEMMA StepKeepsTheInvariant == RuntimeInv /\ [RuntimeNext]_allVars => RuntimeInv'
<1> SUFFICES ASSUME RuntimeInv, [RuntimeNext]_allVars PROVE RuntimeInv'
    OBVIOUS
<1>1. CASE UNCHANGED allVars
    BY <1>1, QuietSteps, NothingAllowedIsSafe DEF allVars, runtimeVars
<1>2. CASE PumpReserves \/ Crash \/ Restart
  <2>1. UNCHANGED <<runner, action, historyVars>>
    BY <1>2 DEF PumpReserves, Crash, Restart, runtimeVars
  <2> QED
    BY <2>1, QuietSteps, NothingAllowedIsSafe
<1>3. ASSUME NEW r \in Run,
             \/ \E n \in Graph : StartWorkflow(r, n)
             \/ \E k \in Gate : Answer(r, k)
      PROVE  RuntimeInv'
  <2>1. UNCHANGED <<runner, action, historyVars>>
    BY <1>3 DEF StartWorkflow, Answer, runtimeVars
  <2> QED
    BY <2>1, QuietSteps, NothingAllowedIsSafe
<1>4. ASSUME NEW r \in Run, NEW g \in Generations, RunnerSteps(r, g) \/ RunnerEnds(r, g)
      PROVE  RuntimeInv'
    BY <1>4, RunnerStepKeepsTheInvariant
<1>5. ASSUME NEW r \in Run, DispatchSteps(r)
      PROVE  RuntimeInv'
    BY <1>5, DispatchStepKeepsTheInvariant
<1>6. ASSUME NEW r \in Run, RecoverySteps(r)
      PROVE  RuntimeInv'
    BY <1>6, RecoveryStepKeepsTheInvariant
<1>7. ASSUME NEW r \in Run, NEW a \in Action, Authorise(r, a)
      PROVE  RuntimeInv'
    BY <1>7, AuthoriseKeepsTheInvariant
<1>8. ASSUME NEW p \in Project, RepairProject(p) \/ RestoreRecovery(p) \/ ResumeRecovers(p)
      PROVE  RuntimeInv'
  <2>1. UNCHANGED <<runner, action, historyVars>>
    BY <1>8 DEF RepairProject, RestoreRecovery, ResumeRecovers
  <2> QED
    BY <2>1, QuietSteps, NothingAllowedIsSafe
<1> QED
    BY <1>1, <1>2, <1>3, <1>4, <1>5, <1>6, <1>7, <1>8 DEF RuntimeNext

LEMMA TheInvariantBoundsThePerformances == RuntimeInv => ActionsAreNotRepeated
<1> SUFFICES ASSUME RuntimeInv, NEW r \in Run, NEW a \in Action \ SafeAction
             PROVE  performed[r][a] <= 1 + authorised[r][a]
    BY DEF ActionsAreNotRepeated
<1>1. performed[r][a] + Cardinality(Permits(r, a)) + Credit(r, a) <= 1 + authorised[r][a]
    BY DEF RuntimeInv, ActionsAreAllowed
<1>2. /\ performed[r][a] \in Nat /\ authorised[r][a] \in Nat
      /\ Cardinality(Permits(r, a)) \in Nat /\ Credit(r, a) \in Nat
    BY PermitsAreCounted DEF RuntimeInv, RuntimeTypeOK, Credit
<1> QED
    BY <1>1, <1>2

(* Every external action that is not declared safe to repeat is performed  *)
(* at most once plus once per authorised retry: for every Workflow, any    *)
(* number of Runs, Projects and claims, every loss of a runner before or   *)
(* after the effect, and every crash of the Daemon.                        *)
THEOREM EffectsAreNotRepeated == RuntimeSpec => []ActionsAreNotRepeated
<1>1. RuntimeInit => RuntimeInv
    BY InitEstablishesTheInvariant
<1>2. RuntimeInv /\ [RuntimeNext]_allVars => RuntimeInv'
    BY StepKeepsTheInvariant
<1>3. RuntimeInv => ActionsAreNotRepeated
    BY TheInvariantBoundsThePerformances
<1> QED
    BY <1>1, <1>2, <1>3, PTL DEF RuntimeSpec, allVars

-----------------------------------------------------------------------------
(* What a runner stands on is durable.                                     *)

Answered == {"recorded", "applied", "expired"}

StoreTypes ==
    /\ result \in [Run -> [Phase -> Nat]]
    /\ asking \in [Run -> [Gate -> {"none", "unanswered"} \cup Answered]]
    /\ wakeup \in [Run -> [Gate -> {"none", "pending", "applied"}]]

WakeupsFollowAnswers ==
    \A r \in Run, k \in Gate : wakeup[r][k] # "none" => asking[r][k] \in Answered

ResultsAreConfirmed ==
    \A r \in Run, i \in Steps :
        Program[i].kind = "action" /\ result[r][Program[i].phase] # 0 =>
            action[r][Program[i].name] = "result-confirmed"

OnRecord == StoreTypes /\ WakeupsFollowAnswers /\ ResultsAreConfirmed

(* What an execution holds to be true, and the steps it has passed.        *)
Knows(r, x) ==
    /\ \A f \in x.known : result[r][f] # 0
    /\ \A k \in x.answers : asking[r][k] \in Answered

Passed(x) ==
    \A i \in Steps : i < x.at =>
        /\ Program[i].kind # "await" => Program[i].phase \in x.known
        /\ Program[i].kind = "await" => Program[i].name \in x.answers

RunnersAreInformed ==
    \A r \in Run, g \in Generations : Knows(r, runner[r][g]) /\ Passed(runner[r][g])

DurableInv == RuntimeInv /\ OnRecord /\ RunnersAreInformed

(* A step takes nothing off the record.                                    *)
Remembers ==
    /\ OnRecord'
    /\ \A r \in Run : \A f \in Phase : result[r][f] # 0 => result'[r][f] # 0
    /\ \A r \in Run : \A k \in Gate : asking[r][k] \in Answered => asking'[r][k] \in Answered

LEMMA InformedRunnersStayInformed ==
    ASSUME DurableInv, Remembers, NEW r \in Run, NEW x \in Execution, Knows(r, x)
    PROVE  Knows(r, x)'
BY DEF Knows, Remembers, Execution, ExecutionRecord

(* Runners that are the same as before, or one that was told what is on    *)
(* record.                                                                 *)
LEMMA SameRunners ==
    ASSUME DurableInv, Remembers, UNCHANGED runner
    PROVE  RunnersAreInformed'
BY InformedRunnersStayInformed DEF DurableInv, RunnersAreInformed, Passed, RuntimeInv,
   RuntimeTypeOK, Knows, Generations

LEMMA OneRunner ==
    ASSUME DurableInv, Remembers, NEW r \in Run, NEW g, NEW x \in Execution,
           runner' = [runner EXCEPT ![r][g] = x],
           \A f \in x.known : result'[r][f] # 0,
           \A k \in x.answers : asking'[r][k] \in Answered,
           Passed(x)
    PROVE  RunnersAreInformed'
<1> SUFFICES ASSUME NEW q \in Run, NEW h \in Generations
             PROVE  Knows(q, runner[q][h])' /\ Passed(runner'[q][h])
    BY DEF RunnersAreInformed, Generations, Passed
<1>1. runner[q][h] \in Execution /\ runner'[q][h] = IF q = r /\ h = g THEN x ELSE runner[q][h]
    BY DEF DurableInv, RuntimeInv, RuntimeTypeOK
<1>2. CASE q = r /\ h = g
    BY <1>1, <1>2 DEF Knows
<1>3. CASE ~(q = r /\ h = g)
    BY <1>1, <1>3, InformedRunnersStayInformed DEF DurableInv, RunnersAreInformed, Knows
<1> QED
    BY <1>2, <1>3

-----------------------------------------------------------------------------
(* The record after each kind of step.                                     *)

LEMMA SameRecord ==
    ASSUME DurableInv, UNCHANGED <<result, action, gateVars>>
    PROVE  Remembers
BY DEF DurableInv, Remembers, OnRecord, StoreTypes, WakeupsFollowAnswers, ResultsAreConfirmed,
       gateVars

LEMMA AskingsAreRemembered ==
    ASSUME DurableInv, NEW r \in Run, NEW k \in Gate, UNCHANGED action,
           RecordVerdict(r, k) \/ Expire(r, k) \/ DeadlinePasses(r, k)
    PROVE  Remembers
<1>1. UNCHANGED result
    BY DEF RecordVerdict, Expire, DeadlinePasses, vars
<1>2. StoreTypes /\ WakeupsFollowAnswers /\ ResultsAreConfirmed
    BY DEF DurableInv, OnRecord
<1>3. CASE RecordVerdict(r, k) \/ Expire(r, k)
  <2>1. PICK v \in {"recorded", "expired"} : asking' = [asking EXCEPT ![r][k] = v]
    BY <1>3 DEF RecordVerdict, Expire
  <2>2. \/ wakeup' = wakeup
        \/ wakeup' = [wakeup EXCEPT ![r][k] = IF @ = "none" THEN "pending" ELSE @]
    BY <1>3 DEF RecordVerdict, Expire, Schedule
  <2>3. /\ asking' \in [Run -> [Gate -> {"none", "unanswered"} \cup Answered]]
        /\ \A q \in Run, j \in Gate :
              asking[q][j] \in Answered \/ (q = r /\ j = k) => asking'[q][j] \in Answered
    BY <1>2, <2>1 DEF StoreTypes, Answered
  <2>4. /\ wakeup' \in [Run -> [Gate -> {"none", "pending", "applied"}]]
        /\ \A q \in Run, j \in Gate : ~(q = r /\ j = k) => wakeup'[q][j] = wakeup[q][j]
    <3>1. CASE wakeup' = wakeup
        BY <1>2, <3>1 DEF StoreTypes
    <3>2. CASE wakeup' = [wakeup EXCEPT ![r][k] = IF @ = "none" THEN "pending" ELSE @]
        BY <1>2, <3>2 DEF StoreTypes
    <3> QED
        BY <2>2, <3>1, <3>2
  <2> QED
    BY <1>1, <1>2, <2>3, <2>4 DEF Remembers, OnRecord, StoreTypes, WakeupsFollowAnswers,
       ResultsAreConfirmed
<1>4. CASE DeadlinePasses(r, k)
    BY <1>1, <1>2, <1>4 DEF DeadlinePasses, Remembers, OnRecord, StoreTypes,
       WakeupsFollowAnswers, ResultsAreConfirmed
<1> QED
    BY <1>3, <1>4

(* The dispatch's own transactions, whatever Gate its runner names.        *)
LEMMA SuspensionRemembers ==
    ASSUME DurableInv, NEW r \in Run, NEW g, NEW k, UNCHANGED action,
           CreateAskingAndSuspend(r, g, k) \/ MarkApplied(r, g, k)
    PROVE  Remembers
<1>1. UNCHANGED result
    BY DEF CreateAskingAndSuspend, MarkApplied, vars
<1>2. StoreTypes /\ WakeupsFollowAnswers /\ ResultsAreConfirmed
    BY DEF DurableInv, OnRecord
<1>3. CASE k \notin Gate
  <2>1. PICK v, w : /\ asking' = [asking EXCEPT ![r][k] = v]
                    /\ wakeup' = wakeup \/ wakeup' = [wakeup EXCEPT ![r][k] = w]
    BY DEF CreateAskingAndSuspend, MarkApplied
  <2>2. asking' = asking
    BY <1>2, <1>3, <2>1 DEF StoreTypes
  <2>3. wakeup' = wakeup
    BY <1>2, <1>3, <2>1 DEF StoreTypes
  <2> QED
    BY <1>1, <1>2, <2>2, <2>3 DEF Remembers, OnRecord, StoreTypes, WakeupsFollowAnswers,
       ResultsAreConfirmed
<1>4. CASE k \in Gate /\ CreateAskingAndSuspend(r, g, k)
  <2>1. /\ asking[r][k] = "none" /\ asking' = [asking EXCEPT ![r][k] = "unanswered"]
        /\ wakeup' = wakeup
    BY <1>4 DEF CreateAskingAndSuspend
  <2> QED
    BY <1>1, <1>2, <1>4, <2>1 DEF Remembers, OnRecord, StoreTypes, WakeupsFollowAnswers,
       ResultsAreConfirmed, Answered
<1>5. CASE k \in Gate /\ MarkApplied(r, g, k)
  <2>1. /\ wakeup[r][k] = "pending" /\ wakeup' = [wakeup EXCEPT ![r][k] = "applied"]
        /\ asking' = [asking EXCEPT ![r][k] = IF @ = "expired" THEN @ ELSE "applied"]
    BY <1>5 DEF MarkApplied
  <2> QED
    BY <1>1, <1>2, <1>5, <2>1 DEF Remembers, OnRecord, StoreTypes, WakeupsFollowAnswers,
       ResultsAreConfirmed, Answered
<1> QED
    BY <1>3, <1>4, <1>5

LEMMA ReconciliationRemembers ==
    ASSUME DurableInv, ReconcileTerminalInabilities, UNCHANGED action
    PROVE  Remembers
<1>1. UNCHANGED <<asking, result>>
    BY DEF ReconcileTerminalInabilities, vars
<1>2. PICK lost \in [Run -> [Gate -> BOOLEAN]] :
        wakeup' = [r \in Run |-> [k \in Gate |-> IF lost[r][k] THEN "none" ELSE wakeup[r][k]]]
  <2> DEFINE lost == [r \in Run |-> [k \in Gate |->
                         inability'[r][k] = TRUE /\ wakeup[r][k] = "pending"]]
  <2>1. lost \in [Run -> [Gate -> BOOLEAN]]
    OBVIOUS
  <2>2. \A r \in Run, k \in Gate : inability'[r][k] \in BOOLEAN
    BY DEF ReconcileTerminalInabilities
  <2>3. wakeup' = [r \in Run |-> [k \in Gate |->
                      IF lost[r][k] THEN "none" ELSE wakeup[r][k]]]
    BY <2>2 DEF ReconcileTerminalInabilities
  <2> QED
    BY <2>1, <2>3
<1> QED
    BY <1>1, <1>2 DEF DurableInv, Remembers, OnRecord, StoreTypes, WakeupsFollowAnswers,
       ResultsAreConfirmed

(* An action may only change while it has no confirmed result, and only a  *)
(* confirmation writes the result of its Phase.                            *)
LEMMA ActionsAreRemembered ==
    ASSUME DurableInv, UNCHANGED <<result, gateVars>>,
           \A r \in Run, a \in Action :
               action[r][a] = "result-confirmed" => action'[r][a] = "result-confirmed"
    PROVE  Remembers
BY ProgramAssumption DEF DurableInv, Remembers, OnRecord, StoreTypes, WakeupsFollowAnswers,
   ResultsAreConfirmed, gateVars

-----------------------------------------------------------------------------
(* The steps of the engine, and what they leave on record.                 *)

Informs == Remembers /\ RunnersAreInformed'

LEMMA CommitRemembers ==
    ASSUME DurableInv, NEW r \in Run, NEW g \in Generations, Commit(r, g)
    PROVE  Remembers /\ result'[r][Standing(r, g).phase] # 0
<1> DEFINE f == Standing(r, g).phase
           i == runner[r][g].at
<1>1. i \in Steps /\ Program[i].kind # "await" /\ f = Program[i].phase /\ f \in Phase
  <2>1. i \in Steps /\ Program[i].kind # "await"
    BY DEF Commit, DurableInv, RuntimeInv, RuntimeTypeOK, Execution
  <2> QED
    BY <2>1, ProgramAssumption DEF Standing
<1>2. StoreTypes /\ WakeupsFollowAnswers /\ ResultsAreConfirmed /\ UNCHANGED gateVars
    BY DEF DurableInv, OnRecord, Commit
<1>3. g \in Nat /\ g # 0
    BY LimitAssumption DEF Generations
<1>4. CASE Program[i].kind # "action"
  <2>1. UNCHANGED action /\ result' = [result EXCEPT ![r][f] = IF @ = 0 THEN g ELSE @]
    BY <1>4 DEF Commit, CompletePhase, Standing
  <2>2. /\ result' \in [Run -> [Phase -> Nat]] /\ result'[r][f] # 0
        /\ \A q \in Run, h \in Phase : ~(q = r /\ h = f) => result'[q][h] = result[q][h]
        /\ result[r][f] # 0 => result'[r][f] = result[r][f]
    BY <1>1, <1>2, <1>3, <2>1 DEF StoreTypes
  <2>3. ASSUME NEW j \in Steps, Program[j].kind = "action"
        PROVE  Program[j].phase \in Phase /\ Program[j].phase # f
    BY <1>1, <1>4, <2>3, ProgramAssumption
  <2>4. ResultsAreConfirmed'
    BY <1>2, <2>1, <2>2, <2>3 DEF ResultsAreConfirmed
  <2> QED
    BY <1>2, <2>1, <2>2, <2>4 DEF Remembers, OnRecord, StoreTypes, WakeupsFollowAnswers, gateVars
<1>5. CASE Program[i].kind = "action"
  <2> DEFINE a == Program[i].name
  <2>1. a \in Action /\ PhaseOf[a] = f
    BY <1>1, <1>5, ProgramAssumption
  <2>2. /\ result[r][f] = 0 /\ result' = [result EXCEPT ![r][f] = g]
        /\ action' = [action EXCEPT ![r][a] = "result-confirmed"]
    BY <1>5, <2>1 DEF Commit, ConfirmResult, Standing
  <2>3. /\ result' \in [Run -> [Phase -> Nat]] /\ result'[r][f] # 0
        /\ \A q \in Run, h \in Phase : ~(q = r /\ h = f) => result'[q][h] = result[q][h]
    BY <1>1, <1>2, <1>3, <2>2 DEF StoreTypes
  <2>4. /\ action'[r][a] = "result-confirmed"
        /\ \A q \in Run, b \in Action : action'[q][b] \in {action[q][b], "result-confirmed"}
    BY <2>1, <2>2 DEF DurableInv, RuntimeInv, RuntimeTypeOK
  <2> HIDE DEF a
  <2>5. ASSUME NEW q \in Run, NEW j \in Steps, Program[j].kind = "action",
               result'[q][Program[j].phase] # 0
        PROVE  action'[q][Program[j].name] = "result-confirmed"
    <3>1. Program[j].phase \in Phase /\ Program[j].name \in Action
        BY <2>5, ProgramAssumption
    <3>2. CASE q = r /\ Program[j].phase = f
        BY <1>1, <1>5, <2>4, <2>5, <3>2, ProgramAssumption DEF a
    <3>3. CASE ~(q = r /\ Program[j].phase = f)
      <4>1. action[q][Program[j].name] = "result-confirmed"
        BY <1>2, <2>3, <2>5, <3>1, <3>3 DEF ResultsAreConfirmed
      <4> QED
        BY <2>4, <3>1, <4>1
    <3> QED
        BY <3>2, <3>3
  <2>6. ResultsAreConfirmed'
    BY <2>5 DEF ResultsAreConfirmed
  <2> QED
    BY <1>2, <2>2, <2>3, <2>6 DEF Remembers, OnRecord, StoreTypes, WakeupsFollowAnswers, gateVars
<1> QED
    BY <1>4, <1>5

LEMMA CommitInforms ==
    ASSUME DurableInv, NEW r \in Run, NEW g \in Generations, Commit(r, g)
    PROVE  Informs
<1> DEFINE f == Standing(r, g).phase
           w == runner[r][g]
           x == [w EXCEPT !.mode = "running", !.at = @ + 1, !.known = @ \cup {f}]
<1>1. Remembers /\ result'[r][f] # 0
    BY CommitRemembers
<1>2. w \in Execution /\ w.at \in Steps /\ Program[w.at].kind # "await" /\ f = Program[w.at].phase
    BY DEF Commit, DurableInv, RuntimeInv, RuntimeTypeOK, Execution, Standing
<1>3. Knows(r, w) /\ Passed(w)
    BY DEF DurableInv, RunnersAreInformed
<1>4. runner' = [runner EXCEPT ![r][g] = x]
    BY DEF Commit
<1>5. x \in ExecutionRecord
    BY <1>2, ProgramAssumption, RunnerMoves DEF RunnerModes, DurableInv
<1>6. /\ x.mode = "running" /\ x.at = w.at + 1 /\ x.known = w.known \cup {f}
      /\ x.answers = w.answers
    BY <1>2 DEF Execution, ExecutionRecord
<1> HIDE DEF x
<1>7. x \in Execution
    BY <1>5, <1>6 DEF Execution
<1>8. Passed(x)
    BY <1>2, <1>3, <1>6 DEF Passed, Steps, Execution, ExecutionRecord
<1>9. /\ \A h \in x.known : result'[r][h] # 0
      /\ \A k \in x.answers : asking'[r][k] \in Answered
    <2>1. /\ \A h \in w.known : result'[r][h] # 0
          /\ \A k \in w.answers : asking'[r][k] \in Answered
      BY <1>1, <1>2, <1>3 DEF Remembers, Knows, Execution, ExecutionRecord
    <2> QED
      BY <1>1, <1>6, <2>1
<1> QED
    BY <1>1, <1>4, <1>7, <1>8, <1>9, OneRunner DEF Informs

(* The runner moves on over a step whose outcome it was told.              *)
LEMMA ReplayInforms ==
    ASSUME DurableInv, NEW r \in Run, NEW g \in Generations, Replay(r, g)
    PROVE  Informs
<1> DEFINE w == runner[r][g]
           x == [w EXCEPT !.at = @ + 1]
<1>1. Remembers
    BY SameRecord DEF Replay, vars
<1>2. w \in Execution /\ w.mode = "running" /\ w.at \in Steps
    BY DEF Replay, DurableInv, RuntimeInv, RuntimeTypeOK
<1>3. Knows(r, w) /\ Passed(w)
    BY DEF DurableInv, RunnersAreInformed
<1>4. runner' = [runner EXCEPT ![r][g] = x]
    BY DEF Replay
<1>5. x \in ExecutionRecord
    BY RunnerMoves DEF RunnerModes, DurableInv
<1>6. x.mode = "running" /\ x.at = w.at + 1 /\ x.known = w.known /\ x.answers = w.answers
    BY <1>2 DEF Execution, ExecutionRecord
<1> HIDE DEF x
<1>7. x \in Execution
    BY <1>5, <1>6 DEF Execution
<1>8. /\ Program[w.at].kind # "await" => Program[w.at].phase \in w.known
      /\ Program[w.at].kind = "await" => Program[w.at].name \in w.answers
    BY DEF Replay, Recorded, Standing
<1>9. Passed(x)
    BY <1>2, <1>3, <1>6, <1>8 DEF Passed, Steps, Execution, ExecutionRecord
<1>10. /\ \A h \in w.known : result'[r][h] # 0
       /\ \A k \in w.answers : asking'[r][k] \in Answered
    BY <1>1, <1>2, <1>3 DEF Remembers, Knows, Execution, ExecutionRecord
<1> QED
    BY <1>1, <1>4, <1>6, <1>7, <1>9, <1>10, OneRunner DEF Informs

LEMMA StartExecutionInforms ==
    ASSUME DurableInv, NEW r \in Run, StartExecution(r)
    PROVE  Informs
<1> DEFINE g == generation'[r]
           x == [mode |-> "running", at |-> 1,
                 known |-> {f \in Phase : result[r][f] # 0},
                 answers |-> {k \in Gate : wakeup[r][k] # "none"}, asked |-> {}]
<1>1. UNCHANGED <<result, action, gateVars>>
    BY DEF StartExecution, ClaimReserved, TakeSlot
<1>2. Remembers
    BY <1>1, SameRecord
<1>3. x \in Execution
    BY DEF Execution, ExecutionRecord, RunnerModes
<1>4. runner' = [runner EXCEPT ![r][g] = x]
    BY DEF StartExecution
<1>5. /\ \A f \in x.known : result'[r][f] # 0
      /\ \A k \in x.answers : asking'[r][k] \in Answered
    BY <1>1 DEF DurableInv, OnRecord, WakeupsFollowAnswers, gateVars
<1>6. Passed(x)
    BY DEF Passed, Steps
<1> HIDE DEF g, x
<1> QED
    BY <1>2, <1>3, <1>4, <1>5, <1>6, OneRunner DEF Informs

(* The runner changes nothing of what it knows and where it stands.        *)
LEMMA ModeInforms ==
    ASSUME DurableInv, Remembers, NEW r \in Run, NEW g \in Generations, NEW x \in Execution,
           runner' = [runner EXCEPT ![r][g] = x],
           x.at = runner[r][g].at, x.known = runner[r][g].known,
           x.answers = runner[r][g].answers
    PROVE  Informs
<1>1. Knows(r, runner[r][g]) /\ Passed(runner[r][g])
    BY DEF DurableInv, RunnersAreInformed
<1>2. Passed(x)
    BY <1>1 DEF Passed
<1>3. /\ \A h \in x.known : result'[r][h] # 0
      /\ \A k \in x.answers : asking'[r][k] \in Answered
    BY <1>1 DEF Remembers, Knows, Execution, ExecutionRecord
<1> QED
    BY <1>2, <1>3, OneRunner DEF Informs

LEMMA RunnerGoneInforms ==
    ASSUME DurableInv, Remembers, NEW r \in Run, NEW g,
           runner' = [runner EXCEPT ![r][g] = NoRunner]
    PROVE  Informs
<1>1. NoRunner \in Execution /\ NoRunner.at = 0 /\ NoRunner.known = {} /\ NoRunner.answers = {}
    BY NoRunnerIsExecution DEF NoRunner
<1>2. Passed(NoRunner)
    BY <1>1 DEF Passed, Steps
<1> QED
    BY <1>1, <1>2, OneRunner DEF Informs

LEMMA BeginInforms ==
    ASSUME DurableInv, RuntimeInv', NEW r \in Run, NEW g \in Generations, Begin(r, g)
    PROVE  Informs
<1> DEFINE a == Standing(r, g).name
           m == IF action'[r][a] = "intended" THEN "permitted" ELSE "dying"
           x == [runner[r][g] EXCEPT !.mode = m]
<1>1. a \in Action
    BY StandingIsAStep DEF Begin
<1>2. action[r][a] # "result-confirmed"
    BY DEF Begin, BeginAction, MayPerform
<1>3. ASSUME NEW q \in Run, NEW b \in Action, action[q][b] = "result-confirmed"
      PROVE  action'[q][b] = "result-confirmed"
  <2>1. <<q, b>> # <<r, a>>
    BY <1>2, <1>3
  <2> QED
    BY <1>1, <1>3, <2>1, BeginTakesTheCredit DEF Begin, DurableInv
<1>4. UNCHANGED <<result, gateVars>>
    BY DEF Begin, BeginAction
<1>5. Remembers
    BY <1>3, <1>4, ActionsAreRemembered
<1>6. m \in RunnerModes
    BY DEF RunnerModes
<1>7. runner' = [runner EXCEPT ![r][g] = x] /\ runner[r][g] \in ExecutionRecord
    BY RunnerMoves, <1>6 DEF Begin, DurableInv
<1>8. /\ x.at = runner[r][g].at /\ x.known = runner[r][g].known
      /\ x.answers = runner[r][g].answers
    BY <1>7 DEF ExecutionRecord
<1> HIDE DEF x, m
<1>9. x \in Execution
    BY <1>7 DEF DurableInv, RuntimeInv, RuntimeTypeOK
<1> QED
    BY <1>5, <1>7, <1>8, <1>9, ModeInforms

LEMMA PerformInforms ==
    ASSUME DurableInv, RuntimeInv', NEW r \in Run, NEW g \in Generations, Perform(r, g)
    PROVE  Informs
<1>1. Remembers
    BY SameRecord DEF Perform, vars
<1> DEFINE w == runner[r][g]
<1>2. w \in ExecutionRecord
    BY RunnerMoves DEF RunnerModes, DurableInv
<1>3. CASE runner' = [runner EXCEPT ![r][g].mode = "performed"]
  <2> DEFINE x == [w EXCEPT !.mode = "performed"]
  <2>1. x.at = w.at /\ x.known = w.known /\ x.answers = w.answers
    BY <1>2 DEF ExecutionRecord
  <2>2. runner' = [runner EXCEPT ![r][g] = x]
    BY <1>3
  <2> HIDE DEF x
  <2>3. x \in Execution
    BY <2>2 DEF DurableInv, RuntimeInv, RuntimeTypeOK
  <2> QED
    BY <1>1, <2>1, <2>2, <2>3, ModeInforms
<1>4. CASE Ask(r, g)
  <2> DEFINE x == [w EXCEPT !.mode = "performed", !.asked = @ \cup {Standing(r, g).name}]
  <2>1. x.at = w.at /\ x.known = w.known /\ x.answers = w.answers
    BY <1>2 DEF ExecutionRecord
  <2>2. runner' = [runner EXCEPT ![r][g] = x]
    BY <1>4 DEF Ask, DurableInv, RuntimeInv, RuntimeTypeOK
  <2> HIDE DEF x
  <2>3. x \in Execution
    BY <2>2 DEF DurableInv, RuntimeInv, RuntimeTypeOK
  <2> QED
    BY <1>1, <2>1, <2>2, <2>3, ModeInforms
<1> QED
    BY <1>3, <1>4 DEF Perform

LEMMA RunnerStepInforms ==
    ASSUME DurableInv, RuntimeInv', NEW r \in Run, NEW g \in Generations,
           RunnerSteps(r, g) \/ RunnerEnds(r, g)
    PROVE  Informs
<1>1. CASE Return(r, g) \/ RunnerEnds(r, g)
  <2>1. /\ UNCHANGED <<result, action, gateVars>>
        /\ runner' = [runner EXCEPT ![r][g] = NoRunner]
    BY <1>1 DEF Return, RunnerEnds, vars
  <2> QED
    BY <2>1, SameRecord, RunnerGoneInforms
<1> QED
    BY <1>1, ReplayInforms, BeginInforms, PerformInforms, CommitInforms DEF RunnerSteps

-----------------------------------------------------------------------------
(* The steps of the Daemon.                                                *)

(* CompleteRun and the other transactions of the Run store that a step     *)
(* takes in leave the results alone.                                       *)
LEMMA DispatchStepInforms ==
    ASSUME DurableInv, NEW r \in Run, DispatchSteps(r)
    PROVE  Informs
<1>1. CASE StartExecution(r)
    BY <1>1, StartExecutionInforms
<1>2. CASE Fault(r)
  <2>1. /\ UNCHANGED <<result, action, gateVars>>
        /\ runner' = [runner EXCEPT ![r][dispatch[r].of] = NoRunner]
    BY <1>2 DEF Fault, vars
  <2> QED
    BY <2>1, SameRecord, RunnerGoneInforms
<1>3. CASE OutcomeRefused(r) \/ FailRun(r)
  <2>1. UNCHANGED <<result, action, gateVars, runner>>
    BY <1>3 DEF OutcomeRefused, FailRun, CompleteRun, vars
  <2> QED
    BY <2>1, SameRecord, SameRunners DEF Informs
<1>4. CASE Reconcile(r)
    BY <1>4, ReconciliationRemembers, SameRunners DEF Reconcile, Informs
<1>5. CASE ApplyWakeup(r)
  <2>1. PICK k : MarkApplied(r, dispatch[r].of, k)
    BY <1>5 DEF ApplyWakeup
  <2>2. UNCHANGED <<runner, action>>
    BY <1>5 DEF ApplyWakeup
  <2> QED
    BY <2>1, <2>2, SuspensionRemembers, SameRunners DEF Informs
<1>6. CASE CommitOutcome(r)
  <2>1. UNCHANGED <<runner, action>>
    BY <1>6 DEF CommitOutcome
  <2>2. CASE \E k \in dispatch[r].asked : CreateAskingAndSuspend(r, dispatch[r].of, k)
    BY <2>1, <2>2, SuspensionRemembers, SameRunners DEF Informs
  <2>3. CASE CompleteRun(r, dispatch[r].of, dispatch[r].outcome) /\ UNCHANGED gateVars
    <3>1. UNCHANGED result
        BY <2>3 DEF CompleteRun
    <3> QED
        BY <2>1, <2>3, <3>1, SameRecord, SameRunners DEF Informs
  <2> QED
    BY <1>6, <2>2, <2>3 DEF CommitOutcome
<1> QED
    BY <1>1, <1>2, <1>3, <1>4, <1>5, <1>6 DEF DispatchSteps

LEMMA RecoveryStepInforms ==
    ASSUME DurableInv, NEW r \in Run, RecoverySteps(r)
    PROVE  Informs
<1>1. CASE StopLost(r)
  <2>1. UNCHANGED <<result, action, gateVars>>
    BY <1>1 DEF StopLost, vars
  <2>2. Remembers
    BY <2>1, SameRecord
  <2> QED
    BY <1>1, <2>2, RunnerGoneInforms, SameRunners DEF StopLost, Informs
<1>2. CASE HoldLost(r)
  <2>1. UNCHANGED <<result, gateVars, runner>>
    BY <1>2 DEF HoldLost, HoldOpen, vars
  <2>2. ASSUME NEW q \in Run, NEW a \in Action, action[q][a] = "result-confirmed"
        PROVE  action'[q][a] = "result-confirmed"
    BY <1>2, <2>2, HoldOpenMarksOpenActions DEF HoldLost, DurableInv
  <2> QED
    BY <2>1, <2>2, ActionsAreRemembered, SameRunners DEF Informs
<1>3. CASE Lose(r) \/ RecordLoss(r) \/ Judge(r) \/ Park(r) \/ Release(r) \/ ResumeSettles(r)
  <2>1. UNCHANGED <<result, action, gateVars, runner>>
    BY <1>3 DEF Lose, RecordLoss, Judge, Park, Release, ResumeSettles, HoldAfterRestart,
       SettleAfterRunnerTermination, RecoverRunnerFailure, runtimeVars, vars
  <2> QED
    BY <2>1, SameRecord, SameRunners DEF Informs
<1> QED
    BY <1>1, <1>2, <1>3 DEF RecoverySteps

LEMMA AuthoriseInforms ==
    ASSUME DurableInv, NEW r \in Run, NEW a \in Action, Authorise(r, a)
    PROVE  Informs
<1>1. /\ UNCHANGED <<result, gateVars, runner>>
      /\ action[r][a] = "unresolved"
      /\ action' = [action EXCEPT ![r][a] = "retry-authorized"]
    BY DEF Authorise, AuthorizeRetry
<1>2. \A q \in Run, b \in Action :
         action[q][b] = "result-confirmed" => action'[q][b] = "result-confirmed"
    BY <1>1 DEF DurableInv, RuntimeInv, RuntimeTypeOK
<1> QED
    BY <1>1, <1>2, ActionsAreRemembered, SameRunners DEF Informs

-----------------------------------------------------------------------------
(* The specification.                                                      *)

LEMMA InitIsDurable == RuntimeInit => DurableInv
<1> SUFFICES ASSUME RuntimeInit PROVE DurableInv
    OBVIOUS
<1>1. OnRecord
    BY ProgramAssumption DEF RuntimeInit, Init, GateInit, OnRecord, StoreTypes, WakeupsFollowAnswers,
       ResultsAreConfirmed
<1>2. NoRunner.at = 0 /\ NoRunner.known = {} /\ NoRunner.answers = {}
    BY DEF NoRunner
<1>3. RunnersAreInformed
    BY <1>2 DEF RuntimeInit, RunnersAreInformed, Knows, Passed, Steps
<1> QED
    BY <1>1, <1>3, InitEstablishesTheInvariant DEF DurableInv

LEMMA StepInforms ==
    ASSUME DurableInv, RuntimeInv', [RuntimeNext]_allVars
    PROVE  Informs
<1>1. CASE UNCHANGED allVars
    BY <1>1, SameRecord, SameRunners DEF allVars, runtimeVars, vars, Informs
<1>2. CASE PumpReserves \/ Crash \/ Restart
  <2>1. UNCHANGED <<result, action, gateVars, runner>>
    BY <1>2 DEF PumpReserves, ReserveNext, Crash, Restart, RecoverInterrupted, runtimeVars, vars
  <2> QED
    BY <2>1, SameRecord, SameRunners DEF Informs
<1>3. ASSUME NEW r \in Run, \E n \in Graph : StartWorkflow(r, n)
      PROVE  Informs
  <2>1. UNCHANGED <<result, action, gateVars, runner>>
    BY <1>3 DEF StartWorkflow, AdmitAndActivate, runtimeVars
  <2> QED
    BY <2>1, SameRecord, SameRunners DEF Informs
<1>4. ASSUME NEW r \in Run, NEW k \in Gate, Answer(r, k)
      PROVE  Informs
  <2>1. UNCHANGED <<action, runner>>
    BY <1>4 DEF Answer, runtimeVars
  <2> QED
    BY <1>4, <2>1, AskingsAreRemembered, SameRunners DEF Answer, Informs
<1>5. ASSUME NEW r \in Run, NEW g \in Generations, RunnerSteps(r, g) \/ RunnerEnds(r, g)
      PROVE  Informs
    BY <1>5, RunnerStepInforms
<1>6. ASSUME NEW r \in Run, DispatchSteps(r)
      PROVE  Informs
    BY <1>6, DispatchStepInforms
<1>7. ASSUME NEW r \in Run, RecoverySteps(r)
      PROVE  Informs
    BY <1>7, RecoveryStepInforms
<1>8. ASSUME NEW r \in Run, NEW a \in Action, Authorise(r, a)
      PROVE  Informs
    BY <1>8, AuthoriseInforms
<1>9. ASSUME NEW p \in Project, RepairProject(p) \/ RestoreRecovery(p) \/ ResumeRecovers(p)
      PROVE  Informs
  <2>1. UNCHANGED <<result, action, gateVars, runner>>
    BY <1>9 DEF RepairProject, RepairHolds, RestoreRecovery, HoldAfterRestart, ResumeRecovers,
       RecoverAfterRestart, vars
  <2> QED
    BY <2>1, SameRecord, SameRunners DEF Informs
<1> QED
    BY <1>1, <1>2, <1>3, <1>4, <1>5, <1>6, <1>7, <1>8, <1>9 DEF RuntimeNext

LEMMA StepStaysDurable ==
    DurableInv /\ RuntimeInv' /\ [RuntimeNext]_allVars => DurableInv'
BY StepInforms DEF Informs, Remembers, DurableInv

LEMMA InformedRunnersStandOnTheRecord == DurableInv => StepsFollowDurableResults
<1> SUFFICES ASSUME DurableInv, NEW r \in Run, NEW g \in Generations,
                    runner[r][g].mode \in {"permitted", "performed"},
                    NEW i \in 1 .. runner[r][g].at - 1
             PROVE  Durable(r, i)
    BY DEF StepsFollowDurableResults
<1>1. runner[r][g] \in Execution /\ Knows(r, runner[r][g]) /\ Passed(runner[r][g])
    BY DEF DurableInv, RuntimeInv, RuntimeTypeOK, RunnersAreInformed
<1>2. i \in Steps /\ i < runner[r][g].at
    BY <1>1, ProgramAssumption DEF Execution, ExecutionRecord, Steps
<1>3. /\ Program[i].kind # "await" => result[r][Program[i].phase] # 0
      /\ Program[i].kind = "await" => asking[r][Program[i].name] \in Answered
    BY <1>1, <1>2 DEF Passed, Knows
<1> QED
    BY <1>2, <1>3 DEF Durable, DurableInv, OnRecord, ResultsAreConfirmed, Answered

(* Whatever is lost, replayed, recovered or answered in between: every     *)
(* activity that a runner performs, or is permitted to, finds the outcome  *)
(* of every earlier step durable.                                          *)
THEOREM StepsStandOnTheRecord == RuntimeSpec => []StepsFollowDurableResults
<1>1. RuntimeInit => RuntimeInv /\ DurableInv
    BY InitEstablishesTheInvariant, InitIsDurable
<1>2. RuntimeInv /\ [RuntimeNext]_allVars => RuntimeInv'
    BY StepKeepsTheInvariant
<1>3. DurableInv /\ RuntimeInv' /\ [RuntimeNext]_allVars => DurableInv'
    BY StepStaysDurable
<1>4. DurableInv => StepsFollowDurableResults
    BY InformedRunnersStandOnTheRecord
<1> QED
    BY <1>1, <1>2, <1>3, <1>4, PTL DEF RuntimeSpec, allVars

-----------------------------------------------------------------------------
(* A Run that succeeded is complete.                                       *)

(* The dispatch that reports a success has been told so by the runner of   *)
(* the claim in force, at the end of the body: every step is durable, and  *)
(* the answers it was given are applied or are being applied.  An answer   *)
(* can be taken away from a Run that failed only, which has no claim in    *)
(* force; and a Run is not claimed again before its dispatch has ended.    *)
Stages == {"idle", "executing", "returned", "failing", "reconciling", "lost", "holding",
           "recording", "judging", "parking", "releasing"}

DispatchRecord == [stage : Stages, of : Nat, outcome : {"none", "suspended"} \cup Completed,
                   applying : SUBSET Gate, asked : SUBSET Gate, open : BOOLEAN]

CompletionTypes ==
    /\ state \in [Run -> RunStates]
    /\ generation \in [Run -> Nat] /\ claim \in [Run -> Nat] /\ slot \in [Run -> Nat]
    /\ inability \in [Run -> [Gate -> BOOLEAN]]
    /\ dispatch \in [Run -> DispatchRecord]
    /\ \A r \in Run :
          /\ dispatch[r].stage = "executing" => dispatch[r].of \in Generations
          /\ dispatch[r].stage = "returned" => dispatch[r].outcome # "none"

EndedRunsHoldNoSlot == \A r \in Run : state[r] \in Terminal => slot[r] = 0

(* A wake-up is taken away, or not made, only where the Verdict is known   *)
(* never to be applied.                                                    *)
WakeupsAreNotRevived ==
    \A r \in Run, k \in Gate :
        inability[r][k] => asking[r][k] = "recorded" /\ wakeup[r][k] # "pending"

ConfirmedIsPerformed ==
    \A r \in Run :
        /\ \A a \in Action : action[r][a] = "result-confirmed" => performed[r][a] >= 1
        /\ \A g \in Generations :
              runner[r][g].mode = "performed" /\ Standing(r, g).kind = "action" =>
                  performed[r][Standing(r, g).name] >= 1

Acknowledged(r, k) ==
    \/ wakeup[r][k] = "applied"
    \/ wakeup[r][k] = "pending" /\ k \in dispatch[r].applying

AnswersAreBeingApplied(r) ==
    dispatch[r].stage = "executing" /\ Authorised(r, dispatch[r].of) =>
        \A k \in runner[r][dispatch[r].of].answers : Acknowledged(r, k)

SuccessIsComplete(r) ==
    /\ dispatch[r].stage = "returned" /\ dispatch[r].outcome = "succeeded"
    /\ Authorised(r, dispatch[r].of)
    => \A i \in Steps : /\ Durable(r, i)
                        /\ Program[i].kind = "await" => Acknowledged(r, Program[i].name)

CompletionInv ==
    /\ CompletionTypes
    /\ EndedRunsHoldNoSlot
    /\ WakeupsAreNotRevived
    /\ ConfirmedIsPerformed
    /\ \A r \in Run : AnswersAreBeingApplied(r) /\ SuccessIsComplete(r)
    /\ SucceededRunsAreComplete

(* What a step does not do: claim a Run, end a Run that keeps its slot, or *)
(* make one succeed.                                                       *)
StoreMoves ==
    /\ state' \in [Run -> RunStates]
    /\ generation' \in [Run -> Nat] /\ claim' \in [Run -> Nat] /\ slot' \in [Run -> Nat]
    /\ \A r \in Run :
          /\ claim'[r] \in {0, claim[r]} /\ slot'[r] \in {0, slot[r]}
          /\ state'[r] \in Terminal => state'[r] = state[r] \/ slot'[r] = 0
          /\ state'[r] = "succeeded" => state[r] = "succeeded"

(* Take back an answer of a Run that can still apply it.                   *)
GateMoves ==
    /\ inability' \in [Run -> [Gate -> BOOLEAN]]
    /\ \A r \in Run, k \in Gate :
          /\ inability'[r][k] => asking'[r][k] = "recorded" /\ wakeup'[r][k] # "pending"
          /\ wakeup[r][k] = "applied" => wakeup'[r][k] = "applied"
          /\ wakeup[r][k] = "pending" => wakeup'[r][k] \in {"pending", "applied"} \/ slot[r] = 0

(* Begin a dispatch, let it return, or tell its runner anything new.       *)
DispatchMoves ==
    /\ dispatch' \in [Run -> DispatchRecord]
    /\ \A r \in Run : dispatch'[r].stage \in {"executing", "returned"} =>
          /\ dispatch'[r] = dispatch[r]
          /\ dispatch[r].stage = "executing" =>
                runner'[r][dispatch[r].of].answers \subseteq runner[r][dispatch[r].of].answers

CompletingInv == DurableInv /\ CompletionInv

LEMMA DurableStays ==
    ASSUME DurableInv, Remembers, NEW r \in Run, NEW i \in Steps, Durable(r, i)
    PROVE  Durable(r, i)'
<1>1. /\ Program[i].kind # "await" => Program[i].phase \in Phase
      /\ Program[i].kind = "await" => Program[i].name \in Gate
    BY ProgramAssumption
<1> QED
    BY <1>1 DEF Durable, Remembers, OnRecord, ResultsAreConfirmed, Answered, Steps

(* A Run whose dispatch and claim are left alone.                          *)
LEMMA DispatchStays ==
    ASSUME CompletingInv, Remembers, GateMoves, NEW r \in Run,
           claim'[r] \in {0, claim[r]}, slot'[r] \in {0, slot[r]},
           dispatch'[r] = dispatch[r],
           dispatch[r].stage = "executing" =>
               runner'[r][dispatch[r].of].answers \subseteq runner[r][dispatch[r].of].answers
    PROVE  AnswersAreBeingApplied(r)' /\ SuccessIsComplete(r)'
<1> DEFINE g == dispatch[r].of
<1>1. Authorised(r, g)' => Authorised(r, g) /\ slot[r] # 0
    BY DEF Authorised
<1>2. ASSUME NEW k \in Gate, slot[r] # 0, Acknowledged(r, k)
      PROVE  Acknowledged(r, k)'
    BY <1>2 DEF GateMoves, Acknowledged
<1>3. AnswersAreBeingApplied(r)'
  <2>1. dispatch[r].stage = "executing" => runner[r][g].answers \subseteq Gate
    BY DEF CompletingInv, CompletionInv, CompletionTypes, DurableInv, RuntimeInv, RuntimeTypeOK,
       Execution, ExecutionRecord
  <2>2. AnswersAreBeingApplied(r)
    BY DEF CompletingInv, CompletionInv
  <2> QED
    BY <1>1, <1>2, <2>1, <2>2 DEF AnswersAreBeingApplied
<1>4. SuccessIsComplete(r)'
  <2>1. SuccessIsComplete(r)
    BY DEF CompletingInv, CompletionInv
  <2>2. \A i \in Steps : Program[i].kind = "await" => Program[i].name \in Gate
    BY ProgramAssumption
  <2>3. \A i \in Steps : Durable(r, i) => Durable(r, i)'
    BY DurableStays DEF CompletingInv
  <2> QED
    BY <1>1, <1>2, <2>1, <2>2, <2>3 DEF SuccessIsComplete, Steps
<1> QED
    BY <1>3, <1>4

(* A Run that succeeded stays complete.                                    *)
LEMMA SuccessStays ==
    ASSUME CompletingInv, Remembers, GateMoves, ConfirmedIsPerformed', NEW r \in Run,
           state[r] = "succeeded"
    PROVE  /\ \A i \in Steps : Durable(r, i)'
           /\ \A i \in Steps : Program[i].kind = "action" => performed'[r][Program[i].name] >= 1
           /\ \A i \in Steps : Program[i].kind = "await" => wakeup'[r][Program[i].name] = "applied"
<1>1. /\ \A i \in Steps : Durable(r, i)
      /\ \A i \in Steps : Program[i].kind = "await" => wakeup[r][Program[i].name] = "applied"
    BY DEF CompletingInv, CompletionInv, SucceededRunsAreComplete
<1>2. \A i \in Steps : Durable(r, i)'
    BY <1>1, DurableStays DEF CompletingInv
<1>3. ASSUME NEW i \in Steps, Program[i].kind = "action"
      PROVE  performed'[r][Program[i].name] >= 1
    BY <1>2, <1>3, ProgramAssumption DEF ConfirmedIsPerformed, Durable
<1>4. ASSUME NEW i \in Steps, Program[i].kind = "await"
      PROVE  wakeup'[r][Program[i].name] = "applied"
    BY <1>1, <1>4, ProgramAssumption DEF GateMoves
<1> QED
    BY <1>2, <1>3, <1>4

LEMMA EndedRunsStay ==
    ASSUME CompletingInv, StoreMoves
    PROVE  EndedRunsHoldNoSlot'
BY DEF CompletingInv, CompletionInv, StoreMoves, EndedRunsHoldNoSlot

(* What the steps of every kind but four come down to.                     *)
Completes == StoreMoves /\ GateMoves /\ DispatchMoves /\ ConfirmedIsPerformed'

LEMMA CompletesKeeps ==
    ASSUME CompletingInv, Remembers, Completes
    PROVE  CompletionInv'
<1>1. CompletionTypes'
    BY DEF Completes, StoreMoves, GateMoves, DispatchMoves, CompletionTypes, CompletingInv,
       CompletionInv, Generations
<1>2. EndedRunsHoldNoSlot'
    BY EndedRunsStay DEF Completes
<1>3. WakeupsAreNotRevived'
    BY DEF Completes, GateMoves, WakeupsAreNotRevived
<1>4. ASSUME NEW r \in Run
      PROVE  AnswersAreBeingApplied(r)' /\ SuccessIsComplete(r)'
  <2>1. CASE dispatch'[r].stage \in {"executing", "returned"}
    BY <2>1, DispatchStays DEF Completes, StoreMoves, DispatchMoves
  <2>2. CASE dispatch'[r].stage \notin {"executing", "returned"}
    BY <2>2 DEF AnswersAreBeingApplied, SuccessIsComplete
  <2> QED
    BY <2>1, <2>2
<1>5. SucceededRunsAreComplete'
  <2> SUFFICES ASSUME NEW r \in Run, state'[r] = "succeeded"
               PROVE  /\ \A i \in Steps : Durable(r, i)'
                      /\ \A i \in Steps :
                            Program[i].kind = "action" => performed'[r][Program[i].name] >= 1
                      /\ \A i \in Steps :
                            Program[i].kind = "await" => wakeup'[r][Program[i].name] = "applied"
    BY DEF SucceededRunsAreComplete, Steps
  <2>1. state[r] = "succeeded"
    BY DEF Completes, StoreMoves
  <2> QED
    BY <2>1, SuccessStays DEF Completes
<1> QED
    BY <1>1, <1>2, <1>3, <1>4, <1>5 DEF CompletionInv, Completes

-----------------------------------------------------------------------------
(* The transactions of the three repositories.                             *)

LEMMA SameStore ==
    ASSUME CompletingInv, UNCHANGED <<state, claimVars>>
    PROVE  StoreMoves
BY DEF CompletingInv, CompletionInv, CompletionTypes, StoreMoves, claimVars

LEMMA SameGates ==
    ASSUME CompletingInv, UNCHANGED gateVars
    PROVE  GateMoves
BY DEF CompletingInv, CompletionInv, CompletionTypes, WakeupsAreNotRevived, GateMoves, gateVars,
   DurableInv, OnRecord, StoreTypes

LEMMA AdmissionMoves ==
    ASSUME CompletingInv,
           \/ \E r \in Run : \E n : AdmitAndActivate(r, n)
           \/ \E blocked : ReserveNext(blocked)
    PROVE  StoreMoves
BY DEF CompletingInv, CompletionInv, CompletionTypes, StoreMoves, AdmitAndActivate, Insert,
   ReserveNext, claimVars, RunStates, Terminal, Completed

LEMMA RecoveryMoves ==
    ASSUME CompletingInv,
           \/ \E deferred : RecoverInterrupted(deferred)
           \/ \E p : RecoverAfterRestart(p) \/ HoldAfterRestart(p) \/ RepairHolds(p)
           \/ \E r \in Run : \E g : RecoverRunnerFailure(r, g)
    PROVE  StoreMoves
<1>1. PICK S \in SUBSET Run, T \in SUBSET Run, v \in {"queued", "held"} :
        /\ state' = Assign(state, S, v) /\ slot' = Assign(slot, T, 0)
        /\ claim' = claim /\ generation' = generation
  <2>1. CASE \E deferred : RecoverInterrupted(deferred)
    <3>1. PICK S \in SUBSET Run : Requeue(S) /\ claim' = claim /\ generation' = generation
        BY <2>1 DEF RecoverInterrupted
    <3> QED
        BY <3>1 DEF Requeue, ReleaseSlot
  <2>2. CASE \E p : RecoverAfterRestart(p)
    <3>1. PICK S \in SUBSET Run : Requeue(S) /\ claim' = claim /\ generation' = generation
        BY <2>2 DEF RecoverAfterRestart, Executing, InProject
    <3> QED
        BY <3>1 DEF Requeue, ReleaseSlot
  <2>3. CASE \E r \in Run : \E g : RecoverRunnerFailure(r, g)
    <3>1. PICK S \in SUBSET Run : Requeue(S) /\ claim' = claim /\ generation' = generation
        BY <2>3 DEF RecoverRunnerFailure
    <3> QED
        BY <3>1 DEF Requeue, ReleaseSlot
  <2>4. CASE \E p : HoldAfterRestart(p)
    <3>1. PICK S \in SUBSET Run : /\ state' = Assign(state, S, "held") /\ ReleaseSlot(S)
                                  /\ claim' = claim /\ generation' = generation
        BY <2>4 DEF HoldAfterRestart, InProject
    <3> QED
        BY <3>1 DEF ReleaseSlot
  <2>5. CASE \E p : RepairHolds(p)
    <3>1. PICK S \in SUBSET Run : /\ state' = Assign(state, S, "queued")
                                  /\ UNCHANGED claimVars
        BY <2>5 DEF RepairHolds, InProject
    <3>2. slot' = Assign(slot, {}, 0)
        BY <3>1 DEF Assign, claimVars, CompletingInv, CompletionInv, CompletionTypes
    <3> QED
        BY <3>1, <3>2 DEF claimVars
  <2> QED
    BY <2>1, <2>2, <2>3, <2>4, <2>5
<1>2. /\ state \in [Run -> RunStates] /\ slot \in [Run -> Nat]
      /\ claim \in [Run -> Nat] /\ generation \in [Run -> Nat]
    BY DEF CompletingInv, CompletionInv, CompletionTypes
<1>3. /\ state' \in [Run -> RunStates] /\ slot' \in [Run -> Nat]
      /\ \A r \in Run : state'[r] \in {state[r], v} /\ slot'[r] \in {0, slot[r]}
    BY <1>1, <1>2 DEF Assign, RunStates
<1> QED
    BY <1>1, <1>2, <1>3 DEF StoreMoves, Terminal, Completed

LEMMA ActionMoves ==
    ASSUME CompletingInv, NEW r \in Run, NEW g, NEW a,
           \/ BeginAction(r, g, a) \/ ConfirmResult(r, g, a) \/ HoldOpen(r)
           \/ SettleAfterRunnerTermination(r, g) \/ AuthorizeRetry(r, a)
    PROVE  StoreMoves
<1>1. /\ state \in [Run -> RunStates] /\ slot \in [Run -> Nat]
      /\ claim \in [Run -> Nat] /\ generation \in [Run -> Nat]
    BY DEF CompletingInv, CompletionInv, CompletionTypes
<1>2. generation' = generation
    BY DEF BeginAction, ConfirmResult, HoldOpen, SettleAfterRunnerTermination, AuthorizeRetry,
       claimVars
<1>3. state' = state \/ \E v \in {state[r], "held", "queued"} : state' = [state EXCEPT ![r] = v]
  <2>1. CASE BeginAction(r, g, a)
    BY <2>1 DEF BeginAction
  <2>2. CASE ConfirmResult(r, g, a)
    BY <2>2 DEF ConfirmResult
  <2>3. CASE HoldOpen(r)
    BY <2>3 DEF HoldOpen
  <2>4. CASE SettleAfterRunnerTermination(r, g)
    BY <2>4 DEF SettleAfterRunnerTermination, QueueHeldRun
  <2>5. CASE AuthorizeRetry(r, a)
    BY <2>5 DEF AuthorizeRetry, QueueHeldRun
  <2> QED
    BY <2>1, <2>2, <2>3, <2>4, <2>5
<1>4. \/ claim' = claim /\ slot' = slot
      \/ claim' = Assign(claim, {r}, 0) /\ slot' = Assign(slot, {r}, 0)
    BY DEF BeginAction, ConfirmResult, HoldOpen, SettleAfterRunnerTermination, AuthorizeRetry,
       claimVars, ReleaseSlot, ReleaseClaim
<1>5. /\ claim' \in [Run -> Nat] /\ slot' \in [Run -> Nat]
      /\ \A q \in Run : claim'[q] \in {0, claim[q]} /\ slot'[q] \in {0, slot[q]}
    BY <1>1, <1>4 DEF Assign
<1>6. /\ state' \in [Run -> RunStates]
      /\ \A q \in Run : state'[q] \in {state[q], "held", "queued"}
    BY <1>1, <1>3 DEF RunStates
<1> QED
    BY <1>1, <1>2, <1>5, <1>6 DEF StoreMoves, Terminal, Completed

LEMMA SuspensionMoves ==
    ASSUME CompletingInv, NEW r \in Run, NEW g, NEW k, CreateAskingAndSuspend(r, g, k)
    PROVE  StoreMoves /\ GateMoves
<1>1. /\ state' = [state EXCEPT ![r] = "suspended"] /\ generation' = generation
      /\ claim' = Assign(claim, {r}, 0) /\ slot' = Assign(slot, {r}, 0)
      /\ UNCHANGED <<wakeup, inability>>
    BY DEF CreateAskingAndSuspend, ReleaseSlot, ReleaseClaim
<1>2. StoreMoves
    BY <1>1 DEF CompletingInv, CompletionInv, CompletionTypes, StoreMoves, Assign, RunStates,
       Terminal, Completed
<1>3. asking[r][k] = "none" /\ asking' = [asking EXCEPT ![r][k] = "unanswered"]
    BY DEF CreateAskingAndSuspend
<1>4. asking \in [Run -> [Gate -> {"none", "unanswered"} \cup Answered]]
    BY DEF CompletingInv, DurableInv, OnRecord, StoreTypes
<1>5. \A q \in Run, j \in Gate : asking[q][j] = "recorded" => asking'[q][j] = "recorded"
    BY <1>3, <1>4
<1>6. GateMoves
    BY <1>1, <1>5 DEF CompletingInv, CompletionInv, CompletionTypes, WakeupsAreNotRevived,
       GateMoves, DurableInv, OnRecord, StoreTypes
<1> QED
    BY <1>2, <1>6

LEMMA AnswerMoves ==
    ASSUME CompletingInv, NEW r \in Run, NEW k \in Gate,
           RecordVerdict(r, k) \/ Expire(r, k) \/ DeadlinePasses(r, k)
    PROVE  StoreMoves /\ GateMoves
<1>1. /\ state \in [Run -> RunStates] /\ inability \in [Run -> [Gate -> BOOLEAN]]
      /\ wakeup \in [Run -> [Gate -> {"none", "pending", "applied"}]]
      /\ \A q \in Run, j \in Gate : wakeup[q][j] # "none" => asking[q][j] \in Answered
      /\ \A q \in Run, j \in Gate :
            inability[q][j] => asking[q][j] = "recorded" /\ wakeup[q][j] # "pending"
    BY DEF CompletingInv, CompletionInv, CompletionTypes, WakeupsAreNotRevived,
       DurableInv, OnRecord, StoreTypes, WakeupsFollowAnswers
<1>2. CASE DeadlinePasses(r, k)
  <2>1. UNCHANGED <<state, claimVars, asking, wakeup, inability>>
    BY <1>2 DEF DeadlinePasses, vars
  <2> QED
    BY <1>1, <2>1, SameStore DEF GateMoves
<1>3. CASE RecordVerdict(r, k) \/ Expire(r, k)
  <2>1. asking[r][k] = "unanswered" /\ wakeup[r][k] = "none"
    BY <1>1, <1>3 DEF RecordVerdict, Expire, Answered
  <2>2. /\ UNCHANGED claimVars
        /\ \E v \in {state[r], "queued"} : state' = [state EXCEPT ![r] = v]
    BY <1>1, <1>3 DEF RecordVerdict, Expire, Schedule
  <2>3. StoreMoves
    BY <2>2 DEF CompletingInv, CompletionInv, CompletionTypes, StoreMoves, RunStates, Terminal,
       Completed, claimVars
  <2>4. /\ \E v \in {"recorded", "expired"} : asking' = [asking EXCEPT ![r][k] = v]
        /\ \/ /\ inability' = [inability EXCEPT ![r][k] = TRUE] /\ wakeup' = wakeup
              /\ asking' = [asking EXCEPT ![r][k] = "recorded"]
           \/ inability' = inability /\ wakeup' = [wakeup EXCEPT ![r][k] = "pending"]
    BY <1>3, <2>1 DEF RecordVerdict, Expire, Schedule
  <2>5. asking \in [Run -> [Gate -> {"none", "unanswered"} \cup Answered]]
    BY DEF CompletingInv, DurableInv, OnRecord, StoreTypes
  <2>8. ~inability[r][k]
    BY <1>1, <2>1
  <2>6. \A q \in Run, j \in Gate : ~(q = r /\ j = k) =>
              /\ asking'[q][j] = asking[q][j] /\ wakeup'[q][j] = wakeup[q][j]
              /\ inability'[q][j] = inability[q][j]
    BY <1>1, <2>4, <2>5
  <2>7. /\ inability'[r][k] => asking'[r][k] = "recorded" /\ wakeup'[r][k] # "pending"
        /\ inability' \in [Run -> [Gate -> BOOLEAN]]
    <3>1. CASE /\ inability' = [inability EXCEPT ![r][k] = TRUE] /\ wakeup' = wakeup
               /\ asking' = [asking EXCEPT ![r][k] = "recorded"]
        BY <1>1, <2>1, <2>5, <3>1
    <3>2. CASE inability' = inability /\ wakeup' = [wakeup EXCEPT ![r][k] = "pending"]
        BY <1>1, <2>8, <3>2
    <3> QED
        BY <2>4, <3>1, <3>2
  <2>9. ASSUME NEW q \in Run, NEW j \in Gate
        PROVE  /\ inability'[q][j] => asking'[q][j] = "recorded" /\ wakeup'[q][j] # "pending"
               /\ wakeup[q][j] = "applied" => wakeup'[q][j] = "applied"
               /\ wakeup[q][j] = "pending" => wakeup'[q][j] = "pending"
    <3>1. CASE q = r /\ j = k
        BY <2>1, <2>7, <3>1
    <3>2. CASE ~(q = r /\ j = k)
        BY <1>1, <2>6, <3>2
    <3> QED
        BY <3>1, <3>2
  <2> QED
    BY <2>3, <2>7, <2>9 DEF GateMoves
<1> QED
    BY <1>2, <1>3

LEMMA ApplicationMoves ==
    ASSUME CompletingInv, NEW r \in Run, NEW g, NEW k \in Gate, MarkApplied(r, g, k)
    PROVE  StoreMoves /\ GateMoves
<1>1. /\ UNCHANGED <<inability, vars>> /\ wakeup[r][k] = "pending"
      /\ wakeup' = [wakeup EXCEPT ![r][k] = "applied"]
      /\ asking' = [asking EXCEPT ![r][k] = IF @ = "expired" THEN @ ELSE "applied"]
    BY DEF MarkApplied
<1>2. StoreMoves
    BY <1>1, SameStore DEF vars
<1>3. /\ wakeup \in [Run -> [Gate -> {"none", "pending", "applied"}]]
      /\ asking \in [Run -> [Gate -> {"none", "unanswered"} \cup Answered]]
      /\ inability \in [Run -> [Gate -> BOOLEAN]]
    BY DEF CompletingInv, CompletionInv, CompletionTypes, DurableInv, OnRecord, StoreTypes
<1>4. \A q \in Run, j \in Gate :
         inability[q][j] => asking[q][j] = "recorded" /\ wakeup[q][j] # "pending"
    BY DEF CompletingInv, CompletionInv, WakeupsAreNotRevived
<1>5. \A q \in Run, j \in Gate :
         \/ asking'[q][j] = asking[q][j] /\ wakeup'[q][j] = wakeup[q][j]
         \/ wakeup[q][j] = "pending" /\ wakeup'[q][j] = "applied"
    BY <1>1, <1>3
<1> QED
    BY <1>1, <1>2, <1>3, <1>4, <1>5 DEF GateMoves

LEMMA ReconciliationMoves ==
    ASSUME CompletingInv, ReconcileTerminalInabilities
    PROVE  StoreMoves /\ GateMoves
<1>1. /\ UNCHANGED <<asking, vars>>
      /\ inability' = [r \in Run |-> [k \in Gate |->
            inability[r][k] \/ (state[r] \in {"failed", "cancelled"} /\ asking[r][k] = "recorded")]]
      /\ wakeup' = [r \in Run |-> [k \in Gate |->
            IF inability'[r][k] /\ wakeup[r][k] = "pending" THEN "none" ELSE wakeup[r][k]]]
    BY DEF ReconcileTerminalInabilities
<1>2. StoreMoves
    BY <1>1, SameStore DEF vars
<1>3. /\ wakeup \in [Run -> [Gate -> {"none", "pending", "applied"}]]
      /\ inability \in [Run -> [Gate -> BOOLEAN]]
      /\ \A r \in Run, k \in Gate :
            inability[r][k] => asking[r][k] = "recorded" /\ wakeup[r][k] # "pending"
      /\ \A r \in Run : state[r] \in {"failed", "cancelled"} => slot[r] = 0
    BY DEF CompletingInv, CompletionInv, CompletionTypes, DurableInv, OnRecord, StoreTypes,
       WakeupsAreNotRevived, EndedRunsHoldNoSlot, Terminal, Completed
<1>4. inability' \in [Run -> [Gate -> BOOLEAN]]
    BY <1>1, <1>3
<1> QED
    BY <1>1, <1>2, <1>3, <1>4 DEF GateMoves

-----------------------------------------------------------------------------
(* Dispatches, runners and performed actions.                              *)

AnswersStay ==
    \A r \in Run, g \in Generations : runner'[r][g].answers \subseteq runner[r][g].answers

LEMMA SameRunnersKeepAnswers ==
    ASSUME UNCHANGED runner PROVE AnswersStay
BY DEF AnswersStay

LEMMA MovedRunnerKeepsAnswers ==
    ASSUME CompletingInv, NEW r \in Run, NEW g, NEW x, runner' = [runner EXCEPT ![r][g] = x],
           g \in Generations => x.answers \subseteq runner[r][g].answers
    PROVE  AnswersStay
<1>1. runner \in [Run -> [Generations -> Execution]]
    BY DEF CompletingInv, DurableInv, RuntimeInv, RuntimeTypeOK
<1>2. \A q \in Run, h \in Generations :
         runner'[q][h] = IF q = r /\ h = g THEN x ELSE runner[q][h]
    BY <1>1
<1> QED
    BY <1>2 DEF AnswersStay

LEMMA StoppedRunnerKeepsAnswers ==
    ASSUME CompletingInv, NEW r \in Run, NEW g, runner' = [runner EXCEPT ![r][g] = NoRunner]
    PROVE  AnswersStay
BY MovedRunnerKeepsAnswers DEF NoRunner

LEMMA SameDispatches ==
    ASSUME CompletingInv, AnswersStay, UNCHANGED dispatch
    PROVE  DispatchMoves
BY DEF CompletingInv, CompletionInv, CompletionTypes, DispatchMoves, AnswersStay

LEMMA DispatchSet ==
    ASSUME CompletingInv, AnswersStay, NEW r \in Run, NEW d \in DispatchRecord,
           d.stage \notin {"executing", "returned"}, dispatch' = [dispatch EXCEPT ![r] = d]
    PROVE  DispatchMoves
<1>1. /\ dispatch \in [Run -> DispatchRecord]
      /\ \A q \in Run : dispatch[q].stage = "executing" => dispatch[q].of \in Generations
    BY DEF CompletingInv, CompletionInv, CompletionTypes
<1>2. dispatch' \in [Run -> DispatchRecord]
    BY <1>1
<1>3. \A q \in Run : dispatch'[q] = IF q = r THEN d ELSE dispatch[q]
    BY <1>1
<1> QED
    BY <1>1, <1>2, <1>3 DEF DispatchMoves, AnswersStay

LEMMA StageSet ==
    ASSUME CompletingInv, AnswersStay, NEW r \in Run,
           NEW s \in Stages \ {"executing", "returned"}, NEW o \in BOOLEAN,
           SetStage(r, s) \/ dispatch' = [dispatch EXCEPT ![r].stage = s, ![r].open = o]
    PROVE  DispatchMoves
<1>1. dispatch \in [Run -> DispatchRecord]
    BY DEF CompletingInv, CompletionInv, CompletionTypes
<1> DEFINE d == [dispatch[r] EXCEPT !.stage = s]
           e == [dispatch[r] EXCEPT !.stage = s, !.open = o]
<1>2. d \in DispatchRecord /\ e \in DispatchRecord /\ d.stage = s /\ e.stage = s
    BY <1>1 DEF DispatchRecord
<1>3. dispatch' = [dispatch EXCEPT ![r] = d] \/ dispatch' = [dispatch EXCEPT ![r] = e]
    BY <1>1 DEF SetStage
<1> HIDE DEF d, e
<1> QED
    BY <1>2, <1>3, DispatchSet

LEMMA DispatchEnds ==
    ASSUME CompletingInv, AnswersStay, NEW r \in Run, EndDispatch(r)
    PROVE  DispatchMoves
<1>1. Idle \in DispatchRecord /\ Idle.stage = "idle"
    BY DEF Idle, DispatchRecord, Stages
<1> QED
    BY <1>1, DispatchSet DEF EndDispatch

(* No runner has performed anything, and no action is confirmed, that was  *)
(* not before.                                                             *)
LEMMA SamePerformed ==
    ASSUME CompletingInv, UNCHANGED performed,
           \A r \in Run, a \in Action :
               action'[r][a] = "result-confirmed" => action[r][a] = "result-confirmed",
           \A r \in Run, g \in Generations :
               runner'[r][g].mode = "performed" => runner'[r][g] = runner[r][g]
    PROVE  ConfirmedIsPerformed'
BY DEF CompletingInv, CompletionInv, ConfirmedIsPerformed, Standing, Generations

LEMMA SamePerformedByAll ==
    ASSUME CompletingInv, UNCHANGED <<performed, action, runner>>
    PROVE  ConfirmedIsPerformed'
BY SamePerformed

LEMMA SamePerformedByOthers ==
    ASSUME CompletingInv, UNCHANGED <<performed, action>>, NEW r \in Run, NEW g, NEW x,
           x.mode # "performed", runner' = [runner EXCEPT ![r][g] = x]
    PROVE  ConfirmedIsPerformed'
<1>1. runner \in [Run -> [Generations -> Execution]]
    BY DEF CompletingInv, DurableInv, RuntimeInv, RuntimeTypeOK
<1>2. \A q \in Run, h \in Generations :
         runner'[q][h].mode = "performed" => runner'[q][h] = runner[q][h]
    BY <1>1
<1> QED
    BY <1>2, SamePerformed

LEMMA StoppedHasNotPerformed == NoRunner.mode # "performed"
BY DEF NoRunner

-----------------------------------------------------------------------------
(* The steps of the engine.                                                *)

LEMMA RunnerStoppedCompletes ==
    ASSUME CompletingInv, UNCHANGED <<vars, gateVars, action, historyVars>>, DispatchMoves,
           NEW r \in Run, NEW g, runner' = [runner EXCEPT ![r][g] = NoRunner]
    PROVE  Completes
BY SameStore, SameGates, StoppedHasNotPerformed, SamePerformedByOthers
DEF Completes, vars, historyVars

LEMMA ReplayCompletes ==
    ASSUME CompletingInv, NEW r \in Run, NEW g \in Generations, Replay(r, g)
    PROVE  Completes
<1> DEFINE x == [runner[r][g] EXCEPT !.at = @ + 1]
<1>1. runner[r][g] \in ExecutionRecord
    BY RunnerMoves DEF RunnerModes, CompletingInv, DurableInv
<1>2. x.answers = runner[r][g].answers /\ x.mode = "running"
    BY <1>1 DEF ExecutionRecord, Replay
<1>3. /\ runner' = [runner EXCEPT ![r][g] = x]
      /\ UNCHANGED <<vars, gateVars, action, dispatch, performed>>
    BY DEF Replay, historyVars
<1> HIDE DEF x
<1> QED
    BY <1>2, <1>3, SameStore, SameGates, MovedRunnerKeepsAnswers, SameDispatches,
       SamePerformedByOthers DEF Completes, vars

LEMMA BeginCompletes ==
    ASSUME CompletingInv, NEW r \in Run, NEW g \in Generations, Begin(r, g)
    PROVE  Completes
<1> DEFINE a == Standing(r, g).name
           m == IF action'[r][a] = "intended" THEN "permitted" ELSE "dying"
           x == [runner[r][g] EXCEPT !.mode = m]
<1>1. runner[r][g] \in ExecutionRecord
    BY RunnerMoves DEF RunnerModes, CompletingInv, DurableInv
<1>2. x.answers = runner[r][g].answers /\ x.mode # "performed"
    BY <1>1 DEF ExecutionRecord
<1>3. /\ runner' = [runner EXCEPT ![r][g] = x] /\ BeginAction(r, g, a)
      /\ UNCHANGED <<gateVars, dispatch, performed>>
    BY DEF Begin, historyVars
<1>4. a \in Action
    BY StandingIsAStep DEF Begin
<1>5. \A q \in Run, b \in Action :
         action'[q][b] = "result-confirmed" => action[q][b] = "result-confirmed"
  <2>1. /\ action'[r][a] # "result-confirmed"
        /\ \A q \in Run, b \in Action : <<q, b>> # <<r, a>> => action'[q][b] = action[q][b]
    BY <1>3, <1>4, BeginTakesTheCredit DEF CompletingInv, DurableInv
  <2> QED
    BY <2>1
<1> HIDE DEF x, a
<1>6. runner \in [Run -> [Generations -> Execution]]
    BY DEF CompletingInv, DurableInv, RuntimeInv, RuntimeTypeOK
<1>7. \A q \in Run, h \in Generations :
         runner'[q][h].mode = "performed" => runner'[q][h] = runner[q][h]
    BY <1>2, <1>3, <1>6
<1> QED
    BY <1>2, <1>3, <1>5, <1>7, ActionMoves, SameGates, MovedRunnerKeepsAnswers, SameDispatches,
       SamePerformed DEF Completes

LEMMA PerformCompletes ==
    ASSUME CompletingInv, NEW r \in Run, NEW g \in Generations, Perform(r, g)
    PROVE  Completes
<1> DEFINE s == Standing(r, g)
<1>1. /\ runner \in [Run -> [Generations -> Execution]] /\ runner[r][g] \in ExecutionRecord
      /\ performed \in [Run -> [Action -> Nat]]
    BY RunnerMoves DEF RunnerModes, CompletingInv, DurableInv, RuntimeInv, RuntimeTypeOK
<1>2. UNCHANGED <<vars, gateVars, action, dispatch>> /\ runner[r][g].at \in Steps
    BY DEF Perform
<1>3. ConfirmedIsPerformed
    BY DEF CompletingInv, CompletionInv
<1>4. PICK x : /\ runner' = [runner EXCEPT ![r][g] = x]
               /\ x.answers = runner[r][g].answers /\ x.at = runner[r][g].at
  <2>1. CASE runner' = [runner EXCEPT ![r][g].mode = "performed"]
    <3> DEFINE x == [runner[r][g] EXCEPT !.mode = "performed"]
    <3>1. /\ runner' = [runner EXCEPT ![r][g] = x]
          /\ x.answers = runner[r][g].answers /\ x.at = runner[r][g].at
        BY <1>1, <2>1 DEF ExecutionRecord
    <3> QED
        BY <3>1
  <2>2. CASE Ask(r, g)
    <3> DEFINE x == [runner[r][g] EXCEPT !.mode = "performed", !.asked = @ \cup {s.name}]
    <3>1. /\ runner' = [runner EXCEPT ![r][g] = x]
          /\ x.answers = runner[r][g].answers /\ x.at = runner[r][g].at
        BY <1>1, <2>2 DEF ExecutionRecord, Ask
    <3> QED
        BY <3>1
  <2> QED
    BY <2>1, <2>2 DEF Perform
<1>5. /\ \A q \in Run, b \in Action : performed'[q][b] >= performed[q][b]
      /\ s.kind = "action" => performed'[r][s.name] >= 1
  <2>1. CASE performed' = performed /\ s.kind # "action"
    BY <1>1, <2>1
  <2>2. CASE s.kind = "action" /\ performed' = [performed EXCEPT ![r][s.name] = @ + 1]
    <3>1. s.name \in Action
        BY <1>2, <2>2, StandingIsAStep
    <3> HIDE DEF s
    <3> QED
        BY <1>1, <2>2, <3>1
  <2> QED
    BY <2>1, <2>2 DEF Perform
<1>a. performed' \in [Run -> [Action -> Nat]]
  <2>1. CASE performed' = performed
    BY <1>1, <2>1
  <2>2. CASE s.kind = "action" /\ performed' = [performed EXCEPT ![r][s.name] = @ + 1]
    <3>1. s.name \in Action
        BY <1>2, <2>2, StandingIsAStep
    <3> HIDE DEF s
    <3> QED
        BY <1>1, <2>2, <3>1
  <2> QED
    BY <2>1, <2>2 DEF Perform
<1>6. \A q \in Run, h \in Generations : runner'[q][h] = IF q = r /\ h = g THEN x ELSE runner[q][h]
    BY <1>1, <1>4
<1>7. ASSUME NEW q \in Run
      PROVE  /\ \A a \in Action : action'[q][a] = "result-confirmed" => performed'[q][a] >= 1
             /\ \A h \in Generations :
                   runner'[q][h].mode = "performed" /\ Standing(q, h)'.kind = "action" =>
                      performed'[q][Standing(q, h)'.name] >= 1
  <2>1. ASSUME NEW a \in Action, action'[q][a] = "result-confirmed"
        PROVE  performed'[q][a] >= 1
    <3>1. performed[q][a] >= 1
        BY <1>2, <1>3, <2>1 DEF ConfirmedIsPerformed
    <3>2. performed'[q][a] >= performed[q][a] /\ performed[q][a] \in Nat
          /\ performed'[q][a] \in Nat
        BY <1>1, <1>5, <1>a
    <3> QED
        BY <3>1, <3>2
  <2>2. ASSUME NEW h \in Generations, runner'[q][h].mode = "performed",
               Standing(q, h)'.kind = "action"
        PROVE  performed'[q][Standing(q, h)'.name] >= 1
    <3>1. CASE q = r /\ h = g
        BY <1>4, <1>5, <1>6, <2>2, <3>1 DEF Standing
    <3>2. CASE ~(q = r /\ h = g)
      <4>1. Standing(q, h)' = Standing(q, h) /\ runner[q][h].mode = "performed"
        BY <1>6, <2>2, <3>2 DEF Standing
      <4>2. performed[q][Standing(q, h).name] >= 1
        BY <1>3, <2>2, <4>1 DEF ConfirmedIsPerformed
      <4>3. Standing(q, h).name \in Action
        BY <1>1, <2>2, <4>1, StandingIsAStep DEF Execution
      <4> QED
        BY <1>1, <1>5, <4>1, <4>2, <4>3, <1>a
    <3> QED
        BY <3>1, <3>2
  <2> QED
    BY <2>1, <2>2
<1>8. ConfirmedIsPerformed'
    BY <1>7 DEF ConfirmedIsPerformed, Generations
<1> QED
    BY <1>2, <1>4, <1>8, SameStore, SameGates, MovedRunnerKeepsAnswers, SameDispatches
    DEF Completes, vars

LEMMA CommitCompletes ==
    ASSUME CompletingInv, NEW r \in Run, NEW g \in Generations, Commit(r, g)
    PROVE  Completes
<1> DEFINE s == Standing(r, g)
           x == [runner[r][g] EXCEPT !.mode = "running", !.at = @ + 1, !.known = @ \cup {s.phase}]
<1>1. /\ runner \in [Run -> [Generations -> Execution]] /\ runner[r][g] \in ExecutionRecord
      /\ runner[r][g].at \in Steps /\ runner[r][g].mode = "performed"
    BY RunnerMoves DEF RunnerModes, CompletingInv, DurableInv, RuntimeInv, RuntimeTypeOK, Commit,
       Execution
<1>2. x.answers = runner[r][g].answers /\ x.mode # "performed"
    BY <1>1 DEF ExecutionRecord
<1>3. runner' = [runner EXCEPT ![r][g] = x] /\ UNCHANGED <<gateVars, dispatch, performed>>
    BY DEF Commit, historyVars
<1>4. StoreMoves
    BY ActionMoves, SameStore DEF Commit, CompletePhase, claimVars
<1>5. ConfirmedIsPerformed
    BY DEF CompletingInv, CompletionInv
<1>6. ASSUME NEW q \in Run, NEW a \in Action, action'[q][a] = "result-confirmed"
      PROVE  performed'[q][a] >= 1
  <2>1. CASE UNCHANGED action
    BY <1>3, <1>5, <1>6, <2>1 DEF ConfirmedIsPerformed
  <2>2. CASE s.kind = "action" /\ ConfirmResult(r, g, s.name)
    <3>1. s.name \in Action /\ performed[r][s.name] >= 1
        BY <1>1, <1>5, <2>2, StandingIsAStep DEF ConfirmedIsPerformed
    <3>2. action' = [action EXCEPT ![r][s.name] = "result-confirmed"]
        BY <2>2 DEF ConfirmResult
    <3>3. action \in [Run -> [Action -> ActionStates]]
        BY DEF CompletingInv, DurableInv, RuntimeInv, RuntimeTypeOK
    <3> HIDE DEF s
    <3>4. (q = r /\ a = s.name) \/ action[q][a] = "result-confirmed"
        BY <1>6, <3>1, <3>2, <3>3
    <3> QED
        BY <1>3, <1>5, <3>1, <3>4 DEF ConfirmedIsPerformed
  <2> QED
    BY <2>1, <2>2 DEF Commit
<1> HIDE DEF x
<1>7. \A q \in Run, h \in Generations :
         runner'[q][h].mode = "performed" => runner'[q][h] = runner[q][h]
    BY <1>1, <1>2, <1>3
<1>8. ConfirmedIsPerformed'
    BY <1>3, <1>5, <1>6, <1>7 DEF ConfirmedIsPerformed, Standing, Generations
<1> QED
    BY <1>2, <1>3, <1>4, <1>8, SameGates, MovedRunnerKeepsAnswers, SameDispatches DEF Completes

(* The runner returns what it has reached: at the end of the body it has   *)
(* passed every step.                                                      *)
LEMMA ReturnKeepsCompletion ==
    ASSUME CompletingInv, Remembers, NEW r \in Run, NEW g \in Generations, Return(r, g)
    PROVE  CompletionInv'
<1>1. PICK outcome \in Outcome(r, g) :
        dispatch' = [dispatch EXCEPT ![r].stage = "returned", ![r].outcome = outcome,
                                     ![r].asked = runner[r][g].asked]
    BY DEF Return
<1>2. /\ dispatch[r].stage = "executing" /\ dispatch[r].of = g
      /\ runner' = [runner EXCEPT ![r][g] = NoRunner]
      /\ UNCHANGED <<vars, gateVars, action, historyVars>>
    BY DEF Return, Connected
<1>3. /\ dispatch \in [Run -> DispatchRecord]
      /\ \A q \in Run : dispatch[q].stage = "executing" => dispatch[q].of \in Generations
      /\ runner[r][g] \in ExecutionRecord
    BY RunnerMoves DEF RunnerModes, CompletingInv, CompletionInv, CompletionTypes, DurableInv
<1> DEFINE d == [dispatch[r] EXCEPT !.stage = "returned", !.outcome = outcome,
                                    !.asked = runner[r][g].asked]
<1>4. /\ d \in DispatchRecord /\ d.stage = "returned" /\ d.outcome = outcome
      /\ outcome # "none"
      /\ d.applying = dispatch[r].applying /\ d.of = g
    BY <1>2, <1>3 DEF DispatchRecord, ExecutionRecord, Outcome, Stages, Completed
<1>5. dispatch' = [dispatch EXCEPT ![r] = d]
    BY <1>1, <1>3
<1> HIDE DEF d
<1>6. \A q \in Run : dispatch'[q] = IF q = r THEN d ELSE dispatch[q]
    BY <1>3, <1>5
<1>7. StoreMoves /\ GateMoves /\ AnswersStay /\ ConfirmedIsPerformed'
    BY <1>2, SameStore, SameGates, StoppedRunnerKeepsAnswers, StoppedHasNotPerformed,
       SamePerformedByOthers DEF vars, historyVars
<1>8. CompletionTypes'
    BY <1>3, <1>4, <1>5, <1>6, <1>7
    DEF StoreMoves, GateMoves, CompletionTypes, Generations, CompletingInv, CompletionInv
<1>9. ASSUME NEW q \in Run
      PROVE  AnswersAreBeingApplied(q)' /\ SuccessIsComplete(q)'
  <2>1. CASE q # r
    BY <1>3, <1>6, <1>7, <2>1, DispatchStays DEF StoreMoves, AnswersStay
  <2>2. CASE q = r
    <3>1. AnswersAreBeingApplied(q)'
        BY <1>4, <1>6, <2>2 DEF AnswersAreBeingApplied
    <3>2. ASSUME outcome = "succeeded", Authorised(r, g)
          PROVE  \A i \in Steps : /\ Durable(r, i)'
                                  /\ Program[i].kind = "await" => Acknowledged(r, Program[i].name)'
      <4> SUFFICES ASSUME NEW i \in Steps
                   PROVE  /\ Durable(r, i)'
                          /\ Program[i].kind = "await" => Acknowledged(r, Program[i].name)'
        OBVIOUS
      <4>1. runner[r][g].at > Last
        BY <3>2 DEF Outcome
      <4>2. /\ Program[i].kind # "await" => Program[i].phase \in runner[r][g].known
            /\ Program[i].kind = "await" => Program[i].name \in runner[r][g].answers
        BY <1>3, <4>1, ProgramAssumption
        DEF CompletingInv, DurableInv, RunnersAreInformed, Passed, Steps, ExecutionRecord
      <4>3. Knows(r, runner[r][g]) /\ ResultsAreConfirmed
        BY DEF CompletingInv, DurableInv, RunnersAreInformed, OnRecord
      <4>4. Durable(r, i)
        BY <4>2, <4>3 DEF Durable, Knows, ResultsAreConfirmed, Answered
      <4>5. Durable(r, i)'
        BY <4>4, DurableStays DEF CompletingInv
      <4>6. Program[i].kind = "await" => Acknowledged(r, Program[i].name)
        BY <1>2, <3>2, <4>2 DEF CompletingInv, CompletionInv, AnswersAreBeingApplied
      <4>7. wakeup' = wakeup
        BY <1>2 DEF gateVars
      <4> QED
        BY <1>4, <1>6, <4>5, <4>6, <4>7 DEF Acknowledged
    <3>3. Authorised(r, g)' = Authorised(r, g)
        BY <1>2 DEF vars, claimVars, Authorised
    <3>4. SuccessIsComplete(q)'
        BY <1>4, <1>6, <2>2, <3>2, <3>3 DEF SuccessIsComplete, Steps
    <3> QED
        BY <3>1, <3>4
  <2> QED
    BY <2>1, <2>2
<1>10. state' = state
    BY <1>2 DEF vars
<1> QED
    BY <1>7, <1>8, <1>9, <1>10, EndedRunsStay, SuccessStays
    DEF CompletionInv, GateMoves, WakeupsAreNotRevived, SucceededRunsAreComplete, Steps

-----------------------------------------------------------------------------
(* The steps of the dispatch.                                              *)

(* The answers are given to the runner with the promise to apply them.     *)
LEMMA StartExecutionKeepsCompletion ==
    ASSUME CompletingInv, Remembers, NEW r \in Run, StartExecution(r)
    PROVE  CompletionInv'
<1> DEFINE g == generation'[r]
           x == [mode |-> "running", at |-> 1,
                 known |-> {f \in Phase : result[r][f] # 0},
                 answers |-> {k \in Gate : wakeup[r][k] # "none"}, asked |-> {}]
           d == [Idle EXCEPT !.stage = "executing", !.of = g,
                             !.applying = {k \in Gate : wakeup[r][k] = "pending"}]
<1>1. /\ dispatch' = [dispatch EXCEPT ![r] = d] /\ runner' = [runner EXCEPT ![r][g] = x]
      /\ UNCHANGED <<gateVars, action, historyVars>>
    BY DEF StartExecution
<1>2. /\ generation[r] < MaxGeneration
      /\ generation' = [generation EXCEPT ![r] = @ + 1]
      /\ claim' = [claim EXCEPT ![r] = generation[r] + 1]
      /\ slot' = [slot EXCEPT ![r] = generation[r] + 1]
      /\ state' = [state EXCEPT ![r] = "executing"]
    BY DEF StartExecution, ClaimReserved, TakeSlot
<1>3. /\ state \in [Run -> RunStates] /\ generation \in [Run -> Nat] /\ claim \in [Run -> Nat]
      /\ slot \in [Run -> Nat] /\ dispatch \in [Run -> DispatchRecord]
      /\ runner \in [Run -> [Generations -> Execution]]
      /\ wakeup \in [Run -> [Gate -> {"none", "pending", "applied"}]]
    BY DEF CompletingInv, CompletionInv, CompletionTypes, DurableInv, RuntimeInv, RuntimeTypeOK,
       OnRecord, StoreTypes
<1>4. g = generation[r] + 1 /\ g \in Generations /\ g \in Nat /\ g # 0
    BY <1>2, <1>3, LimitAssumption DEF Generations
<1>5. /\ d \in DispatchRecord /\ d.stage = "executing" /\ d.of = g
      /\ d.applying = {k \in Gate : wakeup[r][k] = "pending"}
    BY <1>4 DEF Idle, DispatchRecord, Stages
<1>6. x.answers = {k \in Gate : wakeup[r][k] # "none"} /\ x.mode # "performed"
    OBVIOUS
<1> HIDE DEF d, x, g
<1>7. \A q \in Run : dispatch'[q] = IF q = r THEN d ELSE dispatch[q]
    BY <1>1, <1>3
<1>8. /\ \A q \in Run : q # r => runner'[q] = runner[q]
      /\ runner'[r][g] = x
    BY <1>1, <1>3, <1>4
<1>9. GateMoves /\ ConfirmedIsPerformed'
    BY <1>1, <1>6, SameGates, SamePerformedByOthers DEF historyVars
<1>10. /\ state' \in [Run -> RunStates] /\ generation' \in [Run -> Nat]
       /\ claim' \in [Run -> Nat] /\ slot' \in [Run -> Nat]
       /\ \A q \in Run : q # r => claim'[q] = claim[q] /\ slot'[q] = slot[q]
       /\ \A q \in Run : q # r => state'[q] = state[q]
       /\ state'[r] = "executing"
    BY <1>2, <1>3, <1>4 DEF RunStates
<1>11. CompletionTypes'
    BY <1>1, <1>3, <1>4, <1>5, <1>7, <1>9, <1>10
    DEF GateMoves, CompletionTypes, Generations, CompletingInv, CompletionInv
<1>12. ASSUME NEW q \in Run
       PROVE  AnswersAreBeingApplied(q)' /\ SuccessIsComplete(q)'
  <2>1. CASE q # r
    BY <1>7, <1>8, <1>9, <1>10, <2>1, DispatchStays
  <2>2. CASE q = r
    <3>1. SuccessIsComplete(q)'
        BY <1>5, <1>7, <2>2 DEF SuccessIsComplete
    <3>2. wakeup' = wakeup
        BY <1>1 DEF gateVars
    <3>3. ASSUME NEW k \in x.answers
          PROVE  Acknowledged(r, k)'
        BY <1>3, <1>5, <1>6, <1>7, <3>2, <3>3 DEF Acknowledged
    <3>4. AnswersAreBeingApplied(q)'
        BY <1>5, <1>7, <1>8, <2>2, <3>3 DEF AnswersAreBeingApplied
    <3> QED
        BY <3>1, <3>4
  <2> QED
    BY <2>1, <2>2
<1>13. EndedRunsHoldNoSlot'
    BY <1>10 DEF CompletingInv, CompletionInv, EndedRunsHoldNoSlot, Terminal, Completed
<1> QED
    BY <1>9, <1>10, <1>11, <1>12, <1>13, SuccessStays
    DEF CompletionInv, GateMoves, WakeupsAreNotRevived, SucceededRunsAreComplete, Steps

LEMMA ApplyWakeupKeepsCompletion ==
    ASSUME CompletingInv, Remembers, NEW r \in Run, ApplyWakeup(r)
    PROVE  CompletionInv'
<1>1. PICK k \in dispatch[r].applying :
        /\ MarkApplied(r, dispatch[r].of, k)
        /\ dispatch' = [dispatch EXCEPT ![r].applying = @ \ {k}]
    BY DEF ApplyWakeup
<1>2. /\ dispatch[r].stage = "returned" /\ UNCHANGED <<action, runner, performed>>
    BY DEF ApplyWakeup, historyVars
<1>3. /\ dispatch \in [Run -> DispatchRecord]
      /\ wakeup \in [Run -> [Gate -> {"none", "pending", "applied"}]]
    BY DEF CompletingInv, CompletionInv, CompletionTypes, DurableInv, OnRecord, StoreTypes
<1>4. k \in Gate
    BY <1>3 DEF DispatchRecord
<1>5. StoreMoves /\ GateMoves /\ AnswersStay /\ ConfirmedIsPerformed'
    BY <1>1, <1>2, <1>4, ApplicationMoves, SameRunnersKeepAnswers, SamePerformedByAll
<1> DEFINE d == [dispatch[r] EXCEPT !.applying = @ \ {k}]
<1>6. /\ d \in DispatchRecord /\ d.stage = "returned" /\ d.outcome = dispatch[r].outcome
      /\ d.applying = dispatch[r].applying \ {k} /\ d.of = dispatch[r].of
    BY <1>2, <1>3 DEF DispatchRecord
<1>7. dispatch' = [dispatch EXCEPT ![r] = d]
    BY <1>1, <1>3
<1> HIDE DEF d
<1>8. \A q \in Run : dispatch'[q] = IF q = r THEN d ELSE dispatch[q]
    BY <1>3, <1>7
<1>a. \A q \in Run : /\ dispatch[q].stage = "executing" => dispatch[q].of \in Generations
                     /\ dispatch[q].stage = "returned" => dispatch[q].outcome # "none"
    BY DEF CompletionTypes, CompletingInv, CompletionInv
<1>b. dispatch' \in [Run -> DispatchRecord]
    BY <1>3, <1>6, <1>7
<1>9. CompletionTypes'
    BY <1>2, <1>5, <1>6, <1>8, <1>a, <1>b
    DEF StoreMoves, GateMoves, CompletionTypes, Generations
<1>10. /\ wakeup' = [wakeup EXCEPT ![r][k] = "applied"] /\ UNCHANGED vars
    BY <1>1 DEF MarkApplied
<1>11. ASSUME NEW q \in Run
       PROVE  AnswersAreBeingApplied(q)' /\ SuccessIsComplete(q)'
  <2>1. CASE q # r
    BY <1>2, <1>8, <1>5, <2>1, DispatchStays DEF StoreMoves
  <2>2. CASE q = r
    <3>1. AnswersAreBeingApplied(q)'
        BY <1>6, <1>8, <2>2 DEF AnswersAreBeingApplied
    <3>2. ASSUME NEW j \in Gate, Acknowledged(r, j)
          PROVE  Acknowledged(r, j)'
      <4>1. wakeup'[r][j] = IF j = k THEN "applied" ELSE wakeup[r][j]
        BY <1>3, <1>4, <1>10
      <4>2. dispatch'[r].applying = dispatch[r].applying \ {k}
        BY <1>6, <1>8
      <4> QED
        BY <3>2, <4>1, <4>2 DEF Acknowledged
    <3>3. \A i \in Steps : Durable(r, i) => Durable(r, i)'
        BY DurableStays DEF CompletingInv
    <3>4. claim' = claim /\ slot' = slot
        BY <1>10 DEF vars, claimVars
    <3>5. \A i \in Steps : Program[i].kind = "await" => Program[i].name \in Gate
        BY ProgramAssumption
    <3>6. SuccessIsComplete(r)
        BY DEF CompletingInv, CompletionInv
    <3>7. SuccessIsComplete(q)'
      <4>1. dispatch'[r].of = dispatch[r].of /\ dispatch'[r].outcome = dispatch[r].outcome
        BY <1>6, <1>8
      <4>2. SUFFICES ASSUME dispatch[r].outcome = "succeeded", Authorised(r, dispatch[r].of)
                     PROVE  \A i \in Steps :
                               /\ Durable(r, i)'
                               /\ Program[i].kind = "await" => Acknowledged(r, Program[i].name)'
        BY <2>2, <3>4, <4>1 DEF SuccessIsComplete, Authorised, Steps
      <4> QED
        BY <1>2, <3>2, <3>3, <3>4, <3>5, <3>6, <4>1, <4>2 DEF SuccessIsComplete
    <3> QED
        BY <3>1, <3>7
  <2> QED
    BY <2>1, <2>2
<1> QED
    BY <1>5, <1>9, <1>10, <1>11, EndedRunsStay, SuccessStays
    DEF CompletionInv, GateMoves, WakeupsAreNotRevived, SucceededRunsAreComplete, Steps, vars

LEMMA RunCompletes ==
    ASSUME CompletingInv, NEW r \in Run, NEW g, NEW outcome \in Outcomes,
           CompleteRun(r, g, outcome)
    PROVE  /\ state' \in [Run -> RunStates] /\ generation' \in [Run -> Nat]
           /\ claim' \in [Run -> Nat] /\ slot' \in [Run -> Nat]
           /\ claim'[r] = 0 /\ slot'[r] = 0 /\ state'[r] = outcome
           /\ \A q \in Run : q # r => /\ claim'[q] = claim[q] /\ slot'[q] = slot[q]
                                      /\ state'[q] = state[q]
BY DEF CompletingInv, CompletionInv, CompletionTypes, CompleteRun, ReleaseSlot, ReleaseClaim, Assign,
   RunStates, Completed, Outcomes

LEMMA FailureMoves ==
    ASSUME CompletingInv, NEW r \in Run, NEW g, CompleteRun(r, g, "failed")
    PROVE  StoreMoves
BY RunCompletes DEF StoreMoves, Outcomes, Completed

(* A success is committed only after all that the dispatch had to apply.   *)
LEMMA CommitOutcomeKeepsCompletion ==
    ASSUME CompletingInv, Remembers, NEW r \in Run, CommitOutcome(r)
    PROVE  CompletionInv'
<1>1. /\ dispatch[r].stage = "returned" /\ dispatch[r].applying = {}
      /\ EndDispatch(r) /\ UNCHANGED <<action, runner, performed>>
    BY DEF CommitOutcome, historyVars
<1>2. AnswersStay /\ ConfirmedIsPerformed' /\ DispatchMoves
    BY <1>1, SameRunnersKeepAnswers, SamePerformedByAll, DispatchEnds
<1>3. CASE \E k \in dispatch[r].asked : CreateAskingAndSuspend(r, dispatch[r].of, k)
    BY <1>2, <1>3, SuspensionMoves, CompletesKeeps DEF Completes
<1>4. CASE /\ dispatch[r].outcome # "suspended"
           /\ CompleteRun(r, dispatch[r].of, dispatch[r].outcome) /\ UNCHANGED gateVars
  <2>1. CASE dispatch[r].outcome = "failed"
    BY <1>2, <1>4, <2>1, FailureMoves, SameGates, CompletesKeeps DEF Completes
  <2>2. CASE dispatch[r].outcome = "succeeded"
    <3> DEFINE g == dispatch[r].of
    <3>1. /\ state' \in [Run -> RunStates] /\ generation' \in [Run -> Nat]
          /\ claim' \in [Run -> Nat] /\ slot' \in [Run -> Nat]
          /\ slot'[r] = 0
          /\ \A q \in Run : claim'[q] \in {0, claim[q]} /\ slot'[q] \in {0, slot[q]}
          /\ \A q \in Run : q # r => state'[q] = state[q]
        BY <1>4, <2>2, RunCompletes DEF Outcomes, Completed
    <3>2. GateMoves
        BY <1>4, SameGates
    <3>3. CompletionTypes'
        BY <1>2, <3>1, <3>2
        DEF DispatchMoves, GateMoves, CompletionTypes, Generations, CompletingInv, CompletionInv
    <3>4. EndedRunsHoldNoSlot'
        BY <3>1 DEF CompletingInv, CompletionInv, EndedRunsHoldNoSlot
    <3>5. ASSUME NEW q \in Run
          PROVE  AnswersAreBeingApplied(q)' /\ SuccessIsComplete(q)'
      <4>1. CASE dispatch'[q].stage \in {"executing", "returned"}
        BY <1>2, <3>1, <3>2, <4>1, DispatchStays DEF DispatchMoves
      <4>2. CASE dispatch'[q].stage \notin {"executing", "returned"}
        BY <4>2 DEF AnswersAreBeingApplied, SuccessIsComplete
      <4> QED
        BY <4>1, <4>2
    <3>6. \A i \in Steps : /\ Durable(r, i)
                           /\ Program[i].kind = "await" => wakeup[r][Program[i].name] = "applied"
        BY <1>1, <1>4, <2>2
        DEF CompletingInv, CompletionInv, SuccessIsComplete, Acknowledged, CompleteRun
    <3>7. /\ \A i \in Steps : Durable(r, i)'
          /\ \A i \in Steps :
                Program[i].kind = "action" => performed'[r][Program[i].name] >= 1
          /\ \A i \in Steps :
                Program[i].kind = "await" => wakeup'[r][Program[i].name] = "applied"
      <4>1. \A i \in Steps : Durable(r, i)'
        BY <3>6, DurableStays DEF CompletingInv
      <4>2. \A i \in Steps : Program[i].kind = "action" => performed'[r][Program[i].name] >= 1
        BY <1>2, <4>1, ProgramAssumption DEF ConfirmedIsPerformed, Durable
      <4>3. wakeup' = wakeup
        BY <1>4 DEF gateVars
      <4> QED
        BY <3>6, <4>1, <4>2, <4>3
    <3>8. SucceededRunsAreComplete'
        BY <1>2, <3>1, <3>2, <3>7, SuccessStays DEF SucceededRunsAreComplete, Steps
    <3> QED
        BY <1>2, <3>2, <3>3, <3>4, <3>5, <3>8
        DEF CompletionInv, GateMoves, WakeupsAreNotRevived
  <2>3. dispatch[r].outcome \in {"none", "succeeded", "failed"}
    BY <1>4 DEF CompletingInv, CompletionInv, CompletionTypes, DispatchRecord, Completed
  <2>4. dispatch[r].outcome # "none"
    BY <1>1 DEF CompletingInv, CompletionInv, CompletionTypes
  <2> QED
    BY <2>1, <2>2, <2>3, <2>4
<1> QED
    BY <1>3, <1>4 DEF CommitOutcome

LEMMA DispatchStepKeepsCompletion ==
    ASSUME CompletingInv, Remembers, NEW r \in Run, DispatchSteps(r)
    PROVE  CompletionInv'
<1>1. CASE OutcomeRefused(r) \/ Fault(r)
  <2>1. UNCHANGED <<vars, gateVars, action, historyVars>> /\ SetStage(r, "failing")
    BY <1>1 DEF OutcomeRefused, Fault
  <2>2. CASE Fault(r)
    BY <2>1, <2>2, StoppedRunnerKeepsAnswers, StageSet, RunnerStoppedCompletes, CompletesKeeps
    DEF Fault, Stages
  <2>3. CASE OutcomeRefused(r)
    BY <2>1, <2>3, SameRunnersKeepAnswers, StageSet, SameStore, SameGates, SamePerformedByAll,
       CompletesKeeps DEF OutcomeRefused, Stages, Completes, vars, historyVars
  <2> QED
    BY <1>1, <2>2, <2>3
<1>2. CASE FailRun(r)
  <2>1. /\ UNCHANGED <<gateVars, action, runner, performed>> /\ SetStage(r, "reconciling")
        /\ CompleteRun(r, dispatch[r].of, "failed") \/ UNCHANGED vars
    BY <1>2 DEF FailRun, historyVars
  <2>2. StoreMoves
    BY <2>1, FailureMoves, SameStore DEF vars
  <2> QED
    BY <2>1, <2>2, SameRunnersKeepAnswers, StageSet, SameGates, SamePerformedByAll, CompletesKeeps
    DEF Stages, Completes
<1>3. CASE Reconcile(r)
  <2>1. /\ UNCHANGED <<action, runner, performed>> /\ EndDispatch(r)
        /\ ReconcileTerminalInabilities
    BY <1>3 DEF Reconcile, historyVars
  <2> QED
    BY <2>1, SameRunnersKeepAnswers, DispatchEnds, ReconciliationMoves, SamePerformedByAll,
       CompletesKeeps DEF Completes
<1> QED
    BY <1>1, <1>2, <1>3, StartExecutionKeepsCompletion, ApplyWakeupKeepsCompletion,
       CommitOutcomeKeepsCompletion DEF DispatchSteps

LEMMA RunnerStepKeepsCompletion ==
    ASSUME CompletingInv, Remembers, NEW r \in Run, NEW g \in Generations,
           RunnerSteps(r, g) \/ RunnerEnds(r, g)
    PROVE  CompletionInv'
<1>1. CASE RunnerEnds(r, g)
  <2>1. /\ UNCHANGED <<vars, gateVars, action, historyVars, dispatch>>
        /\ runner' = [runner EXCEPT ![r][g] = NoRunner]
    BY <1>1 DEF RunnerEnds
  <2> QED
    BY <2>1, StoppedRunnerKeepsAnswers, SameDispatches, RunnerStoppedCompletes, CompletesKeeps
<1> QED
    BY <1>1, ReplayCompletes, BeginCompletes, PerformCompletes, CommitCompletes, CompletesKeeps,
       ReturnKeepsCompletion DEF RunnerSteps

-----------------------------------------------------------------------------
(* The recovery, the Daemon and people.                                    *)

(* The steps that leave Gates, runners and performed actions alone.        *)
LEMMA StoreStepCompletes ==
    ASSUME CompletingInv, StoreMoves, DispatchMoves, UNCHANGED <<gateVars, runner, performed>>,
           \A r \in Run, a \in Action :
               action'[r][a] = "result-confirmed" => action[r][a] = "result-confirmed"
    PROVE  Completes
BY SameGates, SamePerformed DEF Completes

LEMMA RecoveryStepCompletes ==
    ASSUME CompletingInv, NEW r \in Run, RecoverySteps(r)
    PROVE  Completes
<1>1. CASE Lose(r) \/ RecordLoss(r) \/ Judge(r)
  <2>1. UNCHANGED <<vars, gateVars, action, runner, performed>>
    BY <1>1 DEF Lose, RecordLoss, Judge, historyVars
  <2>2. \E s \in {"lost", "judging", "releasing", "parking"} : SetStage(r, s)
    BY <1>1 DEF Lose, RecordLoss, Judge
  <2>3. DispatchMoves
    BY <2>1, <2>2, SameRunnersKeepAnswers, StageSet DEF Stages
  <2> QED
    BY <2>1, <2>3, SameStore, StoreStepCompletes DEF vars
<1>2. CASE StopLost(r)
  <2>1. UNCHANGED <<vars, gateVars, action, historyVars>> /\ SetStage(r, "holding")
    BY <1>2 DEF StopLost
  <2>2. CASE runner' = [runner EXCEPT ![r][dispatch[r].of] = NoRunner]
    BY <2>1, <2>2, StoppedRunnerKeepsAnswers, StageSet, RunnerStoppedCompletes DEF Stages
  <2>3. CASE UNCHANGED runner
    BY <2>1, <2>3, SameRunnersKeepAnswers, StageSet, SameStore, StoreStepCompletes
    DEF Stages, vars, historyVars
  <2> QED
    BY <1>2, <2>2, <2>3 DEF StopLost
<1>3. CASE HoldLost(r)
  <2>1. UNCHANGED <<gateVars, runner, performed>> /\ (HoldOpen(r) \/ UNCHANGED <<vars, action>>)
    BY <1>3 DEF HoldLost, historyVars
  <2>2. \E o \in BOOLEAN : dispatch' = [dispatch EXCEPT ![r].stage = "recording", ![r].open = o]
    BY <1>3 DEF HoldLost
  <2>3. DispatchMoves
    BY <2>1, <2>2, SameRunnersKeepAnswers, StageSet DEF Stages
  <2>4. StoreMoves
    BY <2>1, ActionMoves, SameStore DEF vars
  <2>5. \A q \in Run, a \in Action :
           action'[q][a] = "result-confirmed" => action[q][a] = "result-confirmed"
    <3>1. CASE HoldOpen(r)
      <4>1. /\ action' = [action EXCEPT ![r] = [a \in Action |->
                  IF action[r][a] # "intended" THEN action[r][a]
                  ELSE IF a \in SafeAction THEN "repetition-safe" ELSE "unresolved"]]
            /\ action \in [Run -> [Action -> ActionStates]]
        BY <3>1 DEF HoldOpen, CompletingInv, DurableInv, RuntimeInv, RuntimeTypeOK
      <4> QED
        BY <4>1
    <3> QED
        BY <2>1, <3>1
  <2> QED
    BY <2>1, <2>3, <2>4, <2>5, StoreStepCompletes
<1>4. CASE Park(r) \/ Release(r)
  <2>1. UNCHANGED <<gateVars, action, runner, performed>> /\ EndDispatch(r)
    BY <1>4 DEF Park, Release, SettleAfterRunnerTermination, historyVars
  <2>2. StoreMoves
    BY <1>4, RecoveryMoves, ActionMoves, SameStore DEF Park, Release, vars
  <2> QED
    BY <2>1, <2>2, SameRunnersKeepAnswers, DispatchEnds, StoreStepCompletes
<1>5. CASE ResumeSettles(r)
  <2>1. UNCHANGED <<gateVars, action, runner, performed, dispatch>>
    BY <1>5 DEF ResumeSettles, SettleAfterRunnerTermination, runtimeVars, historyVars
  <2>2. StoreMoves
    BY <1>5, ActionMoves DEF ResumeSettles
  <2> QED
    BY <2>1, <2>2, SameRunnersKeepAnswers, SameDispatches, StoreStepCompletes
<1> QED
    BY <1>1, <1>2, <1>3, <1>4, <1>5 DEF RecoverySteps

LEMMA DaemonStepCompletes ==
    ASSUME CompletingInv, PumpReserves \/ Crash \/ Restart
    PROVE  Completes
<1>1. UNCHANGED <<gateVars, action, runner, performed>>
    BY DEF PumpReserves, Crash, Restart, runtimeVars, historyVars
<1>2. StoreMoves
    BY AdmissionMoves, RecoveryMoves, SameStore
    DEF PumpReserves, Crash, Restart, vars
<1>3. CASE Crash
  <2>1. dispatch' = [r \in Run |-> Idle] /\ Idle \in DispatchRecord /\ Idle.stage = "idle"
    BY <1>3 DEF Crash, Idle, DispatchRecord, Stages
  <2>2. DispatchMoves
    BY <2>1 DEF DispatchMoves
  <2> QED
    BY <1>1, <1>2, <2>2, StoreStepCompletes
<1>4. CASE UNCHANGED dispatch
    BY <1>1, <1>2, <1>4, SameRunnersKeepAnswers, SameDispatches, StoreStepCompletes
<1> QED
    BY <1>3, <1>4 DEF PumpReserves, Restart, runtimeVars

LEMMA ProjectStepCompletes ==
    ASSUME CompletingInv, NEW p \in Project,
           RepairProject(p) \/ RestoreRecovery(p) \/ ResumeRecovers(p)
    PROVE  Completes
<1>1. UNCHANGED <<gateVars, action, runner, performed, dispatch>>
    BY DEF RepairProject, RestoreRecovery, ResumeRecovers, historyVars
<1>2. StoreMoves
    BY RecoveryMoves, SameStore DEF RepairProject, RestoreRecovery, ResumeRecovers, vars
<1> QED
    BY <1>1, <1>2, SameRunnersKeepAnswers, SameDispatches, StoreStepCompletes

LEMMA PeopleStepCompletes ==
    ASSUME CompletingInv, NEW r \in Run,
           \/ \E n \in Graph : StartWorkflow(r, n)
           \/ \E a \in Action : Authorise(r, a)
           \/ \E k \in Gate : Answer(r, k)
    PROVE  Completes
<1>1. CASE \E n \in Graph : StartWorkflow(r, n)
  <2>1. UNCHANGED <<gateVars, action, runner, performed, dispatch>>
    BY <1>1 DEF StartWorkflow, runtimeVars, historyVars
  <2>2. StoreMoves
    BY <1>1, AdmissionMoves DEF StartWorkflow
  <2> QED
    BY <2>1, <2>2, SameRunnersKeepAnswers, SameDispatches, StoreStepCompletes
<1>2. CASE \E a \in Action : Authorise(r, a)
  <2>1. PICK a \in Action : AuthorizeRetry(r, a)
    BY <1>2 DEF Authorise
  <2>2. UNCHANGED <<gateVars, runner, performed, dispatch>>
    BY <1>2 DEF Authorise
  <2>3. StoreMoves
    BY <2>1, ActionMoves
  <2>4. \A q \in Run, b \in Action :
           action'[q][b] = "result-confirmed" => action[q][b] = "result-confirmed"
    BY <2>1 DEF AuthorizeRetry, CompletingInv, DurableInv, RuntimeInv, RuntimeTypeOK
  <2> QED
    BY <2>2, <2>3, <2>4, SameRunnersKeepAnswers, SameDispatches, StoreStepCompletes
<1>3. CASE \E k \in Gate : Answer(r, k)
  <2>1. UNCHANGED <<action, runner, performed, dispatch>>
    BY <1>3 DEF Answer, runtimeVars, historyVars
  <2>2. StoreMoves /\ GateMoves
    BY <1>3, AnswerMoves DEF Answer
  <2> QED
    BY <2>1, <2>2, SameRunnersKeepAnswers, SameDispatches, SamePerformedByAll DEF Completes
<1> QED
    BY <1>1, <1>2, <1>3

LEMMA InitIsComplete == RuntimeInit => CompletionInv
<1> SUFFICES ASSUME RuntimeInit PROVE CompletionInv
    OBVIOUS
<1>1. Idle \in DispatchRecord /\ Idle.stage = "idle" /\ NoRunner.mode = "none"
    BY DEF Idle, DispatchRecord, Stages, NoRunner
<1>2. CompletionTypes /\ EndedRunsHoldNoSlot /\ WakeupsAreNotRevived
    BY <1>1 DEF RuntimeInit, Init, GateInit, CompletionTypes, EndedRunsHoldNoSlot,
       WakeupsAreNotRevived, RunStates
<1>3. ConfirmedIsPerformed
    BY <1>1 DEF RuntimeInit, ActionInit, ConfirmedIsPerformed
<1>4. \A r \in Run : AnswersAreBeingApplied(r) /\ SuccessIsComplete(r)
    BY <1>1 DEF RuntimeInit, AnswersAreBeingApplied, SuccessIsComplete
<1>5. SucceededRunsAreComplete
    BY DEF RuntimeInit, Init, SucceededRunsAreComplete
<1> QED
    BY <1>2, <1>3, <1>4, <1>5 DEF CompletionInv

LEMMA StepKeepsCompletion ==
    CompletingInv /\ DurableInv' /\ [RuntimeNext]_allVars => CompletionInv'
<1> SUFFICES ASSUME CompletingInv, Remembers, [RuntimeNext]_allVars PROVE CompletionInv'
    BY StepInforms DEF CompletingInv, DurableInv, Informs
<1>1. CASE UNCHANGED allVars
  <2>1. UNCHANGED <<vars, gateVars, action, runner, performed, dispatch>>
    BY <1>1 DEF allVars, runtimeVars, historyVars
  <2> QED
    BY <2>1, SameStore, SameRunnersKeepAnswers, SameDispatches, StoreStepCompletes, CompletesKeeps
    DEF vars
<1>2. CASE PumpReserves \/ Crash \/ Restart
    BY <1>2, DaemonStepCompletes, CompletesKeeps
<1>3. ASSUME NEW r \in Run,
             \/ \E n \in Graph : StartWorkflow(r, n)
             \/ \E a \in Action : Authorise(r, a)
             \/ \E k \in Gate : Answer(r, k)
      PROVE  CompletionInv'
    BY <1>3, PeopleStepCompletes, CompletesKeeps
<1>4. ASSUME NEW r \in Run, NEW g \in Generations, RunnerSteps(r, g) \/ RunnerEnds(r, g)
      PROVE  CompletionInv'
    BY <1>4, RunnerStepKeepsCompletion
<1>5. ASSUME NEW r \in Run, DispatchSteps(r)
      PROVE  CompletionInv'
    BY <1>5, DispatchStepKeepsCompletion
<1>6. ASSUME NEW r \in Run, RecoverySteps(r)
      PROVE  CompletionInv'
    BY <1>6, RecoveryStepCompletes, CompletesKeeps
<1>7. ASSUME NEW p \in Project, RepairProject(p) \/ RestoreRecovery(p) \/ ResumeRecovers(p)
      PROVE  CompletionInv'
    BY <1>7, ProjectStepCompletes, CompletesKeeps
<1> QED
    BY <1>1, <1>2, <1>3, <1>4, <1>5, <1>6, <1>7 DEF RuntimeNext

(* However a Run got there, over claims, losses, crashes, retries and late *)
(* answers: when it is reported as succeeded, every step's outcome is on   *)
(* record, every action was performed and confirmed, and every answer of a *)
(* Gate has been acknowledged as applied.                                  *)
THEOREM SuccessMeansComplete == RuntimeSpec => []SucceededRunsAreComplete
<1>1. RuntimeInit => RuntimeInv /\ DurableInv /\ CompletionInv
    BY InitEstablishesTheInvariant, InitIsDurable, InitIsComplete
<1>2. RuntimeInv /\ [RuntimeNext]_allVars => RuntimeInv'
    BY StepKeepsTheInvariant
<1>3. DurableInv /\ RuntimeInv' /\ [RuntimeNext]_allVars => DurableInv'
    BY StepStaysDurable
<1>4. DurableInv /\ CompletionInv /\ DurableInv' /\ [RuntimeNext]_allVars => CompletionInv'
    BY StepKeepsCompletion DEF CompletingInv
<1>5. CompletionInv => SucceededRunsAreComplete
    BY DEF CompletionInv
<1> QED
    BY <1>1, <1>2, <1>3, <1>4, <1>5, PTL DEF RuntimeSpec, allVars
=============================================================================
