-------------------------- MODULE MCWorkflowRuntime -------------------------
(* Constants of the checked instance of WorkflowRuntime. *)
EXTENDS WorkflowRuntime

CONSTANTS w1, f1, f2, f3, f4, k1, a1, a2

OneProject == [r \in Run |-> 1]
OneWorkflow == [r \in Run |-> w1]
Phases == [a \in Action |-> IF a = a1 THEN f1 ELSE f4]

(* An unsafe action, a Gate, an ordinary Phase, an action safe to repeat.  *)
Workflow1 == <<[kind |-> "action", phase |-> f1, name |-> a1],
               [kind |-> "request", phase |-> f2, name |-> k1],
               [kind |-> "await", name |-> k1],
               [kind |-> "phase", phase |-> f3],
               [kind |-> "action", phase |-> f4, name |-> a2]>>
=============================================================================
