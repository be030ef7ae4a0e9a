SPECIFICATION RuntimeSpec
CONSTANTS
    w1 = w1
    f1 = f1
    f2 = f2
    f3 = f3
    f4 = f4
    k1 = k1
    a1 = a1
    a2 = a2
    Run = {r1}
    Project = {1}
    Workflow = {w1}
    Graph = {g1}
    Phase = {f1, f2, f3, f4}
    ProjectOf <- OneProject
    WorkflowOf <- OneWorkflow
    TriggerWorkflow = {}
    NoGraph = NoGraph
    DaemonLimits = {1}
    ProjectLimits = {1}
    NewStartQueue = 1
    ProjectNewStartQueue = 1
    DefaultQueue = 1
    ProjectDefaultQueue = 1
    ContinuationBurst = 1
    MaxGeneration = 4
    Gate = {k1}
    Action = {a1, a2}
    PhaseOf <- Phases
    SafeAction = {a2}
    Program <- Workflow1
CHECK_DEADLOCK FALSE
INVARIANTS ActionsAreNotRepeated StepsFollowDurableResults SucceededRunsAreComplete
