SPECIFICATION FixedSpec
CONSTANTS
    r1 = r1
    r2 = r2
    w1 = w1
    w2 = w2
    Run = {r1}
    Project = {1}
    Workflow = {w1}
    Graph = {g1}
    Phase = {}
    ProjectOf <- OneProject
    WorkflowOf <- OneWorkflow
    TriggerWorkflow = {}
    NoGraph = NoGraph
    DaemonLimits = {1}
    ProjectLimits = {1}
    NewStartQueue = 1
    ProjectNewStartQueue = 1
    DefaultQueue = 1
    ProjectDefaultQueue = 1
    ContinuationBurst = 1
    MaxGeneration = 2
    Gate = {k1}
    MaxFaults = 3
CHECK_DEADLOCK FALSE
PROPERTIES StopTakesEffect LostClaimsAreReleased
