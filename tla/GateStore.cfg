SPECIFICATION GateSpec
CONSTANTS
    r1 = r1
    r2 = r2
    w1 = w1
    Run = {r1}
    Project = {1}
    Workflow = {w1}
    Graph = {g1}
    Phase = {f1}
    ProjectOf <- OneProject
    WorkflowOf <- OneWorkflow
    TriggerWorkflow = {}
    NoGraph = NoGraph
    DaemonLimits = {1}
    ProjectLimits = {1}
    NewStartQueue = 1
    ProjectNewStartQueue = 1
    DefaultQueue = 1
    ProjectDefaultQueue = 1
    ContinuationBurst = 1
    MaxGeneration = 3
    Gate = {k1, k2}
CHECK_DEADLOCK FALSE
INVARIANTS CancellationIsTracked SuspendedRunsWaitForOneAsking UnansweredAskingsBlockTheirRun RecordedVerdictsReachTheRun
PROPERTIES ResultsComeFromTheNewestClaim ImplementsLease
