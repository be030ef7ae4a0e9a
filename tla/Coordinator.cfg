SPECIFICATION SlotsSpec
CONSTANTS
    r1 = r1
    r2 = r2
    w1 = w1
    w2 = w2
    Run = {r1, r2}
    Project = {1}
    Workflow = {w1}
    Graph = {g1, g2}
    Phase = {}
    ProjectOf <- OneProject
    WorkflowOf <- OneWorkflow
    TriggerWorkflow = {}
    NoGraph = NoGraph
    DaemonLimits = {1, 2}
    ProjectLimits = {1, 2}
    NewStartQueue = 1
    ProjectNewStartQueue = 1
    DefaultQueue = 1
    ProjectDefaultQueue = 1
    ContinuationBurst = 1
    MaxGeneration = 2
    Gate = {}
    MaxFaults = 2
SYMMETRY Symmetry
CHECK_DEADLOCK FALSE
INVARIANTS TakenPlacesAreAttended WaitingRunsAreNoticed ProcessesAreOwned
PROPERTIES RunsAreNotInterrupted
