SPECIFICATION RevisionSpec
CONSTANTS
    a1 = a1
    a2 = a2
    wa = wa
    own = own
    shared = shared
    q1 = q1
    q2 = q2
    Revision = {a1, a2}
    Workflow = {wa}
    Object = {own, shared}
    WorkflowOf <- Captured
    ObjectsOf <- Manifest
    Run = {x1, x2}
    Runner = {q1, q2}
    MaxFaults = 2
    NoRevision = NoRevision
SYMMETRY Symmetric
CHECK_DEADLOCK FALSE
INVARIANTS CollectedIsUnused UsedIsWhole
PROPERTIES GraceFollowsTheLastReader
