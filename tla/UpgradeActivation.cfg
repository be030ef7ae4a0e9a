SPECIFICATION Spec
CONSTANTS
    o1 = o1  o2 = o2  c1 = c1  c2 = c2  r1 = r1  r2 = r2  r3 = r3
    Operation = {o1, o2}
    Client = {c1}
    Release = {r1, r2, r3}
    Reads <- SmallReads
    Declares <- SmallDeclares
    Implements = {r2}
    FirstRelease = r1
    FirstFormat = 1
    StartsMeanwhile = FALSE
    MaxInstance = 6
INVARIANTS AcceptedStateIsKept DataAreReadable OutcomesReleaseTheDaemon
CHECK_DEADLOCK FALSE
SYMMETRY Interchangeable
