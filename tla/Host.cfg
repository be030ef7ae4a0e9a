SPECIFICATION HostSpec
CONSTANTS
    start = start
    cancel = cancel
    stop = stop
    Request = {start, cancel, stop}
    Call = {c1, c2}
    Content = {k1, k2}
    KindOf <- OneOfEach
    MaxLifetime = 2
    MaxSeals = 2
    MaxOperations = 3
INVARIANTS AppliedOnce CommittedIsDone PurgedWasSealed LifetimesDoNotOverlap
SYMMETRY Interchangeable
