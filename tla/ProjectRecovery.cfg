SPECIFICATION RecoverySpec
CONSTANTS
    Runner = {x1, t1}
    Execution = {x1}
    NoRunner = NoRunner
    MaxTries = 2
    Delays = 1
    MaxCycle = 2
    MaxCrashes = 1
INVARIANTS ResourcesAreTracked SafeIsReconciled
PROPERTIES LossesAreJudged
CHECK_DEADLOCK FALSE
