SPECIFICATION Spec
CONSTANTS
    o1 = o1  o2 = o2  c1 = c1  c2 = c2
    Operation = {o1, o2}
    Client = {c1}
    Kinds = {"stop", "disable-now", "restart", "remove", "enable", "disable"}
    MaxInstance = 3
    Policies = {1, 2}
INVARIANTS JournalFollowsReceipt DrainLasts RemovalIsExclusive SupervisionStaysReadable RestartsAreBounded
CHECK_DEADLOCK FALSE
SYMMETRY Interchangeable
