SPECIFICATION RegistrySpec
CONSTANTS
  Project = {p1, p2}
  Location = {l1, l2, l3}
  Request = {q1, q2}
  Handler = {h1}
  Tree = {"manual", "trigger"}
  None = None
SYMMETRY Symmetric
INVARIANT LocationsAreExclusive HistoryFollowsTheRow QuietProjectsAreInactive
CHECK_DEADLOCK FALSE
