SPECIFICATION TriggerSpec
CONSTANTS
  Workflow = {w1}
  Event = {e1, e2}
  Source <- OneSource
  Watched = w1
  Group = {g1, g2}
  Caller = {c1, c2}
  QueueLimit = 1
  NoGroup = NoGroup
  NoCaller = NoCaller
  NoEvent = NoEvent
SYMMETRY Symmetric
INVARIANT AcknowledgedWasAdmitted
PROPERTY DecisionsAreFinal
CHECK_DEADLOCK FALSE
