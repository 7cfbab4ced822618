CONSTANTS
  c1 = c1
  c2 = c2
  NoClient = NoClient
  Clients <- OneClient
  Careful = TRUE
  MaxValues = {0}
  Capacity = 2
  Requests = 6
  Acquisitions = 4
SPECIFICATION Spec
INVARIANTS NoTimerFault FileFollowsSequence
PROPERTIES PacedByTimer
CHECK_DEADLOCK FALSE
