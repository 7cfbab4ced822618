CONSTANTS
  c1 = c1
  c2 = c2
  NoClient = NoClient
  Clients <- OneClient
  Careful = TRUE
  MaxValues = {1}
  Capacity = 2
  Requests = 2
  Acquisitions = 3
SPECIFICATION Spec
INVARIANT StoppedHasNoWait
CHECK_DEADLOCK FALSE
