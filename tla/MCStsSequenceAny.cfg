CONSTANTS
  c1 = c1
  c2 = c2
  NoClient = NoClient
  Clients <- OneClient
  Careful = FALSE
  MaxValues = {1, 2}
  Capacity = 1
  Requests = 3
  Acquisitions = 5
SPECIFICATION MultipleSpec
INVARIANTS SavedWithinMaximum ActiveHasWait
PROPERTIES NumbersIncrease SequenceEnds RequestsAnswered
CHECK_DEADLOCK FALSE
