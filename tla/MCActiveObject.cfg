CONSTANTS
  s1 = s1
  s2 = s2
  s3 = s3
  j1 = j1
  j2 = j2
  j3 = j3
  j4 = j4
  Senders <- MCSenders
  Owner = s1
  Jobs <- MCJobs
  Done = Done
  NoJob = NoJob
  Capacity = 2
SPECIFICATION FairSpec
INVARIANTS InOrderOnce NoLostWakeup DestroyedDrained
PROPERTIES ImplementsQueue AcceptedRuns DestructorReturns
CHECK_DEADLOCK FALSE
