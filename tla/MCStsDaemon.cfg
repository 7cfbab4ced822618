CONSTANTS
  c1 = c1
  c2 = c2
  nobody = nobody
  Clients <- ClientsMC
  NoClient = nobody
  SpectrometerCount = 1
  Asked <- AskedMC
  QueueSize = 1
  MaxRequests = 3
  MaxAcceptErrors = 1
  MaxEntries = 1
SPECIFICATION FairDaemonSpec
INVARIANTS ConnectionsExclusive OneAcceptChain ConnectionsRecycled EndedDrained
PROPERTIES RequestsServed StopEnds
CHECK_DEADLOCK FALSE
