CONSTANTS
  c1 = c1
  c2 = c2
  nobody = nobody
  Clients <- ClientsMC
  NoClient = nobody
  SpectrometerCount = 2
  Asked <- AskedBothMC
  QueueSize = 1
  MaxRequests = 2
  MaxAcceptErrors = 0
  MaxEntries = 0
SPECIFICATION DaemonSpec
INVARIANT ResponseIsOwn
CHECK_DEADLOCK FALSE
