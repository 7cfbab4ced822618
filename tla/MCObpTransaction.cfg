CONSTANTS
  getShort = getShort
  getLong = getLong
  set = set
  spectrum = spectrum
  QueryTypes = {getShort, getLong}
  CommandTypes = {set}
  Spectrum = spectrum
  Length <- LengthMC
  Symmetric = TRUE
  MaxCalls = 4
  MaxFaults = 1
SPECIFICATION FairObpSpec
INVARIANTS InSync ResultIsVerdict AnswersGenuine
PROPERTIES CallsReturn ImplementsRpc
CHECK_DEADLOCK FALSE
