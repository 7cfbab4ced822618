CONSTANTS
  getShort = getShort
  getLong = getLong
  set = set
  spectrum = spectrum
  QueryTypes = {getShort, getLong}
  CommandTypes = {set}
  Spectrum = spectrum
  Length <- LongestMC
  Symmetric = TRUE
  MaxCalls = 4
  MaxFaults = 1
SPECIFICATION FairObpSpec
PROPERTY SpectrumReturnedOnce
CHECK_DEADLOCK FALSE
