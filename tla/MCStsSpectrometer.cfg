CONSTANTS
  Times <- TimesMC
  MinTime = 1
  MaxTime = 2
  ConfiguredTime = 0
  PowerOnTime = 2
  Pixels = 8
  MaxFactor = 1
  Widths = {0, 1}
  Scans = {1, 2}
  MaxFaults = 1
  MaxRestarts = 1
SPECIFICATION SpectrometerSpec
INVARIANTS DeviceAgrees SuccessIsInForce SpectrumIsWhole SmoothedRight
