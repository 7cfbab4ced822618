CONSTANTS
  p1 = p1
  p2 = p2
  NoProduct = NoProduct
  Products <- TwoProducts
  Types <- TwoTypes
  Locations <- TwoLocations
  MAX_USB_DEVICES = 2
  SurpriseRemoval = FALSE
  Concurrent = FALSE
  Hotplugs = 3
  Opens = 2
  MaxDeviceID = 2
SPECIFICATION RegistrySpec
INVARIANTS RegistryExact ReportIsExact
PROPERTIES OpenSurvivesProbe
CHECK_DEADLOCK FALSE
