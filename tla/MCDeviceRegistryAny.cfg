CONSTANTS
  p1 = p1
  p2 = p2
  NoProduct = NoProduct
  Products <- TwoProducts
  Types <- TwoTypes
  Locations <- TwoLocations
  MAX_USB_DEVICES = 2
  SurpriseRemoval = TRUE
  Concurrent = TRUE
  Hotplugs = 1
  Opens = 2
  MaxDeviceID = 3
SPECIFICATION RegistrySpec
INVARIANTS HandlesOwned OneDevicePerLocation
PROPERTIES IDsKeepMeaning
CHECK_DEADLOCK FALSE
