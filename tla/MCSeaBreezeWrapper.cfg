CONSTANTS
  p1 = p1
  p2 = p2
  NoProduct = NoProduct
  Products <- TwoProducts
  Types <- TwoTypes
  Locations <- ThreeLocations
  MAX_USB_DEVICES = 2
  SurpriseRemoval = FALSE
  Hotplugs = 2
  Opens = 4
  SEABREEZE_MAX_DEVICES = 3
SPECIFICATION MCSpec
INVARIANTS TableConsistent DescriptorsOwned IndexNamesDevice SweepOpensAll
PROPERTIES OpenStays
