SPECIFICATION Spec
CONSTANTS
  t1 = t1
  l1 = l1
  o1 = o1
  o2 = o2
  Toplevels <- OneToplevel
  LayerSurfaces <- NoSurfaces
  Outputs <- OneOutput
  Sizes <- TwoSizes
  Factors <- UpToTwo
  Fractions <- OneAndHalf
  Preferred <- PreferOne
  MaxBuilt = 1
PROPERTIES
  NoDuplicateScale
