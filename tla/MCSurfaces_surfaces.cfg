SPECIFICATION Spec
CONSTANTS
  t1 = t1
  l1 = l1
  o1 = o1
  o2 = o2
  Toplevels <- OneToplevel
  LayerSurfaces <- OneLayer
  Outputs <- TwoOutputs
  Sizes <- TwoSizes
  Factors <- UpToTwo
  Fractions <- OneAndHalf
  Preferred <- PreferOne
  MaxBuilt = 1
INVARIANTS
  TypeOK
  ScaleCoherent
  ScaleTold
  ConfigureTold
PROPERTIES
  ToldOnce
  DrawnAtToldSize
