SPECIFICATION Spec
CONSTANTS
  s1 = s1
  Surfaces <- OneSurface
  WireKinds <- NoKeys
  MaxWire = 1
  MaxUsers = 0
  MaxTicks = 1
  RedrawFrom <- NoCaller
  Deadlines <- NoDeadline
  SharedDisplay = FALSE
PROPERTIES
  ConnectionLossReported
