SPECIFICATION Spec
CONSTANTS
  s1 = s1
  Surfaces <- OneSurface
  WireKinds <- AllKinds
  MaxWire = 2
  MaxUsers = 1
  MaxTicks = 1
  RedrawFrom <- AnyCaller
  Deadlines <- AnyDeadline
  SharedDisplay = TRUE
INVARIANTS
  TypeOK
  InOrderOnce
  NoLostRedraw
  RepeatOnlyWhileDown
PROPERTIES
  NoCallbackAfterExit
  DeliverySpec
  ExitReturns
  UserEventServed
  RedrawServed
  RedrawsQuiesce
  ServedIfPolling
