SPECIFICATION Spec
CONSTANTS
  s1 = s1
  s2 = s2
  wheel = wheel
  finger = finger
  Surfaces <- TwoSurfaces
  Sources <- WheelAndFinger
  Wheel = wheel
  Deltas <- BothWays
  MaxScroll = 3
  MaxSerial = 2
INVARIANTS
  TypeOK
  AxisIsFrames
  CursorHonoured
PROPERTIES
  EventsFollowPointer
  FrameScrolls
