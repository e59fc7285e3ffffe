SPECIFICATION Spec
CONSTANTS
  s1 = s1
  s2 = s2
  a = a
  shift = shift
  Surfaces <- TwoSurfaces
  Keys <- LetterAndShift
  Keymaps <- TwoLayouts
  Rates <- SlowAndFast
  Delays <- OnOff
  Second = 4
  Budget = 3
  MaxAge = 7
  Unplugs = TRUE
INVARIANTS
  TypeOK
  OffMeansOff
  RepeatsPaced
  HeldWhileLive
PROPERTIES
  KeysFollowFocus
