SPECIFICATION Spec
CONSTANTS
  s1 = s1
  s2 = s2
  a = a
  shift = shift
  Surfaces <- OneSurface
  Keys <- LetterAndShift
  Keymaps <- OneLayout
  Rates <- OnlySlow
  Delays <- SomeDelay
  Second = 4
  Budget = 3
  MaxAge = 7
  Unplugs = TRUE
INVARIANTS
  RepeatIsHeld
