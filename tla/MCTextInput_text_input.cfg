SPECIFICATION Spec
CONSTANTS
  s1 = s1
  s2 = s2
  Surfaces <- TwoSurfaces
  Deletes = {1}
  Commits = {1}
  Preedits = {1, 2}
  Purposes = {1}
  Hints = {0}
  MaxWire = 2
  MaxRequests = 2
  MaxCalls = 2
SYMMETRY SurfaceSymmetry
INVARIANTS
  TypeOK
  SettingsApplied
PROPERTIES
  BatchWhole
