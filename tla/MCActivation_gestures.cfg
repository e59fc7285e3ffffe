SPECIFICATION SpecAll
CONSTANTS
  s1 = s1
  s2 = s2
  p1 = p1
  p2 = p2
  t1 = t1
  t2 = t2
  Surfaces <- TwoSurfaces
  Toplevels <- TwoSurfaces
  Ids <- TwoIds
  Positions <- TwoPositions
  Tokens <- TwoTokens
  Unplugs = TRUE
  MaxSerial = 2
INVARIANTS
  TypeOK
  ContactsKnown
  TokensAccounted
PROPERTIES
  GesturesWhole
  ActivatesRequester
  NewestInputServes
