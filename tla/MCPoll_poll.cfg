SPECIFICATION Spec
CONSTANTS
  MaxWire = 4
  MaxUsers = 2
INVARIANTS
  TypeOK
  EachOnce
PROPERTIES
  NoneMeansEmpty
  AllServed
