SPECIFICATION Spec
CONSTANTS
  MaxWire = 2
  MaxUsers = 1
PROPERTIES
  OldestFirst
