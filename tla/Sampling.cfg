SPECIFICATION Spec
CONSTANTS
  Shapes <- MCShapes
  MaxFiles = 2
  Lines = 5
  BigFile = 3
  Tries = 3
INVARIANTS
  TypeOK
  NeverRunsDry
  EntryAccounted
PROPERTIES
  InFileOrder
