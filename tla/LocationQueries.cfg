SPECIFICATION Spec
CONSTANTS
  FileSize = 2
  Lengths = {1, 2}
  MaxEntries = 3
INVARIANTS PlacesAreRight OrderIsRight
CHECK_DEADLOCK FALSE
