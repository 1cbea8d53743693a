CONSTANTS
  UInt64Bits = 6
  UnsignedBits = 12
  CharBits = 8
  CodeOf <- MCCodeOf
  Width = 6
  CastBits = 5
  Shapes <- MCShapes
SPECIFICATION Spec
INVARIANTS CharConstantIsItsCode
CHECK_DEADLOCK FALSE
