CONSTANTS
  UInt64Bits = 6
  UnsignedBits = 12
  CharBits = 8
  CodeOf <- MCCodeOf
  Width = 6
  CastBits = 5
  Shapes <- MCNumberShapes
SPECIFICATION Spec
INVARIANTS NumberIsRight StringIsRight ExpressionIsRight GuardMeansUndefined IntegersAreRight
CHECK_DEADLOCK FALSE
