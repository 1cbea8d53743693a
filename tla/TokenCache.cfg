CONSTANTS
  Eof = Eof
  Tokens = {A, B}
  Annotations = {Ann}
  AcrossEof = {}
  MaxSource = 3
  MaxCached = 3
  MaxMarks = 2
  MaxLookAhead = 2
SPECIFICATION Spec
INVARIANT StackNeverRunsOut
PROPERTIES Implements
CHECK_DEADLOCK FALSE
