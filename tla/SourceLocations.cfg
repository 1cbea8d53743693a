CONSTANTS
  Sizes = {0, 1}
  OffsetLimit = 9
  LinearProbes = 1
SPECIFICATION FairSpec
INVARIANTS AnswerContains Bracketed
PROPERTIES ImplementsMap
CHECK_DEADLOCK FALSE
