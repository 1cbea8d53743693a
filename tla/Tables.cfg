SPECIFICATION Spec
CONSTANTS
  Buckets = 8
  MaxBuckets = 8
  MaxLive = 4
  MaxCalls = 3
INVARIANTS TablesAreSound HeaderMapsAreRight MemoryIsRight
PROPERTIES IsADictionary
CHECK_DEADLOCK FALSE
