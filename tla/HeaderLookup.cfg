CONSTANTS
  Disk <- MCDisk
  DirInodes <- MCDirInodes
  CommandLines <- MCCommandLines
  MainFile <- MCMainFile
  IncludeNames <- MCNames
  Frameworks = {"F", "G", "H"}
  MaxDepth = 4
  MaxIncludes = 3
SPECIFICATION Spec
INVARIANTS SearchListAsGCC AnswerIsRight LookupCacheIsRight FilesAgree
CHECK_DEADLOCK FALSE
