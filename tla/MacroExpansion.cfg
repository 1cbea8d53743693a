SPECIFICATION FairSpec
CONSTANTS
  Names <- MCNames
  Symbols <- MCSymbols
  Glue <- MCGlue
  Files <- MCFiles
  Families = {"recursive", "mutual", "operators", "counted"}
INVARIANTS DisabledWhileLive ReleasedUnreachable NoFault OutputMatchesReference
PROPERTIES Terminates
CHECK_DEADLOCK FALSE
