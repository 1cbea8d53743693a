CONSTANTS
  StaticDiagInfo <- MCStaticDiagInfo
  OptionTable <- MCOptionTable
  CustomLevels = {"Note", "Fatal"}
  MaxChanges = 3
  MaxReports = 3
  MaxDepth = 2
  MaxNumber = 130
  MaxCalls = 5
SPECIFICATION MCSpec
INVARIANTS LevelIsRight PluralIsRight
PROPERTIES NotesShareFate SilentAfterFatal
CHECK_DEADLOCK FALSE
