CONSTANTS
  Texts <- MCTexts
  Windows <- MCWindows
  LineNos = {7}
  LineModulus = 8
  Names = {"f"}
  None = "none"
  Flags <- MCFlags
  MaxNotes = 3
  MaxShort = 4
SPECIFICATION Spec
INVARIANTS HintIsRight PresumedIsRight
CHECK_DEADLOCK FALSE
