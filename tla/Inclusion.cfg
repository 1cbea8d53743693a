CONSTANTS
  None = None
  X = X
  H = H
  Main = Main
  Builtin = Builtin
  Macros = {X}
  Files = {Main, Builtin, H}
  MaxAllowedIncludeStackDepth = 3
  MaxHeader = 5
  MaxOdd = 3
  MaxNested = 4
  MainTexts <- Mains
  Programs <- MCPrograms
SPECIFICATION FairSpec
INVARIANTS TypeOK IncludeStackBounded SkippingOnlyInRawMode ControllingMacroWraps OutputMatchesReference
PROPERTIES Terminates
