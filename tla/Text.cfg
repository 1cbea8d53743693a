CONSTANTS
    Letter = {"a", "e", "i", "L"}
    Digit = {"1"}
    MaxText = 5
    MaxComment = 8
    MaxPeeks = 1
    MaxWords = 3
    Jumps = {0, 1, 9}
    MaxFile = 2
    MaxLine = 10
    Shifts = {0, 5}
    MaxInside = 1
SPECIFICATION Spec
INVARIANTS TokensAreRight PrintedTokensRelex LinesAreRight
CHECK_DEADLOCK FALSE
