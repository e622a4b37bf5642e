CONSTANTS
    Chars <- MC_Chars
    MaxLen = 3
    Width = 2
    JsonNums = {0, 5}
SPECIFICATION Spec
INVARIANT NumberAsWritten
CHECK_DEADLOCK FALSE
