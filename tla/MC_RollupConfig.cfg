CONSTANTS
    Chars <- MC_Chars
    MaxLen = 4
    Width = 2
    JsonNums = {0, 5}
SPECIFICATION Spec
INVARIANT Bytes32MinimalHex
CHECK_DEADLOCK FALSE
