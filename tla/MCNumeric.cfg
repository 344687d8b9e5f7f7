CONSTANTS
    LIMB_BITS = 2
    EXP_BITS_MAX = 8
    F64Bits = 2
    F64ExpBits = 3
    Byte = 8
    PairMax = 2
    RunA = 4
    RunB = 2
    GcEscape = 3
    BlockLen = 5
    OffsetMax = 7
    RunMax = 7
    ComposeMax = 3
    DecompMax = 5
SPECIFICATION NumericSpec
PROPERTIES BigNumbersRight UnicodeRight
CHECK_DEADLOCK FALSE
