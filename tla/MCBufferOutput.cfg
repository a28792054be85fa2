SPECIFICATION OutputSpec
CONSTANTS
    Bytes <- MCBytes
    kPrependSize = 2
    ExtraSize = 2
    MaxChunk = 3
    MaxIndex = 8
    Width = 6
INVARIANTS
    NoOverrun
CHECK_DEADLOCK FALSE
