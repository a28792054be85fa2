SPECIFICATION InputSpec
CONSTANTS
    Bytes <- MCBytes
    kPrependSize = 2
    ExtraSize = 2
    MaxChunk = 3
    MaxIndex = 8
    Width = 6
INVARIANTS
    TypeOK
    RegionsInOrder
PROPERTIES
    ImplementsByteQueue
CHECK_DEADLOCK FALSE
