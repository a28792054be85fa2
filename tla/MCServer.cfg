SPECIFICATION SSpec
CONSTANTS
    Workers = {w1, w2}
    Submitters <- Threads
    Tasks = {c1, c2}
    MaxIo <- TwoLoops
    MaxSignals = 2
    CommandLines <- Lines
    Files <- ConfFiles
    Numbers <- Amounts
INVARIANTS
    STypeOK
    NoneIdle
    ConfigResolved
    PoolOutlivesCallers
    NoLostConnection
PROPERTIES
    RequestServed
    ShutdownCompletes
CHECK_DEADLOCK FALSE
