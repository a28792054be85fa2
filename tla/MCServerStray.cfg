SPECIFICATION SSpec
CONSTANTS
    Workers = {w1, w2}
    Submitters <- Threads
    Tasks = {c1, c2}
    MaxIo <- TwoLoops
    MaxSignals = 1
    CommandLines <- FewLines
    Files <- ConfFiles
    Numbers <- Amounts
INVARIANTS
    ShutdownClean
CHECK_DEADLOCK FALSE
