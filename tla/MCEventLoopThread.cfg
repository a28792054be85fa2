SPECIFICATION TSpec
CONSTANTS
    Functors = {f1, f2, f3}
    Others = {main, io}
    Owner = main
    ThreadFunctors = {f1, f2}
    Channels = {c1, c2}
    WakeCh = wake
    InitCap <- MCInitCap
INVARIANTS
    TypeOK
    NoLostWakeup
    NoLostQuit
    PublishedLoopLives
PROPERTIES
    ImplementsFunctorQueue
    EventReported
    QuitAfterEntry
CHECK_DEADLOCK FALSE
