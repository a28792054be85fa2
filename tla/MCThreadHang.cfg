SPECIFICATION TSpec
CONSTANTS
    Functors = {f1, f2}
    Others = {main}
    Owner = main
    ThreadFunctors = {f1, f2}
    Channels = {c1, c2}
    WakeCh = wake
    InitCap <- MCInitCap
PROPERTIES
    DestructorAlwaysReturns
CHECK_DEADLOCK FALSE
