SPECIFICATION Spec
CONSTANTS
    MaxTimers = 3
    MaxTime = 3
    MaxDelay = 2
    Intervals <- Both
    None = None
INVARIANTS
    TypeOK
    Covered
    IndexExact
    CancelStops
PROPERTIES
    ImplementsTimerService
CHECK_DEADLOCK FALSE
