SPECIFICATION Spec
CONSTANTS
    Conns <- Three
    Workers = {w1}
    MaxConns = 2
    MaxReqs <- FirstTalks
    None = None
INVARIANTS
    TypeOK
    CountIsOpen
    OpenHasTimer
    OutputSubscribed
    NoLostEdge
    GuardedUntilDispatched
PROPERTIES
    ImplementsContract
    RequestAnswered
CHECK_DEADLOCK FALSE
