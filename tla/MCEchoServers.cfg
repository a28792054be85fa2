SPECIFICATION Spec
CONSTANTS
    Clients = {c1, c2, c3}
    Listener = listener
    Kinds = {"select", "poll", "LT", "ET"}
    Slots = 2
    Talkers = {c1, c2}
INVARIANTS
    WatchedIsOpen
    NoLostEdge
PROPERTIES
    Served
    Departed
CHECK_DEADLOCK FALSE
