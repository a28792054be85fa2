SPECIFICATION Spec
CONSTANTS
    Conns <- Two
    Workers = {w1}
    MaxConns = 1
    MaxReqs <- OneRequest
    None = None
INVARIANTS
    NoDangling
CHECK_DEADLOCK FALSE
