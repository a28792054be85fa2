SPECIFICATION ServiceSpec
CONSTANTS
    Paths <- MCPaths
    Shapes <- PlainGet
    MaxRequests = 1
    Workers = {w1, w2}
    Routes <- MCRoutes
    Directories = {"/", "/sub", "/out/", "/.."}
    IndexOf <- MCIndexOf
    WithinRoot <- MCWithinRoot
    Site <- MCSite
    MaxChanges = 0
INVARIANTS
    RequestWhole
CHECK_DEADLOCK FALSE
