SPECIFICATION ServiceSpec
CONSTANTS
    Paths <- MCPaths
    Shapes <- EveryKind
    MaxRequests = 2
    Workers = {w1, w2}
    Routes <- MCRoutes
    Directories = {"/", "/sub", "/out/", "/.."}
    IndexOf <- MCIndexOf
    WithinRoot <- MCWithinRoot
    Site <- MCSite
    MaxChanges = 1
INVARIANTS
    ServiceTypeOK
    FramingExact
    AnswersInOrder
PROPERTIES
    RefusalEndsService
    EachAnswered
    AnswerExplained
CHECK_DEADLOCK FALSE
