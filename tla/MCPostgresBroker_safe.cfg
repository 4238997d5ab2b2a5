SPECIFICATION SafeSpec
CONSTANTS
    TaskID = {1, 2, 3, 4, 5}
    Conn = {c1, c2}
    NoKey = NoKey
    NoWrite = NoWrite
    options <- Graph
    Limit = 2
SYMMETRY Connections
INVARIANTS WaitsExactly
PROPERTY SettledStays
CHECK_DEADLOCK FALSE
