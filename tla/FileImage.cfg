SPECIFICATION Spec
CONSTANTS
    Active = {"files"}
    BSIZE = 2
    NDIRECT = 2
    FSSIZE = 8
    Files = {1, 2, 3}
    Sizes = {0, 1}
    LIMIT = 12
    Requests = {0, 1, 4, 7}
    MAXARGS = 3
    MaxCount = 2
    MaxExecs = 1
    INPUT_BUF = 3
    MaxLines = 3
INVARIANT WriteThrough
CHECK_DEADLOCK FALSE
