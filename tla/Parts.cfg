SPECIFICATION Spec
CONSTANTS
    Active = {"files", "malloc", "shell", "calls", "console"}
    BSIZE = 2
    NDIRECT = 1
    FSSIZE = 8
    Files = {1, 2}
    Sizes = {0, 1, 3}
    LIMIT = 12
    Requests = {0, 1, 4, 7}
    MAXARGS = 3
    MaxCount = 2
    MaxExecs = 1
    INPUT_BUF = 3
    MaxLines = 3
INVARIANTS BlocksExact ReadsExact HeapTiled ParsesGrammar  LocksSafe CountsExact SleptEnough 
PROPERTIES  CursorOnScreen IsLineEditor 
CHECK_DEADLOCK FALSE
