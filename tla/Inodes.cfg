SPECIFICATION MCSpec
CONSTANTS
    Procs = {p, q}
    NoProc = NoProc
    NINODES = 3
    Names = {"a", "b"}
    Paths <- MCPaths
    Trees <- MCTrees
    MaxCalls = 2
SYMMETRY Symmetry
INVARIANTS RefsExact  LinksExact OrderedWaits
CHECK_DEADLOCK FALSE
