SPECIFICATION Spec
CONSTANTS
  Procs = {p1, p2}
  NoProc = NoProc
  NFILE = 2
  NOFILE = 2
  PIPESIZE = 2
  UINT = 4
  Msgs <- MCMsgs
  ReadSizes = {1, 2}
SYMMETRY MCSymmetry
INVARIANTS ReferencesExact SleepersHaveCause
PROPERTY IsByteChannel
CHECK_DEADLOCK FALSE
