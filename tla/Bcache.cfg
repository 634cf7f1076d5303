SPECIFICATION FairSpec
CONSTANTS
  Procs = {1, 2}
  NBUF = 2
  Blocks = {1, 2, 3}
  Val = {0, 1}
  BadBlocks = {3}
INVARIANTS ReferencesExact
PROPERTIES IsBlockStore IoEnds
CHECK_DEADLOCK FALSE
