SPECIFICATION Spec
CONSTANTS
  NPROC = 3
  NCPU = 2
  MaxPid = 5
  KillPids = {3}
  UnclePids = {6}
INVARIANTS OneCpuPerProcess SlotsNotShared NoOrphans
CHECK_DEADLOCK FALSE
