SPECIFICATION FairSpec
CONSTANTS
  NPROC = 3
  NCPU = 1
  MaxPid = 3
  KillPids = {2}
  UnclePids = {}
PROPERTIES ZombiesReaped
CHECK_DEADLOCK FALSE
