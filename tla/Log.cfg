SPECIFICATION FairSpec
CONSTANTS
  Procs = {p1, p2}
  Block = {1, 2, 3}
  Val = {0, 1}
  MAXOPBLOCKS = 2
  LOGSIZE = 4
  OpBlocks = 1
  MaxCrashes = 1
INVARIANTS QuiescentIsDurable UpdatesArePinned ReservationHolds
PROPERTIES IsAtomicDisk SleepersWoken
CHECK_DEADLOCK FALSE
