SPECIFICATION HistorySpec
CONSTANTS
  NPROC = 3
  NCPU = 1
  AGING_THRESHOLD = 0
  Arrival <- MCArrival
  Bases = {0, 1}
  QueueArgs = {0}
  MaxCycles = 1
  MaxChanges = 1
PROPERTIES NoOvertaking NoStarvation
