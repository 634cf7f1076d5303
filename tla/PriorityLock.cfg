SPECIFICATION FairSpec
CONSTANTS
  Pids = {3, 4, 5}
  MAX = 6
  MaxAdmissions = 5
INVARIANTS NoLostWakeup QueueIsWaiters
PROPERTIES IsPriorityMutex EveryWaiterServed
CHECK_DEADLOCK FALSE
