SPECIFICATION PoolSpec
CONSTANTS
  Queue = {q1}
  DefaultQueue = q1
  DefaultWorkers = 2
  MaxCreated = 5
  MaxWorkers = 2
INVARIANTS
  PausedQueueIsIdle
CHECK_DEADLOCK FALSE
