SPECIFICATION Spec
CONSTANTS
  j1 = j1
  j2 = j2
  j3 = j3
  None = None
  Job = {j1, j2}
  Worker = {w1, w2}
  InitialWorkers = {w1}
  Producer = {p1, p2}
  MaxQueueSize = 1
  MaxAttempts <- MCMaxAttempts
  Rank <- MCRank
  Delayed = {j2}
  Handled = {j1, j2}
  Reenqueue = TRUE
INVARIANTS
  CompletedStaysCompleted
