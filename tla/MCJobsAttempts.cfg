SPECIFICATION Spec
CONSTANTS
  j1 = j1
  j2 = j2
  j3 = j3
  None = None
  Job = {j2}
  Worker = {w1}
  InitialWorkers = {w1}
  Producer = {p1}
  MaxQueueSize = 0
  MaxAttempts <- MCMaxAttempts
  Rank <- MCRank
  Delayed = {j2}
  Handled = {j2}
  Reenqueue = TRUE
INVARIANTS
  AttemptsAreTotal
