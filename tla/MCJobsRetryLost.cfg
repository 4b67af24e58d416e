SPECIFICATION FairSpec
CONSTANTS
  j1 = j1
  j2 = j2
  j3 = j3
  None = None
  Job = {j2}
  Worker = {w1, w2}
  InitialWorkers = {w1}
  Producer = {p1}
  MaxQueueSize = 1
  MaxAttempts <- MCMaxAttempts
  Rank <- MCRank
  Delayed = {j2}
  Handled = {j2}
  Reenqueue = FALSE
PROPERTIES
  RetryRunsAgain
