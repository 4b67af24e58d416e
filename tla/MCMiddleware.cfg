SPECIFICATION Spec
CONSTANTS
  Key = {k1}
  rate = 1
  capacity = 10
  interval = 2
  limit = 2
  duration = 3
  MaxTime = 22
  c1 = c1
  c2 = c2
  r1 = r1
  a1 = a1
  Address = {a1}
  Stats = {s1, s2, s3}
  Call = {c1, c2}
  Reader = {r1}
  Cleaner = Cleaner
  None = None
  FailureStep = 1
  MaxPenaltyMinutes = 1
  SuspiciousThreshold = 1
  SuspiciousPenaltyMinutes = 1
  MaxIdle = 1
  Setups <- MCSetups
  MaxTimers = 6
  Client = {a1}
  Visitor = {v1, v2}
  alertThreshold = 2
  blockDuration = 2
  MaxClock = 7
  MaxSuspicious = 5
  MaxTokens = 3
  Served = {c1, c2}
  Bound = {1, 2}
  Longest = 3
  MaxServed = 2
  CacheKey = {1, 2, 3}
  Foreign = {9}
  Matching <- MCMatching
  Slashed = {2}
  Cacher = {x1, x2}
  MaxSets = 2
  Exchange = {x1, x2}
  NoQuery = NoQuery
  Unions <- MCUnions
  MaxCalls = 2
  Row = {1, 2, 3, 4}
  ChunkSize = 2
  MaxChanges = 1
  MaxVisits = 2
  TxCaller = {c1, c2}
  MaxConns = 2
INVARIANTS
  TypeOK
  BurstBounded
  BlockHasTimer
  TimersBounded
  OnlyCyclesBlock
  BlockDeserved
  MetricsAddUp
  LoginRenews
  CacheKeeps
  ArgumentsFit
  ChunkVisitsOnce
  TransactionSettles
PROPERTIES
  ResetHonoured
  ImplementsWindowLimit
CHECK_DEADLOCK FALSE
