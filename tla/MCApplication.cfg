SPECIFICATION Spec
CONSTANTS
  Unset = Unset
  Junk = Junk
  Envs <- MCEnvs
  Arguments <- MCArguments
  Once = {"email"}
  MaxRequests = 1
  MaxShutdowns = 2
  Mail = {m1, m2, m3, m4}
  ZeroMail = ZeroMail
  MailBuffer = 1
  None = None
  j1 = j1
  j2 = j2
  j3 = j3
  j4 = j4
  Job = {j1, j2, j3, j4}
  Worker = {w1}
  Priority = {1, 2, 999}
  CreatedAt <- MCCreatedAt
  Delayed = {j3}
  Queue = {q1, q2}
  DefaultQueue = q1
  DefaultWorkers = 2
  MaxCreated = 4
  MaxWorkers = 2
  StoredJob = {j1}
  Caller = {g1, g2}
  Ticker = Ticker
  Stopper = Stopper
  NoJob = NoJob
  MaxEdits = 2
  SeedRun = {r1, r2}
  Records <- MCRecords
  Name = {"Post", "PostTag"}
  Page = {"home"}
  Within <- MCWithin
  Starter = "Post"
  MaxCommands = 2
INVARIANTS
  TypeOK
  ListedIsRunning
  ShutdownReleases
  DependenciesUp
  InUseIsOpen
  MailInOrder
  QueuedIsStored
  SeedComplete
  WorkIsKept
PROPERTIES
  ServedInOrder
  ImplementsBag
  MailHandled
CHECK_DEADLOCK FALSE
