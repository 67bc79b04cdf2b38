\* Two tasks of different priority, one token that fits one of them, a requeue and an
\* operator who closes tasks.
SPECIFICATION QueueSpec
CONSTANTS
  Parts = {"queue"}
  t1 = t1
  t2 = t2
  w1 = w1
  w2 = w2
  k1 = k1
  k2 = k2
  f1 = f1
  p1 = p1
  p2 = p2
  None = None
  Operator = Operator
  Tasks = {t1, t2}
  Workers = {w1, w2}
  Runners = {w2}
  Tokens = {k1}
  TokenTask <- MCTokenTask
  Priority <- MCPriority
  MaxAttempts = 2
  ClaimTTL = 1
  BackoffTicks <- MCOneTick
  ManualStatuses <- MCClose
  MaxRequeues = 1
  RecoveryRuns = TRUE
  FeedTasks = {t1}
  Listed = 1
  MaxShown = 1
  MaxReturns = 2
  MaxCloses = 1
  Blank = Blank
  Servers = {p1, p2}
  Jobs = {"autolearn-gardening", "retention-scheduler", "feature-flag-scheduler"}
  Quarter = 2
  Day = 2
  Flags = {f1}
  DisableAt <- MCDisableAt
  LastMinute = 3
  MaxStops = 1
  MaxErrors = 0
  NoDate = NoDate
INVARIANTS
  TypeOK
  ResultAuthorised
  OneLiveClaim
  AttemptBudget
CHECK_DEADLOCK FALSE
