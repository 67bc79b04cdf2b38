\* Two ceremonies of a user with two authenticators; two requests on labels of two
\* tenants; three rows of two fields; two servers, two requests and one pod; two operators;
\* three releases; two launchers of the demo, with one cluster name and one port.
SPECIFICATION AccessSpec
CONSTANTS
  c1 = c1
  c2 = c2
  k1 = k1
  k2 = k2
  s1 = s1
  s2 = s2
  u1 = u1
  e1 = e1
  su = su
  i1 = i1
  i2 = i2
  i3 = i3
  Ceremonies = {c1, c2}
  Keys = {k1, k2}
  FirstKeys = {k1}
  Counting = {k1}
  Threshold = 2
  MaxChallenges = 3
  MaxRecoveries = 1
  MaxRemoved = 1
  MaxSetups = 1
  NoKey = NoKey
  LabelTenants = {"t1", "t2"}
  Readers = {u1}
  Entities = {e1}
  LabelCalls = {c1, c2}
  Superuser = su
  NoLabel = NoLabel
  Ids = {1, 2, 3}
  Fields = {k1, k2}
  BatchSize = 2
  MaxFailed = 1
  MaxWrites = 2
  Servers = {s1, s2}
  TokenCalls = {c1, c2}
  Pods = {"p1"}
  SessionLife = 1
  WorkerLife = 1
  MaxTokens = 2
  MaxClock = 3
  MaxRotations = 1
  NoToken = NoToken
  Operators = {c1, c2}
  MaxReruns = 1
  Images = {i1, i2, i3}
  FirstImage = i1
  WorkerTypes <- MCWorkerTypes
  MaxReleases = 3
  Launchers = {c1, c2}
  ClusterNames = {k1}
  Ports = {1}
  MaxRefreshes = 1
  MaxSignals = 1
  NoLauncher = NoLauncher
  NoName = NoName
SYMMETRY Symmetry
INVARIANTS
  AccessTypeOK
  CredentialsSound
  SealedSound
  OperationSound
PROPERTIES
  ProvisionWhole
CHECK_DEADLOCK FALSE
