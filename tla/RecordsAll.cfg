\* Three votes on a request; two calls on a hold while records are swept; two callers that
\* move the same rows; three audited operations in two milliseconds; two calls that write
\* and delete a record under two policies; two backups with a key that changes.
SPECIFICATION RecordsSpec
CONSTANTS
  c1 = c1
  c2 = c2
  p1 = p1
  p2 = p2
  p3 = p3
  v1 = v1
  v2 = v2
  v3 = v3
  r1 = r1
  h1 = h1
  e1 = e1
  e2 = e2
  NoOne = NoOne
  Nobody = Nobody
  Requests = {r1}
  Worm = {r1}
  Required <- MCRequired
  Approvers = {p1, p2, p3}
  Calls = {v1, v2, v3}
  Holds = {h1}
  Officers = {p1, p2, p3}
  MaxRemovals = 2
  Sessions = {c1, c2}
  Records = {e1, e2}
  Frozen = {e2}
  LifeCalls = {c1, c2}
  MaxMoves = 4
  NoState = NoState
  Audited = {p1, p2, p3}
  MaxNow = 1
  RetentionCalls = {c1, c2}
  Policies = {"day", "none"}
  FloorOf <- MCFloorOf
  Rows = {r1}
  MaxDays = 1
  OverrideFloors = {2}
  MaxCalls = 3
  NoPolicy = NoPolicy
  Jobs = {c1, c2}
  Operations = {e1}
  Masters = {e2}
  NoKey = NoKey
  MaxSeconds = 1
  MaxChanges = 1
SYMMETRY Symmetry
INVARIANTS
  RecordsTypeOK
  DecisionSound
  HoldsSound
  LogsSound
  RetentionSound
  BackupSound
CHECK_DEADLOCK FALSE
