\* An event with an owner and one without, two workers and three evaluations, two
\* reviewers, one seeded signal of each kind; two filings on one event; a journal of two
\* rows with one client, two alerts and two archivers; the pages with one signal and one
\* prompt.
SPECIFICATION MarketSideSpec
CONSTANTS
  e1 = e1
  e2 = e2
  w1 = w1
  w2 = w2
  r1 = r1
  r2 = r2
  s1 = s1
  d1 = d1
  q1 = q1
  a1 = a1
  a2 = a2
  None = None
  Events = {e1, e2}
  Owned = {e1}
  Workers = {w1, w2}
  Reviewers = {r1, r2}
  Sessions = {s1}
  Delivered = {d1}
  Queued = {q1}
  MaxVersion = 2
  MaxRuns = 3
  Filings = {1, 2}
  FiledAt <- MCFiledAt
  Closes <- MCCloses
  DedupWindow = 1
  Ingesters = {w1, w2}
  MaxNow = 1
  MaxRows = 2
  Streams = {s1}
  PollLimit = 2
  MaxTicks = 2
  Alerts = {a1, a2}
  Archivers = {w1, w2}
  FeedSignals = {"s1"}
  Prompts = {"p1"}
  Filters = {"all", "none"}
  FirstFilter = "all"
  Matches <- MCMatches
  MaxLoads = 3
  MaxActs = 2
  MaxOthers = 2
  NoAct = "-"
SYMMETRY Symmetry
INVARIANTS
  MarketSideTypeOK
  HistorySound
  ResolvedMostSpecific
  RowsTruthful
  ScreensCurrent
PROPERTIES
  ValidMoves
CHECK_DEADLOCK FALSE
