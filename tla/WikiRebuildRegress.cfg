\* Two workers on one page: the pointer.
SPECIFICATION CurationSpec
CONSTANTS
  w1 = w1
  w2 = w2
  w3 = w3
  fact1 = fact1
  fact2 = fact2
  chunk1 = chunk1
  v1 = v1
  v2 = v2
  v3 = v3
  f1 = f1
  f2 = f2
  f3 = f3
  f4 = f4
  p1 = p1
  p2 = p2
  NoPage = NoPage
  WikiWorkers = {w1, w2}
  Facts = {fact1}
  Chunks = {chunk1}
  MaxVersions = 2
  MaxWikiStops = 1
  NoWindow = NoWindow
  Workers = {w1, w2, w3}
  Windows = {v1, v2, v3}
  MaxPins = 2
  MaxStops = 1
  None = None
  Filings = {f1, f2, f3, f4}
  Date <- DateDef
  NoId = {f1}
  Undated = {f3}
  Malformed = {f2}
  Overlap = 2
  LastTick = 6
  DayOf <- DayOfDef
  PageSize = 2
  Pollers = {p1, p2}
  MaxPolls = 2
  MaxRuns = 1
  MaxFailures = 1
PROPERTIES
  PublishedAdvances
CHECK_DEADLOCK FALSE
