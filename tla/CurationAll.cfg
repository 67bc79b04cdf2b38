\* Two workers on one wiki page; three workers and a researcher on one standing prompt;
\* two pollers of an amended form type whose answers have room for two of its four filings,
\* one malformed, one without an identity and one without a date; two runs of the database
\* job, with and without its credentials, one failure and a restart of the server.
SPECIFICATION CurationFairSpec
CONSTANTS
  w1 = w1
  w2 = w2
  w3 = w3
  fact1 = fact1
  fact2 = fact2
  chunk1 = chunk1
  v1 = v1
  v2 = v2
  v3 = v3
  f1 = f1
  f2 = f2
  f3 = f3
  f4 = f4
  p1 = p1
  p2 = p2
  NoPage = NoPage
  WikiWorkers = {w1, w2}
  Facts = {fact1, fact2}
  Chunks = {}
  MaxVersions = 2
  MaxWikiStops = 1
  NoWindow = NoWindow
  Workers = {w1, w2, w3}
  Windows = {v1, v2, v3}
  MaxPins = 2
  MaxStops = 1
  None = None
  Filings = {f1, f2, f3, f4}
  Date <- DateDef
  NoId = {f1}
  Undated = {f3}
  Malformed = {f2}
  Overlap = 2
  LastTick = 6
  DayOf <- DayOfDef
  PageSize = 2
  Pollers = {p1, p2}
  MaxPolls = 2
  MaxRuns = 2
  MaxFailures = 1
INVARIANTS
  CurationTypeOK
  WikiSound
  PointerActive
  EdgarSound
  GenesisWhole
PROPERTIES
  WorkEnds
CHECK_DEADLOCK FALSE
