\* Two workers on a source with a crash and a failed lookup; two open pages of golden
\* documents; two requests on the chat's commentary; three drafts under two reviewers and
\* two at the citation gate; texts of up to three and five lines; two runs of the agent's
\* tool; five requests on a passage; two discovery tasks of one document;
\* three requests on topics.
SPECIFICATION KnowledgeSpec
CONSTANTS
  a1 = a1
  a2 = a2
  b1 = b1
  b2 = b2
  e1 = e1
  e2 = e2
  other3 = other3
  long = long
  other = other
  empty = empty
  m1 = m1
  u1 = u1
  u2 = u2
  None = None
  Workers = {a1, a2}
  Contents = {long, other, empty}
  Pieces <- MCPieces
  MaxCopies = 2
  MaxFacts = 3
  MaxCrashes = 1
  MaxErrors = 1
  Docs = {a1, a2}
  KindOf <- MCKindOf
  Pages = {b1, b2}
  MaxAsked = 4
  NoDoc = NoDoc
  Requests = {a1, a2}
  Researchers = {"u1"}
  MaxEntries = 2
  MaxEdits = 2
  NoEntry = NoEntry
  Drafts = {a1, a2, other3}
  Reviewers = {b1, b2}
  MaxStops = 1
  Submitted = {a1, a2}
  MaxClaims = 2
  Sla = 99
  Lines = {"x", "y", ""}
  Blank = ""
  Notice = "..."
  Longest = 3
  MaxLines = 2
  Threshold = 20
  WikiLines = {"x", "y"}
  MaxLength = 5
  Context = 1
  Runs = {a1, a2}
  NoteCalls = {a1, a2, b1, b2}
  Notes = {"n1"}
  Threads = {"t1"}
  Replies = {e1, e2}
  Discoverers = {a1, a2}
  Methodologies = {m1}
  Venues = {e1, e2}
  CatalogOf <- MCCatalogOf
  Admins = {b1, b2}
  NoMethodology = NoMethodology
  Topics = {a1, a2}
  Names = {"Default", "other"}
  Default = "Default"
  People = {u1, u2}
  Me = u1
  TopicCalls = {b1, b2, other3}
  Placed = {"row"}
  MaxStarts = 1
  NoTopic = NoTopic
  NoName = NoName
  NoPerson = NoPerson
SYMMETRY Symmetry
INVARIANTS
  KnowledgeTypeOK
  IngestionSound
  GoldenSound
  PublicationSound
  DiffsSound
  AutolearnSound
  RemarksSound
  SourcesSound
  TopicsSound
CHECK_DEADLOCK FALSE
