CONSTANTS
  File = {f, g}
  MaxChunks = 2
  BatchSize = 3
  Window = 2
  MaxEdits = 1
  MaxDeaths = 1
  MaxMines = 2
  Dir <- MCDir
  Leaf <- MCLeaf
  SkipName = {"s"}
  Unreadable = {}
  Refused = {}
  RuleList <- MCRuleList
  Include <- MCInclude
  Transcript = {f}
  Wing = {u, v}
  MaxTurns = 3
  UpsertBatch = 2
  MaxTalks = 1
  MaxFalls = 1
  MaxRuns = 3
  Repo = {r}
  StaleAfter = 2
  MaxEvents = 1
  MaxFaults = 2
  MaxUserEdits = 2
  ChunkSize = 4
  ChunkOverlap = 1
  MinChunk = 2
  MinExchange = 1
  MaxText = 6
  Session = {1, 2}
  Word <- MCWord
  Common = {"may"}
  Alias <- MCAlias
  Seeds = {{"may"}, {"max"}}
  Roster <- MCRoster
  Short <- MCShort
  Long <- MCLong
  MaxChanges = 2
  MaxTears = 1
  Builder = {b1, b2}
  SaveInterval = 2
  MaxExchanges = 3
  MaxMemories = 1
  DigestSize <- MCDigestSize
  OldDrawer = {d1, d2, d3}
  Sidecar = {"graph", "seq"}
  MigrationBatch = 2
  MaxTries = 3
  Node <- MCNode
  Id <- MCId
  Limit = 2
  Cap = 3
  OrderedById = TRUE
  MaxSenderWrites = 4
  MaxEntries = 3
  MaxNodes = 3
  MegaSource <- MCMegaSource
  Stem <- MCStem
  Held <- MCHeld
  Near = 2
  MinLines = 2
  MinSessions = 1
  MaxSplits = 2
  MaxStops = 1
  FoundName <- MCFoundName
  Frequency <- MCFrequency
  Signals <- MCSignals
  MostPeople = 1
  MostProjects = 1
  MostUncertain = 1
  MaxFound = 4
  Notes <- MCNotes
  NewName = "w"
SPECIFICATION IntakeSpec
INVARIANTS IntakeTypeOK ScanSound TextSound HooksSound MigrationSafe TrackersSound PagingSound
PROPERTIES IngestSound IntakeEnds ConvoSound NamesSound
CHECK_DEADLOCK FALSE
