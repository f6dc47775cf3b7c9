CONSTANTS
  Process = {1, 2}
  First = 1
  Id = {1, 2}
  Meta = {1, 2}
  Absent = Absent
  NoCall = NoCall
  Setting <- MCSetting
  MaxCrashes = 1
  N = 8
  TaskSize = 1
  Window = 3
  WriteSize = 3
  Backend = {"lance", "postgres"}
  ReforgeId = {1, 2, 3}
  Model = {"m1", "m2"}
  BatchSize = {1, 2}
  MaxWrites = 3
  MaxJobs = 2
  Wing = {"u", "v"}
  Room = {"a", "b", "c"}
  General = "general"
  Initially <- MCInitially
  Policy <- MCPolicy
  ViewPage = 2
  MaxHops = 2
  WalkShown = 2
  MaxFilings = 2
  MaxEdits = 1
  DedupDrawer = {d1, d2, d3}
  Place = {0, 1, 2, 3}
  Size = {1, 2, 3}
  ShortSize = 2
  Threshold = 2
  MostResults = 2
  DeleteBatch = 1
  Writer = {1, 2}
  GraphStore = {"sqlite", "postgres"}
  FactOf <- MCFactOf
  MaxDay = 1
  Span <- MCSpan
  MaxRows = 2
  Content = {1, 2}
  Alike <- MCAlike
  DiaryLike <- MCDiaryLike
  Saves <- MCSaves
  MaxRequests = 2
  MaxServers = 2
  MaxFailures = 1
  Field = {"wing", "seq", "kind", "data_class", "contributor"}
  LanceColumned = {"wing", "seq", "kind", "data_class"}
  PgColumned = {"wing", "seq", "kind"}
  Numbered = {"seq"}
  ColumnDefault <- MCColumnDefault
  FieldValue <- MCFieldValue
  Paired <- MCPaired
  Drawer = {1, 2}
  MostHits = 2
  Widened <- MCWidened
  ScanBatch = 1
  ScanLimit = 2
  MaxWritten = 1
  GraphKind = {"sqlite", "memory", "postgres"}
  CandidateId = {1, 2, 3}
  Evidence <- MCEvidence
  Extracted <- MCExtracted
  ExtractBatch = 1
  ExtractLimits = {0, 1}
  PageSize = 1
  MaxSecond = 1
  MaxExtracts = 2
  MaxOutside = 1
  Thread = {1, 2}
  PgProcess = {1, 2}
  Width = {1, 2}
  IndexFrom = 1
  MaxStored = 2
  MaxBreaks = 1
  StampProcess = {1, 2}
  BatchOf = {1, 2}
  MaxNumber = 3
  MaxMinted = 2
  MaxFatal = 1
  Shelves <- MCShelves
  Note <- MCNotes
  Lengths <- MCLengths
  NewestShown = 2
  RoomsShown = 1
  ScanPage = 2
  LinesCap = 3
  BytesCap = 7
  MarkerBytes = 3
  MaxAdded = 1
  MaxMoved = 1
  RawQuery <- MCRawQuery
  SafeLength = 2
  MinLength = 2
  MaxLength = 3
SPECIFICATION CastleSpec
PROPERTY ReforgesAll
CHECK_DEADLOCK FALSE
