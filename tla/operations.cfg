SPECIFICATION OperationsSpec
CONSTANTS
  Promoters = {daily, baseOnly, intraday}
  Dirs = {d1, d2}
  NoDir = NoDir
  NumDates = 2
  MaxJobs = 2
  Logins = {g1}
  Symbols = {s1, s2}
  Sample = {s1}
  MadeDays = {1, 2}
  RealDays = {2, 3}
  MonthDays = {3}
  MaxStarts = 5
  NumTickers = 2
  DayBars = 2
  Archive = 2
  ChunkDays = 1
  LastBar = 9
  Fills = {1, 2}
  Imports = {3, 4}
  MaxTickerRuns = 3
  LongTtl = 2
  MaxReloads = 2
  MaxBuilds = 2
  NumDays = 2
  MaxDracJobs = 2
  MaxAgain = 1
  Shares = {a1, a2}
  NoShare = NoShare
  ArchiveDays = 2
  DayRows = 2
  FileChunk = 1
  MaxProcesses = 2
  MaxLandings = 2
INVARIANTS
  FailureNeedsOverlap
  ShownIsDone
  TablesHaveCause
  RowsHaveCause
  
  DracVouches
  FilesHaveCause
PROPERTIES
  SoloPublishesItsOwn
  RegisterSpec
  BootFailsForCause
CHECK_DEADLOCK FALSE
