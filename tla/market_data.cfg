SPECIFICATION MCSpec
CONSTANTS
  Symbols = {s1}
  NumBars = 4
  WindowSize = 2
  Required = 1
  MinComplete = 1
  FaultCap = 1
  Scripts = {p,q}
  NoFile = NoFile
  Members = {1,2}
  Months = {1,2}
  Chunks = {1,2}
  Tolerated = {2}
  MaxRuns = 2
  DaysKept = 3
  PerDay = 2
  BeforeBreak = {2}
  GapDays = {1}
  Unavailable = {1}
  Limit = 1
SYMMETRY MCSym
INVARIANTS GapHasCause MarkerVouches LagsTrueInOrder ShippedIsCovered ResumeIsSound StaleHasCause
PROPERTIES TruncateSpares
CHECK_DEADLOCK FALSE
