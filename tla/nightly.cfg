SPECIFICATION PipelineSpec
CONSTANTS
  Jobs = {1, 2}
  Windows = 1
  Nothing = Nothing
  Dirs = {1, 2}
  Days = {1, 2}
  DagIds = {"daily", "baseOnly"}
  SkipBase = {TRUE}
  Clears = {FALSE, TRUE}
  Retention = 0
  RetryCap = 1
  Predicted = {1}
INVARIANTS
  GreenRunIsLive
  NoForgottenJob
PROPERTIES
  CleanupSparesLive
CONSTRAINT OneDagRuns
