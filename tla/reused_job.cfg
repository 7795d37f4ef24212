SPECIFICATION PipelineSpec
CONSTANTS
  Jobs = {1, 2}
  Windows = 1
  Nothing = Nothing
  Dirs = {1}
  Days = {1}
  DagIds = {"daily"}
  SkipBase = {FALSE}
  Clears = {FALSE, TRUE}
  Retention = 0
  RetryCap = 1
  Predicted = {}
PROPERTIES
  ReusedJobIsInFlight
