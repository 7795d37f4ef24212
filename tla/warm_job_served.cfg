SPECIFICATION DaySpec
CONSTANTS
  Jobs = {1, 2}
  Windows = 1
  Nothing = Nothing
  Dirs = {1, 11}
  Days = {1}
  Slots = {11}
  DagIds = {"daily"}
  SkipBase = {FALSE}
  Clears = {FALSE, TRUE}
  Retention = 0
  RetryCap = 0
  SlotRetry = 1
  Predicted = {}
INVARIANTS
  CompletedWarmJobPasses
