SPECIFICATION TrainingSpec
CONSTANTS
  Jobs = {1, 2}
  Windows = 1
  Nothing = Nothing
  Dirs = {1, 11}
  Days = {1}
  DagIds = {"daily", "baseOnly"}
  SkipBase = {FALSE}
  Clears = {FALSE}
  Retention = 0
  RetryCap = 0
  Predicted = {1}
  Slots = {11}
  CatchDays = {1}
  SlotRetry = 1
  CatchRetry = 1
INVARIANTS
  RecordIsHonest
  NoForgottenTraining
  PromotedIsOwn
  DayPublishesItsOwn
CHECK_DEADLOCK FALSE
