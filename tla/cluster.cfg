SPECIFICATION MCSpec
CONSTANTS
  Jobs = {1, 2}
  Windows = 2
  Nothing = Nothing
  Window = {1, 2}
  MaxActive = 2
  MaxKills = 1
  MaxVersions = 2
  MaxStarts = 2
INVARIANTS
  SentinelIsHonest
  SentinelVouches
  OwnLineage
  InputsAreSound
  
PROPERTIES
  PredictionsFollowModel
CHECK_DEADLOCK FALSE
