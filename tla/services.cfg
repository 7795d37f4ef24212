SPECIFICATION Spec
CONSTANTS
  Workers = {w1,w2}
  Threads = {t1,t2}
  MaxPromotions = 1
  NoBundle = NoBundle
  Loaders = {l1,l2}
  Readers = {r1}
  NumSteps = 2
  MaxReplays = 2
  Processes = {p1}
  Clients = {k1,k2}
  NumLines = 2
  MaxLines = 1
  MaxQueue = 1
  Commands = {c1,c2}
  MaxModels = 2
  Tickers = {s1,s2}
  Steady = {s1}
  NumDays = 6
  NumSlots = 2
  NumFolds = 2
  Block = 1
  MinStart = 2
  RefreshDays = 2
  WarmDays = 1
  MinRows = 3
  TableDays = 5
  SessionBars = 2
  RollDays = 2
  ServeDays = 3
  TrainDays = 4
  PredictDays = 2
  Oddities = 2
  NumHorizons = 3
  Pool = 2
  NumCutoffs = 3
  MaxTrainings = 2
  MaxLosses = 1
INVARIANTS ReloadSticks AnswerIsOneReplay CurrentSurvives PredictionsTellTruth LearntBeforeAsked TrainedAsServed PredictedByOneSet WarmChainUnbroken
PROPERTIES NoLineIsLost QueuedIsSent
CONSTRAINT TrainersApart
CHECK_DEADLOCK FALSE
