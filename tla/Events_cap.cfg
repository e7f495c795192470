SPECIFICATION Spec
CONSTANTS
  Players = {p1}
  Clients = {}
  NoPlayer = NoPlayer
  Requests = {r1, r2}
  StartWorker = StartWorker
  EndWorker = EndWorker
  Points = 1
  MaxScore = 1
  PerMinute = 2
  Window = 1
  StartAt = 1
  EndAt = 2
  Horizon = 3
  MaxActions = 2
  MaxStops = 1
  MaxFeed = 2
  Environment = {"concurrent"}
INVARIANT ScoreCap
