SPECIFICATION FairSpec
CONSTANTS
  Players = {p1}
  Clients = {}
  NoPlayer = NoPlayer
  Requests = {r1}
  StartWorker = StartWorker
  EndWorker = EndWorker
  Points = 1
  MaxScore = 1
  PerMinute = 1
  Window = 1
  StartAt = 1
  EndAt = 2
  Horizon = 3
  MaxActions = 0
  MaxStops = 1
  MaxFeed = 1
  Environment = {"restart"}
PROPERTY EventuallyEnded
