SPECIFICATION Spec
CONSTANTS
  Players = {p1}
  Clients = {}
  NoPlayer = NoPlayer
  Requests = {r1, r2}
  StartWorker = StartWorker
  EndWorker = EndWorker
  Points = 1
  MaxScore = 2
  PerMinute = 2
  Window = 1
  StartAt = 1
  EndAt = 2
  Horizon = 3
  MaxActions = 3
  MaxStops = 1
  MaxFeed = 1
  Environment = {"admin", "revive", "concurrent", "backdated", "pgdown", "queuedown", "crash", "deaf", "reset"}
SYMMETRY Symmetry
INVARIANT OvershootBounded
INVARIANT EveryPointIsLogged
INVARIANT EventInv
PROPERTY SnapshotIsFinal
