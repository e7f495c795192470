SPECIFICATION Spec
CONSTANTS
  Keys = {farm, savedAt}
  TransientKeys = {savedAt}
  LastSavedAt = savedAt
  Sockets = {s1, s2}
  NoSocket = NoSocket
  Handlers = {h1}
  Worker = Worker
  MaxPatches = 1
  SessionTtl = 4
  Grace = 2
  FlushBuffer = 1
  GraceIsText = FALSE
  Environment = {"race"}
INVARIANT PlayerHasSession
