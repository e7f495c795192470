SPECIFICATION Spec
CONSTANTS
  Keys = {farm, savedAt}
  TransientKeys = {savedAt}
  LastSavedAt = savedAt
  Sockets = {s1, s2}
  NoSocket = NoSocket
  Handlers = {h1}
  Worker = Worker
  MaxPatches = 2
  SessionTtl = 4
  Grace = 2
  FlushBuffer = 1
  GraceIsText = FALSE
  Environment = {"crash", "pgdown", "idle", "reauth", "lag"}
INVARIANT ProgressInv
PROPERTY StoredNeverRegresses
