CONSTANTS
  Workers = {w1, w2}
  Keys = {k1, k2}
  Gateways = {"tap", "dummy"}
  Refs = {r1}
  EventIds = {e1, e2}
  TenantIsStore = TRUE
  Reported = {"succeeded", "failed", "pending"}
  NoWorker = NoWorker
  NoKey = NoKey
  NoRef = NoRef
  NoEvent = NoEvent
SPECIFICATION Spec
SYMMETRY Symmetry
VIEW View
INVARIANTS TypeOK SuccessCountsOnce
PROPERTIES FlaggedIsHeld AppliedOnce KeepsContract
