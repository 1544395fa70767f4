CONSTANTS
  Workers = {w1}
  Keys = {k1}
  Gateways = {"tap"}
  Refs = {r1}
  EventIds = {e1, e2}
  TenantIsStore = FALSE
  Reported = {"succeeded", "failed", "pending"}
  NoWorker = NoWorker
  NoKey = NoKey
  NoRef = NoRef
  NoEvent = NoEvent
SPECIFICATION Spec
PROPERTIES IntentNeverRegresses
