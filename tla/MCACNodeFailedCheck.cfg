SPECIFICATION Spec
CONSTANTS
  Uids = {u1}
  ZeroUid = z
  MinOn = 0
  ActiveHigh = TRUE
  OffDelay = 0
  AddTimeout = 1
  StatusPeriod = 0
  BootAge = 2
  Presses = {"NONE", "SHORT_PRESS", "LONG_PRESS"}
  NetworkFails = TRUE
  CacheForgets = FALSE
  Persistent = {2}
  ServerEdits = FALSE
  Announces = FALSE
  Resets = FALSE
PROPERTIES PutInServiceByMaintainer
