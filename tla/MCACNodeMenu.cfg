SPECIFICATION Spec
CONSTANTS
  Uids = {u1, u2}
  ZeroUid = z
  MinOn = 0
  ActiveHigh = TRUE
  OffDelay = 0
  AddTimeout = 1
  StatusPeriod = 0
  BootAge = 2
  Presses = {"NONE", "SHORT_PRESS", "LONG_PRESS"}
  NetworkFails = TRUE
  CacheForgets = TRUE
  Persistent = {2}
  ServerEdits = TRUE
  Announces = FALSE
  Resets = TRUE
SYMMETRY CardSymmetry
INVARIANTS MenuAuthority ShownStatusIsSaved
PROPERTIES PutInService
