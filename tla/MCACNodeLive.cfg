SPECIFICATION FairSpec
CONSTANTS
  Uids = {u1}
  ZeroUid = z
  MinOn = 1
  ActiveHigh = TRUE
  OffDelay = 1
  AddTimeout = 1
  StatusPeriod = 1
  BootAge = 2
  Presses = {"NONE", "SHORT_PRESS", "LONG_PRESS"}
  NetworkFails = TRUE
  CacheForgets = TRUE
  Persistent = {}
  ServerEdits = TRUE
  Announces = FALSE
  Resets = TRUE
PROPERTIES OffWithoutCard UserGetsTool
