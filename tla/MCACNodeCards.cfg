SPECIFICATION Spec
CONSTANTS
  Uids = {u1, u2}
  ZeroUid = z
  MinOn = 2
  ActiveHigh = TRUE
  OffDelay = 2
  AddTimeout = 0
  StatusPeriod = 1
  BootAge = 2
  Presses = {"NONE"}
  NetworkFails = TRUE
  CacheForgets = TRUE
  Persistent = {0, 1, 2}
  ServerEdits = TRUE
  Announces = TRUE
  Resets = TRUE
SYMMETRY CardSymmetry
INVARIANTS GrantedInv OffStillToAnnounce
PROPERTIES KeepsPromise UsesTool UserKeepsTool
