\* An active low relay, the polarity at which the Door's claim shows.
SPECIFICATION RunPinSpec
CONSTANTS
  Uids = {u1}
  ZeroUid = z
  MinOn = 2
  ActiveHigh = FALSE
  ShortRun = 2
  MaxAge = 4
  RuntimeLimit = 5
INVARIANTS RelayFollowsTool
PROPERTIES RunsAreReal MinOnTime PendingOffResolves
