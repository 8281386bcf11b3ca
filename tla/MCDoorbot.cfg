\* Both door roles, with and without an announcer.
CONSTANTS
  u1 = u1
  u2 = u2
  zero = zero
  Uids = {u1, u2}
  ZeroUid = zero
  Roles = {1, 2}
  HoldTime = 1
  BellMemory = 2
  BellSilence = 0
  Debounce = 1
  Persistent = TRUE
SPECIFICATION FairSpec
INVARIANTS
  AnswersABell
PROPERTIES
  OpensForKnown
  HeldOpen
  DoorCloses
