\* Three formats, three cards, and a reset and a failing write at any point.
CONSTANTS
  u1 = u1
  u2 = u2
  u3 = u3
  zero = zero
  Uids = {u1, u2, u3}
  ZeroUid = zero
  UnitsPerBlock = 2
  FatPerBlock = 3
  Fat16From = 3
  Fat32From = 7
  Formats <- SmallCards
  Stored <- ThreeUsers
  MaxCalls = 4
  MaxResets = 1
  MaxFaults = 1
  Failing = {1, 2, 3, 4}
SPECIFICATION Spec
SYMMETRY CardSymmetry
INVARIANTS
  VolumeSound
  ClosedIsDurable
  NothingLeaks
PROPERTIES
  KeepsFilePromise
