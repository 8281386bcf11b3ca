\* One half of the states has a reset find the SD card or not; the other has
\* the cache on an SD card, which is missing, switched on or off: the EEPROM
\* holds the maintainers below a cache in RAM, or all cards.
CONSTANTS
  u1 = u1
  u2 = u2
  u3 = u3
  zero = zero
  Uids = {u1, u2, u3}
  ZeroUid = zero
  Capacity = 1
  TTL = 1
  EeSize = 2
  KindGroups = {{"RAM", "SD"}, {"EEPROM", "OVERLAY"}}
SPECIFICATION Spec
SYMMETRY CardSymmetry
INVARIANTS
  ShownRightsGranted
  OneEntryPerCard
  MaintainersMirrored
PROPERTIES
  NothingReappears
  KeepsPromise
