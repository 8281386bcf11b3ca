\* A packet of fourteen bytes, as long as that of connect().
CONSTANTS
  MaxPacket = 14
  MaxFaults = 2
  Topic <- Topics
  Payload <- Payloads
SPECIFICATION FairSpec
INVARIANTS
  SessionKnown
PROPERTIES
  KeepsAnnouncePromise
  Arrives
CHECK_DEADLOCK FALSE
