SPECIFICATION FairSpec
CONSTANTS
  cache <- MCNoCache
  ArenaBytes = 5
  MaxFrames = 5
  NoPhone = NoPhone
  Phone = {p1, p2}
  NSlots = 2
  QueueDepth = 1
  Nonces = {}
  PhoneOps = {"disconnect"}
  Preemptive = TRUE
  Faults = {"advertise", "connect", "disconnect"}
  Frames <- MCText
  PROXY_ID_SIZE = 2
  PROXY_PRACTICAL_MAX = 6
  MaxMsg = 1
  MaxJoin = 3
  MaxOps = 2
INVARIANTS
  SlotsMatchLinks
  LeavingIsTrue
PROPERTIES
  NewcomerNeverDropped
  LeavingIsReleased
  LeavingIsQuiet
CHECK_DEADLOCK FALSE
