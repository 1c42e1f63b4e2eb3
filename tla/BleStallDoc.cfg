SPECIFICATION Spec
CONSTANTS
  cache <- MCCache
  ArenaBytes = 5
  MaxFrames = 5
  NoPhone = NoPhone
  Phone = {p1, p2}
  NSlots = 2
  QueueDepth = 2
  Nonces = {7}
  PhoneOps = {"subscribe", "want_config"}
  Preemptive = FALSE
  Faults = {}
  Frames <- MCText
  PROXY_ID_SIZE = 2
  PROXY_PRACTICAL_MAX = 6
  MaxMsg = 1
  MaxJoin = 1
  MaxOps = 1
INVARIANTS
  NoLostDoorbell
CHECK_DEADLOCK FALSE
