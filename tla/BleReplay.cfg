SPECIFICATION Spec
CONSTANTS
  cache <- MCCache
  ArenaBytes = 5
  MaxFrames = 5
  NoPhone = NoPhone
  Phone = {p1, p2}
  NSlots = 2
  QueueDepth = 2
  Nonces = {69420, 69421}
  PhoneOps = {"subscribe", "want_config", "disconnect"}
  Preemptive = TRUE
  Faults = {"disconnect", "notify"}
  Frames <- MCText
  PROXY_ID_SIZE = 2
  PROXY_PRACTICAL_MAX = 6
  MaxMsg = 1
  MaxJoin = 2
  MaxOps = 2
INVARIANTS
  ReplayExact
CHECK_DEADLOCK FALSE
SYMMETRY Symm
