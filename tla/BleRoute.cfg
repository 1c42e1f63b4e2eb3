SPECIFICATION Spec
CONSTANTS
  cache <- MCNoCache
  ArenaBytes = 5
  MaxFrames = 5
  NoPhone = NoPhone
  Phone = {p1, p2}
  NSlots = 2
  QueueDepth = 2
  Nonces = {}
  PhoneOps = {"subscribe", "register", "heartbeat"}
  Preemptive = FALSE
  Faults = {"notify"}
  Frames <- MCFrames
  PROXY_ID_SIZE = 2
  PROXY_PRACTICAL_MAX = 6
  MaxMsg = 2
  MaxJoin = 2
  MaxOps = 2
INVARIANTS
  BleTypeOK
  UnicastPrivate
  LiveInOrder
  NoLostDoorbell
CHECK_DEADLOCK FALSE
SYMMETRY Symm
