SPECIFICATION Spec
CONSTANTS
  ArenaBytes = 2
  MaxFrames = 2
  NonceMax = 3
  TxDepth = 2
  BurstLen = 1
  DownCap = 2
  PhoneWrites = {"want_config"}
  PhoneRoom = 1
  MaxClose = 1
  MaxLoss = 0
  NodeAtBoot = {"closed", "open"}
  Timing = {"start", "retry", "keepalive", "liveness"}
INVARIANTS
  ServedWhilePublished
