SPECIFICATION FairSpec
CONSTANTS
  ArenaBytes = 2
  MaxFrames = 2
  NonceMax = 3
  TxDepth = 2
  BurstLen = 1
  DownCap = 2
  PhoneWrites = {"packet"}
  PhoneRoom = 1
  MaxClose = 2
  MaxLoss = 2
  NodeAtBoot = {"closed", "open"}
  Timing = {"start", "retry", "keepalive", "phones"}
PROPERTIES
  BootCompletes
  SessionRecovers
