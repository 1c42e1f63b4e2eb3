SPECIFICATION Spec
CONSTANTS
  ArenaBytes = 5
  MaxFrames = 5
  NonceMax = 3
  TxDepth = 2
  BurstLen = 2
  DownCap = 2
  PhoneWrites = {"packet"}
  PhoneRoom = 2
  MaxClose = 2
  MaxLoss = 1
  NodeAtBoot = {"closed", "open"}
  Timing = {"start", "retry", "keepalive", "liveness"}
INVARIANTS
  PublishedIsWholeBurst
  BurstNeverBroadcast
  KeepaliveReplyHidden
  PhonesKeepTheirAnswers
