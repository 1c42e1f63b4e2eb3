SPECIFICATION Spec
CONSTANTS
  ArenaBytes = 2
  MaxFrames = 2
  NonceMax = 3
  TxDepth = 1
  BurstLen = 1
  DownCap = 2
  PhoneWrites = {"malformed", "disconnect"}
  PhoneRoom = 1
  MaxClose = 1
  MaxLoss = 1
  NodeAtBoot = {"closed", "open"}
  Timing = {}
INVARIANTS
  ProxyTypeOK
  WatchdogCoversFetch
  LiveHasCache
  NoncesLegal
PROPERTIES
  CacheImplementsStore
  FetchNonceKept
  NodeSessionUndisturbed
