SPECIFICATION FairSpec
CONSTANTS
  MaxPayload = 2
  RingSize = 5
  Payloads <- MCPayloads
  Noise <- MCNoise
  EnableMayFail = TRUE
  MaxSent = 2
  MaxStops = 1
  MaxNoise = 1
INVARIANTS
  RxTypeOK
  PayloadInBounds
  StreamDelivered
PROPERTIES
  RecoversFromLoss
CHECK_DEADLOCK FALSE
