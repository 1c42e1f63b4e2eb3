SPECIFICATION FairSpec
CONSTANTS
  Caller = {btrx, sysq}
  Frame = {f1, f2, big}
  NoFrame = NoFrame
  Oversize = {big}
  TxQueueDepth = 2
  MaxAccept = 4
INVARIANTS
  TxTypeOK
  BufferOwned
  NoLostWakeup
  FlagTellsOwner
PROPERTIES
  QueueDrains
  LinkSpec
