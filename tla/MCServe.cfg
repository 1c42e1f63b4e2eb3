SPECIFICATION ServeSpec
CONSTANTS
  ArenaBytes = 5
  MaxFrames = 4
  MaxLen = 2
  Variant = {"node_info", "queueStatus", "config", "config_complete"}
  Data = {1, 2}
  Nonces = {7, 69420, 69421}
INVARIANTS
  CacheTypeOK
  FramesIntact
  SegmentsCover
  ServedExact
