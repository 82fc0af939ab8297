SPECIFICATION Spec
CONSTANTS
  tile = tile
  Tiles = {tile}
  Layers = {1}
  BlendLayers = {0, 1, 2}
  OldDisks <- MCOldDisks
  Strengths = {2}
  Opaque = 1
  MaxCommands = 2
  MaxTurns = 2
  MaxLoads = 2
  MaxWaiting = 2
INVARIANTS
  TypeOK
  UnlistedAreSaved
  HistoryAddsUp
PROPERTIES
  StoreKept
CHECK_DEADLOCK FALSE
