CONSTANTS
  a = a
  b = b
  c = c
  d = d
  Tips = {a, b, c, d}
  TileOrder <- MCTileOrder
  Size <- MCSize
  SaveThreads = {1, 2}
  Idle = Idle
  MaxCrashes = 1
  MetadataSize = 2
  CatalogSize = 1
  MaxSkippedBytes = 2
  MaxConnections = 2
  LoadThreads = {1, 2}
  NoTile = NoTile
  Requests <- MCRequests
SPECIFICATION Spec
INVARIANTS PublishedWhole TilesIntact CommitComplete
PROPERTY LoadEnds
