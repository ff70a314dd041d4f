SPECIFICATION IndexSpec
CONSTANTS
  w1 = w1
  w2 = w2
  w3 = w3
  Writers <- MCWriters
  MaxId = 8
  ValueWidth = 3
  CellBits = 4
  CellsPerSegment = 3
  Pile <- MCPile
  Workloads <- MCWorkloads
INVARIANTS EntriesKept NoStrayEntries
