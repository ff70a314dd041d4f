SPECIFICATION FairSpec
CONSTANTS
  w1 = w1
  w2 = w2
  Tiles <- MCTiles
  Workers <- MCWorkers
  Output = out
  Order <- MCOrder
  ChunkSize <- MCChunkSize
  WorkQueueSize = 2
  OutQueueSize = 1
INVARIANTS PhaseComplete ChunksInOrder
PROPERTIES Termination
CHECK_DEADLOCK FALSE
