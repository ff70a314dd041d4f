SPECIFICATION FairSpec
CONSTANTS
  w1 = w1
  w2 = w2
  w3 = w3
  Workers <- MCWorkers
  MainWorker = w1
  Files <- MCFiles
  WorkQueueSize = 1
  OutQueueSize = 1
  BatchSize <- MCBatchSize
INVARIANTS MembersIndexed SuperRelationsGathered EverythingWritten
PROPERTIES Termination SortsInPhases
