SPECIFICATION FairDownload
CONSTANTS
  LastRevision = 6
  MaxTime = 5
  MaxLost = 1
  Servers <- MCServers
  QueueSize = 2
  MaxRevision = 6
INVARIANTS NothingSkipped IngestedInOrder AllIngested
PROPERTIES BoundsNarrow SearchEnds Termination
\* Both threads have come to an end
CHECK_DEADLOCK FALSE
