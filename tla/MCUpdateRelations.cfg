SPECIFICATION FairSpec
CONSTANTS
  NRels = 3
  Way = Way
  Gone = Gone
  Stuck = Stuck
  Tables <- MCTables
INVARIANTS ChildrenFirst OnlyBlockedLeft
PROPERTIES NeverTooLate Termination
CHECK_DEADLOCK FALSE
