SPECIFICATION FairSpec
CONSTANTS
  NRels = 5
  Regular = Regular
  Missing = Missing
  Cleared = Cleared
  MaxRelationLevel = 3
  Inputs <- MCInputs
INVARIANTS ChildrenBelow LevelsAscend OnlyCyclesBroken
PROPERTY Termination
