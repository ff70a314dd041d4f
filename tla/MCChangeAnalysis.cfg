SPECIFICATION Spec
CONSTANTS
    West = West
    East = East
    Border = 2
    Cases <- MCCases
    Threads = {1, 2}
INVARIANTS Analyzed OneWriter ParentsCurrent TilesUpdated Exported
