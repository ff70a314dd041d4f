SPECIFICATION Spec
CONSTANTS
    ChunkSize = 4
    BriefBatch = 2
    StringsSize = 10
    SectionSize = 5
    Workers = {w1, w2}
    ExecutorSize = 2
    QueueSize = 2
    OutputSize = 1
    Queries <- MCQueries
INVARIANTS OutputWhole OsmFileWhole
PROPERTIES QueryEnds
\* A query hangs that has no current tile, or whose last tile was processed too early
CHECK_DEADLOCK FALSE
