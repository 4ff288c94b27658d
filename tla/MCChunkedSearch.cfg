SPECIFICATION Spec
CONSTANTS
    ChunkSize = 2
    Pad = 4
    W = 5
    Query <- MCQuery
    Match <- MCMatch
    MaxSize = 7
INVARIANTS RaceFree SearchIsRight
CHECK_DEADLOCK FALSE
