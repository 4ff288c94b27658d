SPECIFICATION Spec
CONSTANTS
    Iris <- MCIris
    LeftMatch <- MCLeftMatch
    RightMatch <- MCRightMatch
    Dummy = Dummy
    Empty = Empty
    NoIndex = NoIndex
    NoJob = NoJob
    SupermatchThreshold = 1
    MatchesLen = 1
    DeviceCount = 2
    MaxDbSize = 4
    MaxBatchSize = 3
    W = 4
    DeletionRequests <- MCDeletions
    Stores <- MCStores
INVARIANTS NoDuplicates SlotsAllocated
PROPERTY ImplementsMemoryDb
CHECK_DEADLOCK FALSE
