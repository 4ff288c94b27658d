SPECIFICATION Spec
CONSTANTS
    Party = {p1, p2, p3}
    r0 = r0
    r1 = r1
    r2 = r2
    r3 = r3
    r4 = r4
    r5 = r5
    r6 = r6
    Request <- MCRequest
    Seed <- MCSeed
    Dummy = Dummy
    Messages <- MixedMessages
    MaxBatchSize = 2
    ChannelSize = 1
    MaxCrashes = 1
CHECK_DEADLOCK FALSE
SYMMETRY PartySymmetry
INVARIANTS TypeOK SerialIdsContiguous RollbackSafe MemoriesAligned
PROPERTY CommonRowsKept
