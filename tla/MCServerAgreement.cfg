SPECIFICATION FairSpec
CONSTANTS
    Party = {p1, p2}
    r0 = r0
    r1 = r1
    r2 = r2
    r3 = r3
    r4 = r4
    r5 = r5
    r6 = r6
    Request <- MCRequest
    Seed <- MCSeed
    Dummy = Dummy
    Messages <- Plain3
    MaxBatchSize = 1
    ChannelSize = 1
    MaxCrashes = 2
INVARIANTS  CommittedResultsPublished NoDoubleInsert
  
CHECK_DEADLOCK FALSE
