CONSTANTS
  MaxId = 3
  MaxTime = 4
  MaxWrites = 2
  Overlap = 2
  ExportTime = 1
  TxTime = 1
  ChunkSize = 4
  MaxRangeSize = 2
  Partitions = 2
  Dummy = Dummy
  None = None
SPECIFICATION Spec
INVARIANTS LoadedFresh LoadComplete
CHECK_DEADLOCK FALSE
