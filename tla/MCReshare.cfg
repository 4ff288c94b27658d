CONSTANTS
  Client = {c1, c2}
  LastId = 5
  Sizes = {1, 2}
  Seeds = {s1, s2}
  max_buffer_size = 3
  MaxRestarts = 1
SPECIFICATION FairSpec
INVARIANTS StoredIsCorrect AckedIsKept
PROPERTY Completes
CHECK_DEADLOCK FALSE
