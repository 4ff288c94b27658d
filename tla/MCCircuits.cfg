CONSTANTS
  Keystream <- MCKeystream
  WordsPerBlock = 8
  K = 4
  B_BITS = 4
  XorWord <- MCXor
  Inputs <- MCInputs
  n_devices = 2
  chunk_size = 5
  WordBits = 4
  IntBits = 2
SPECIFICATION Spec
INVARIANTS  OpensToOr NeighboursInStep NothingLeftOver
