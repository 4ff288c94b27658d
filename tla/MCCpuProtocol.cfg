CONSTANTS
  K = 4
  Keystream <- MCKeystream
  XorWord <- MCXor
  Inputs <- MCInputs
SPECIFICATION Spec
INVARIANTS  FailsOnlyLate InStepWhenDone
