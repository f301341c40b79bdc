\* The same inputs, against the documented contract.
CONSTANTS
  Inputs <- MCInputs
  NULL = NULL
SPECIFICATION Spec
CHECK_DEADLOCK FALSE
INVARIANTS
  OthersRejected
