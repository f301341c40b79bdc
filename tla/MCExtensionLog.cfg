\* The same inputs, against the safety comment.
CONSTANTS
  Inputs <- MCInputs
  NULL = NULL
SPECIFICATION Spec
CHECK_DEADLOCK FALSE
INVARIANTS
  LoggedIsAscii
