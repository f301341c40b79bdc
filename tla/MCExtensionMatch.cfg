\* Known extensions with variants of every unit.
CONSTANTS
  Inputs <- MCInputs
  NULL = NULL
SPECIFICATION Spec
CHECK_DEADLOCK FALSE
INVARIANTS
  AsciiExact
