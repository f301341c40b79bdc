\* i32 holds -50..49 and usize 0..150: three digits may overflow either.
CONSTANTS
  Inputs <- MCInputs
  HalfI32 = 50
  UsizeMax = 150
  NULL = NULL
SPECIFICATION Spec
CHECK_DEADLOCK FALSE
INVARIANTS
  TypeOK
  PathFaithful
  DimensionsFromProfiles
