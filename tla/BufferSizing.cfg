\* i32 has 5 bits, usize 8 bits, and malloc serves less than half of usize.
CONSTANTS
  HalfI32 = 16
  UsizeValues = 256
  MallocMax = 127
  MaxDimension = 72
SPECIFICATION Spec
CHECK_DEADLOCK FALSE
INVARIANTS
  StructMatchesAllocation
  CopyInBounds
  DimensionsExact
