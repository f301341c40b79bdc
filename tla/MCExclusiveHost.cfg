\* A host that keeps to the ABI: three threads, two structs, three addresses.
CONSTANTS
  Threads = {t1, t2, t3}
  Slots = {s1, s2}
  Addrs = {a1, a2, a3}
  Images = {i1, i2}
  ReadFailures = {"IoError"}
  MayPanic = TRUE
  DoubleFrees = FALSE
  Overwrites = FALSE
  NULL = NULL
SPECIFICATION HostSpec
SYMMETRY Symmetry
INVARIANTS
  HostTypeOK
  HeldIntact
  HeldDistinct
  HeapBalances
PROPERTIES
  Refinement
