\* A host that also frees copies of freed structs: two threads, two structs, three addresses.
CONSTANTS
  Threads = {t1, t2}
  Slots = {s1, s2}
  Addrs = {a1, a2, a3}
  Images = {i1, i2}
  ReadFailures = {"IoError"}
  MayPanic = TRUE
  DoubleFrees = TRUE
  Overwrites = FALSE
  NULL = NULL
SPECIFICATION HostSpec
SYMMETRY Symmetry
INVARIANTS
  HeldIntact
