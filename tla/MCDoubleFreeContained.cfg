\* A host that also frees copies of freed structs and decodes into structs it
\* has not freed: two threads, two structs, three addresses, one image.
CONSTANTS
  Threads = {t1, t2}
  Slots = {s1, s2}
  Addrs = {a1, a2, a3}
  Images = {i1}
  ReadFailures = {"IoError"}
  MayPanic = TRUE
  DoubleFrees = TRUE
  Overwrites = TRUE
  NULL = NULL
SPECIFICATION HostSpec
SYMMETRY Symmetry
INVARIANTS
  HeapBalances
  DamageContained
