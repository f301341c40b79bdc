\* Two fair threads, one struct, two addresses and two images; an arbitrary host.
CONSTANTS
  Threads = {t1, t2}
  Slots = {s1}
  Addrs = {a1, a2}
  Images = {i1, i2}
  ReadFailures = {"IoError"}
  MayPanic = TRUE
  NULL = NULL
SPECIFICATION FairSpec
INVARIANTS
  TypeOK
  OwnedAccess
  RegisteredIsUsable
  UndoneOnlyWhenPoisoned
  AtMostOneOrphan
PROPERTIES
  RegisteredPixelsStable
  PoisonFreezesRegistry
  CallsReturn
