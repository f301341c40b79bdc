\* Two fair threads load the plugin at once, any two initialisations may panic.
CONSTANTS
  Threads = {t1, t2}
  Hosts = {h1, h2}
  Versions = {999999, 1000000, 2000000}
  StructSizes = {8, 16}
  MaxPanics = 2
  NULL = NULL
SPECIFICATION FairSpec
INVARIANTS
  TypeOK
  HandedWhenReady
  OneTable
  CapabilityComplete
  NeverInternal
PROPERTIES
  AdoptsOneHost
  GetApiReturns
