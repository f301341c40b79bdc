\* Two threads with up to three nested calls; one of the three hosts has no log function.
CONSTANTS
  Threads = {t1, t2}
  Hosts = {h1, h2, h3}
  LoggingHosts = {h1, h2}
  MaxDepth = 3
  NULL = NULL
SPECIFICATION FairSpec
INVARIANTS
  TypeOK
  HoldersRun
  MessagesToFirstHost
  TornHostNotCalled
PROPERTIES
  LoadsOneHost
  NestedCallsReturn
