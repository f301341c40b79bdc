\* Up to two changes to the file during a call.
CONSTANTS
  Files <- MCFiles
  SizeLimit = 8
  MaxChanges = 2
  NULL = NULL
SPECIFICATION Spec
INVARIANTS
  TypeOK
  StableFileExact
  RefusalExplained
  OversizedReadIsRace
  MetadataFromCall
