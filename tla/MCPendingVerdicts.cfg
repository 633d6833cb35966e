SPECIFICATION Spec
CONSTANTS
  Ids = {e1, e2}
  MaxVerdicts = 2
  EarlyExpiry = TRUE
INVARIANTS
  TypeOK
  NoLeak
  RaceConfined
  DecidedOnce
  AllowIsAuthentic
PROPERTIES
  EveryRecordFreed
  EveryEntryLeaves
