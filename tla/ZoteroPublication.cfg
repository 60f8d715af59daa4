SPECIFICATION FairSpec
CONSTANTS
  NFiles = 3
  PerSync <- MCPerSync
  Optional <- MCOptional
  Catalog = 3
  MaxSyncs = 3
  MaxFaults = 3
PROPERTY IntentResolved
INVARIANTS FilesMatchDatabase NothingLost CatalogIsHistory
CHECK_DEADLOCK FALSE
