SPECIFICATION FairSpec
CONSTANTS
  Execs = {e1, e2}
  sync = sync
  build = build
  None = None
  Keys = {build}
  LockKeys <- MCLockKeys
  Needs <- MCNeeds
  TTL = 2
  MaxAttempts = 2
  MaxCrashes = 0
  LeaseKept = FALSE
  OperatorUnlock = FALSE
PROPERTY RenewsOnlyOwnLease
