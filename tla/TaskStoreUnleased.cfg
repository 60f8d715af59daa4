SPECIFICATION Spec
CONSTANTS
  Execs = {e1, e2}
  sync = sync
  build = build
  None = None
  Keys = {build}
  LockKeys <- MCLockKeys
  Needs <- MCNeeds
  TTL = 2
  MaxAttempts = 2
  MaxCrashes = 1
  LeaseKept = FALSE
  OperatorUnlock = TRUE
INVARIANTS AttemptLedger
PROPERTY AttemptsAppendOnly
