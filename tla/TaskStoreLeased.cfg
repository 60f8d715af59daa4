SPECIFICATION FairSpec
CONSTANTS
  Execs = {e1, e2}
  sync = sync
  build = build
  None = None
  Keys = {sync, build}
  LockKeys <- MCLockKeys
  Needs <- MCNeeds
  TTL = 2
  MaxAttempts = 1
  MaxCrashes = 1
  LeaseKept = TRUE
  OperatorUnlock = FALSE
INVARIANTS MutualExclusion RunnerOwnsAttempt RetryCount
PROPERTY CrashRecovered
