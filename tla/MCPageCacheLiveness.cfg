CONSTANTS
  k1 = k1
  k2 = k2
  j1 = j1
  j2 = j2
  r1 = r1
  NoKey = NoKey
  Key = {k1, k2}
  Job = {j1, j2}
  Reader = {r1}
  MaxBytes = 5
  MaxArchiveBytes = 1
  MaxTotalBytes = 2
  MaxPendingCleanup = 1
  CacheIdleTTL = 2
  CacheFallbackTTL = 1
SPECIFICATION FairSpec
PROPERTIES
  IdlePagesExpire
  PendingCleanedUp
  RetiredDeleted
CHECK_DEADLOCK FALSE
