CONSTANTS
  k1 = k1
  k2 = k2
  j1 = j1
  j2 = j2
  j3 = j3
  r1 = r1
  r2 = r2
  NoKey = NoKey
  Key = {k1, k2}
  Job = {j1, j2, j3}
  Reader = {r1, r2}
  MaxBytes = 6
  MaxArchiveBytes = 1
  MaxTotalBytes = 2
  MaxPendingCleanup = 2
  CacheIdleTTL = 2
  CacheFallbackTTL = 1
SPECIFICATION Spec
SYMMETRY Symmetry
INVARIANTS
  TypeOK
  IInv
  Accounting
  DiskCharged
  DiskWithinBudget
  ReaderFilesStay
  PinsExact
  ServableIsComplete
  PendingBounded
PROPERTIES
  ImplementsPinnedCache
CHECK_DEADLOCK FALSE
