CONSTANTS
  MaxEntries = 2
  MaxPageBytes = 2
  MaxTotalBytes = 3
  MaxArchiveBytes = 400
  MaxImagePixels = 4
  MaxResultBytes = 10
  Archives <- SmallArchives
SPECIFICATION Spec
INVARIANTS
  TypeOK
  VerdictRight
  PagesRight
  DirectoryBounded
  OutputBounded
  FailedLeavesNothing
  OutcomeRight
PROPERTIES
  ForeignKept
CHECK_DEADLOCK FALSE
