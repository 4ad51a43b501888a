CONSTANTS
  MaxEntries = 2
  MaxPageBytes = 2
  MaxTotalBytes = 3
  MaxArchiveBytes = 400
  MaxImagePixels = 4
  MaxResultBytes = 10
  Archives <- SmallArchives
SPECIFICATION Spec
INVARIANT
  PublishedCharged
CHECK_DEADLOCK FALSE
