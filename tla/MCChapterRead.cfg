CONSTANTS
  x = x
  y = y
  u = u
  v = v
  huge = huge
  c = c
  NoValidators = NoValidators
  NoKey = NoKey
  NoReader = NoReader
  NoRevision = NoRevision
  Reader = {c}
  Follower = {c}
  Revocable = {c}
  Made <- MCMade
  Revision = {x, y, u}
  ArchiveSize <- MCArchiveSize
  Validators <- MCValidators
  PageSizes <- MCPageSizes
  ChunkBytes = 2
  MaxArchiveBytes = 2
  MaxPolls = 1
SPECIFICATION Spec
SYMMETRY Symmetry
INVARIANTS
  TypeOK
  ServedIsAuthorized
  ServedIsCurrent
  JoinedIsChapter
  ChunksInRange
CHECK_DEADLOCK FALSE
