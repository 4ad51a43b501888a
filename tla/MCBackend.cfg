CONSTANTS
  a = a
  b = b
  q1 = q1
  q2 = q2
  j1 = j1
  j2 = j2
  k1 = k1
  NoRuntime = NoRuntime
  NoReq = NoReq
  NoJob = NoJob
  NoKey = NoKey
  Runtime = {a, b}
  Req = {q1, q2}
  Job = {j1, j2}
  Key = {k1}
  Revocable = {q1}
SPECIFICATION Spec
SYMMETRY Symmetry
INVARIANTS
  TypeOK
  OwnCacheOnly
  OneExtraction
  ClosedIsEmpty
CHECK_DEADLOCK FALSE
