CONSTANTS
  a = a
  q1 = q1
  q2 = q2
  j1 = j1
  j2 = j2
  k1 = k1
  k2 = k2
  NoRuntime = NoRuntime
  NoReq = NoReq
  NoJob = NoJob
  NoKey = NoKey
  Runtime = {a}
  Req = {q1, q2}
  Job = {j1, j2}
  Key = {k1, k2}
  Revocable = {}
SPECIFICATION Spec
SYMMETRY FullSymmetry
INVARIANTS
  MapExact
  WaitersHaveJob
  OneExtraction
CHECK_DEADLOCK FALSE
