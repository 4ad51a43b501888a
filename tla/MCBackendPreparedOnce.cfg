CONSTANTS
  a = a
  q1 = q1
  q2 = q2
  j1 = j1
  k1 = k1
  NoRuntime = NoRuntime
  NoReq = NoReq
  NoJob = NoJob
  NoKey = NoKey
  Runtime = {a}
  Req = {q1, q2}
  Job = {j1}
  Key = {k1}
  Revocable = {}
SPECIFICATION Spec
PROPERTY
  PreparedOnce
CHECK_DEADLOCK FALSE
