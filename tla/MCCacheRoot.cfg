CONSTANTS
  p1 = p1
  p2 = p2
  p3 = p3
  d1 = d1
  d2 = d2
  Proc = {p1, p2, p3}
  Dir = {d1, d2}
  NoProc = NoProc
  Former = Former
  User = User
  Default <- SmallDefault
  Least <- SmallLeast
  Most <- SmallMost
  ChildDefault <- SmallChildDefault
  MaxDictionary = 4
  Saturated = 9
  Refused = Refused
SPECIFICATION Spec
SYMMETRY Symmetry
INVARIANTS
  IInv
  StartsClean
PROPERTIES
  ServerUndisturbed
  ForeignUntouched
CHECK_DEADLOCK TRUE
