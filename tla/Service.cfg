SPECIFICATION Spec
CONSTANTS
  q1 = q1
  q2 = q2
  k1 = k1
  k2 = k2
  None = None
  Requests = {q1, q2}
  Kids = {k1, k2}
INVARIANTS
  ActsAllowed
  LeftDown
PROPERTIES
  RotationHeard
CHECK_DEADLOCK FALSE
