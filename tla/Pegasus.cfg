SPECIFICATION Spec
CONSTANTS
  p1 = p1
  Procs = {p1}
  Docs <- MCDocs
  MaxGen = 2
INVARIANTS
  StatusTrue
  InReach
  SessionForStake
  ScopeServed
PROPERTIES
  NewFeedSpared
  LossReported
CHECK_DEADLOCK FALSE
