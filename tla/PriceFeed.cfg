SPECIFICATION Spec
CONSTANTS
  r1 = r1
  c1 = c1
  c2 = c2
  l1 = l1
  l2 = l2
  l3 = l3
  NoRace = NoRace
  NoLoop = NoLoop
  Races = {r1}
  Callers = {c1, c2}
  Loops = {l1, l2, l3}
INVARIANTS
  NoOrphan
  RegisteredRuns
PROPERTIES
  CancelledEnds
  StopsForGood
