SPECIFICATION Spec
CONSTANTS
  r1 = r1
  g1 = g1
  g2 = g2
  Races = {r1}
  Runs = {g1, g2}
  InboxSize = 1
  Times = {0, 1}
  BetfairDelay = 0
  BetmaticDelay = 1
  Provider <- MCTripleS
INVARIANTS
  SoleOwner
