SPECIFICATION TPDSpec
CONSTANTS
  r1 = r1
  r2 = r2
  Races = {r1, r2}
  DateOf <- MCDateOf
  Course = {r1, r2}
  Length <- MCLength
  Script <- MCScript
  Withdrawn = {r2}
  QueueSize = 1
  PrefetchDays = 1
  RetainDays = 0
  FirstDay = 1
  LastDay = 2
INVARIANTS
  NewestOnly
  StatusTrue
PROPERTIES
  StatusForward
  Resolved
CHECK_DEADLOCK FALSE
