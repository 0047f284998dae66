SPECIFICATION FairSpecFleet
CONSTANTS
  a1 = a1
  a2 = a2
  m1 = m1
  Tasks = {t1, t2, t3}
  NoTask = NoTask
  AtFirst = {t1}
  Matches = {m1, m2}
  Clients = {a1, a2}
  Plays <- MCPlays
  Capacity = 1
  MaxTries = 2
  MaxTroubles = 2
INVARIANT TypeOKFleet
PROPERTIES ServerIsKept ServedAgain
CHECK_DEADLOCK FALSE
