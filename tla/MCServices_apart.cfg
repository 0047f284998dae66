SPECIFICATION SpecServices
CONSTANTS
  r1 = r1
  r2 = r2
  r3 = r3
  r4 = r4
  Rows <- MCRows
  Place <- MCPlace
  Limits = {1, 2}
  NoRow = NoRow
  Lists <- AllLists
  Users = {u1, u2}
  Senders = {u1}
  Accepts = {c1, c2}
  Devices = {d1}
  NoOne = NoOne
  MaxFaults = 1
  Conns = {n1, n2}
  NoConn = NoConn
  MaxErrors = 1
  Confirmations = {k1, k2}
  Uploads = {p1, p2}
  Sizes = {small, large}
  Solves = {s1, s2}
  NoImage = NoImage
  MaxFailures = 1
INVARIANTS TypeOKServices ListedOnce RequestIsAnswered WaiterIsTold PaidIsPro AvatarIsThere SolvesCount
PROPERTIES AddGetsThrough
CHECK_DEADLOCK FALSE
