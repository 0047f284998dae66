SPECIFICATION Spec
CONSTANTS
  Requests = {r1, r2}
  f1 = f1
  Fens = {f1}
  FenOf <- SameFen
  Nodes = {n1, n2}
  NoRequest = NoRequest
  NoNode = NoNode
  MaxMishaps = 0
INVARIANTS AssignedWorkIsHeld
CHECK_DEADLOCK FALSE
