SPECIFICATION SpecMatchmaking
CONSTANTS
  u1 = u1
  u2 = u2
  u3 = u3
  Users <- MCUsers
  Elo <- SameElo
  Requests <- OneRequest
  MatchIds = {m1, m2}
  Kinds = {"end", "abort"}
  NoMatch = NoMatch
  NoUser = NoUser
  NoTicket = NoTicket
  MaxLoads = 1
  MaxFailures = 0
  MaxCrashes = 0
  MaxRetries = 0
  MaxCalls = 2
  MaxLost = 1
INVARIANTS TypeOKMatchmaking PlayersStayMarked CallsAreDisjoint
PROPERTIES ImplementsPairing
SYMMETRY Symmetry
CHECK_DEADLOCK FALSE
