SPECIFICATION Spec
CONSTANTS
  m1 = m1
  MatchIds = {m1, m2}
  Handlers = {h1, h2}
  NoMatch = NoMatch
  MaxObjects = 2
  MaxMoves <- MCMaxMoves
  MaxCrashes = 1
INVARIANTS TypeOK OneObjectPerMatch CountIsMatches 
PROPERTIES FirstResumeIsLatest
SYMMETRY Symmetry
CHECK_DEADLOCK FALSE
