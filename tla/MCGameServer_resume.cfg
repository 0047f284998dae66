SPECIFICATION Spec
CONSTANTS
  m1 = m1
  MatchIds = {m1}
  Handlers = {h1}
  NoMatch = NoMatch
  MaxObjects = 3
  MaxMoves <- MCMaxMoves
  MaxCrashes = 2
PROPERTIES EveryResumeIsLatest
CHECK_DEADLOCK FALSE
