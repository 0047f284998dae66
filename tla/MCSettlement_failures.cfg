SPECIFICATION FairSpec
CONSTANTS
  Users = {u1, u2}
  MatchIds = {m1}
  Kinds = {"end", "abort", "expire"}
  NoMatch = NoMatch
  NoUser = NoUser
  MaxLoads = 3
  MaxFailures = 2
  MaxCrashes = 1
  MaxRetries = 1
INVARIANTS TypeOK EndNeverLocksOut CountedIsRecorded RecordedOnce MarkedIsCared
PROPERTIES PlayedFrees
CHECK_DEADLOCK FALSE
