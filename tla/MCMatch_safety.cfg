SPECIFICATION Spec
CONSTANTS
    Kinds = {"abort", "resign", "offerDraw", "declineDraw", "move"}
    Conns <- MCConns2
    Owner <- MCOwner2
    MaxPly = 1
INVARIANTS TypeOK SettledOnce LiveMatchIsServed LoopRecordsDecidedGame
CHECK_DEADLOCK FALSE
