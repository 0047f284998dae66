SPECIFICATION MCSpec
CONSTANTS
    Kinds = {"abort"}
    Conns <- MCConns
    Owner <- MCOwner
    MaxPly = 0
INVARIANTS Reachable
PROPERTIES ForfeitIsReal EverySettles LoopExits ImplementsLifecycle
CHECK_DEADLOCK FALSE
