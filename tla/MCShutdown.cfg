\* Three connections; clients leave, handlers and the pool may hang.
SPECIFICATION FairSpec
CONSTANTS
    None = None
    c1 = c1
    c2 = c2
    c3 = c3
    Conns = {c1, c2, c3}
INVARIANTS
    TypeOK
    PoolOutlivesConnections
    WaitingIsNotCut
    OneHonestRun
PROPERTIES
    ShutdownEnds
