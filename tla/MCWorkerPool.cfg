SPECIFICATION FairSpec
CONSTANTS
    Workers = {w1, w2, w3}
    Main = main
    Nobody = nobody
    Conns = {k1, k2, k8}
    StopConns = {k8}
    NoConn = NoConn
    CriticalLoad2 = 2
    MaySignal = TRUE
    MaySetupFail = TRUE
INVARIANTS
    BedDiscipline
    NoTaskSleptOver
PROPERTIES
    PoolIsOneServer
    QueuedIsServed
    CommandEndsServer
