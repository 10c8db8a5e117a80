SPECIFICATION FairSpec
CONSTANTS
    Workers = {w1, w2}
    Main = main
    Nobody = nobody
    Conns = {k1, k2, k8}
    StopConns = {k8}
    NoConn = NoConn
    CriticalLoad2 = 1
    MaySignal = TRUE
    MaySetupFail = FALSE
PROPERTIES
    TerminationEndsServer
