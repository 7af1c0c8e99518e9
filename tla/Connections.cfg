SPECIFICATION FairSpec
CONSTANTS
    TcpClients = {t1, t2}
    HttpClients = {w1}
    PoolSize = 2
    MaxFd = 3
    None = None
INVARIANTS
    ServedIsListed
    OnlyLateOnesLeft
PROPERTIES
    AcceptedIsServed
    StopReturns
