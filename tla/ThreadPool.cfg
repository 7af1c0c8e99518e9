\* Three workers, two clients that call twice each, and two threads that shut
\* the pool down at any time.
CONSTANTS
    Workers = {w1, w2, w3}
    Clients = {c1, c2}
    Closers = {x1, x2}
    MaxCalls = 2
SPECIFICATION FairSpec
INVARIANTS
    ShutdownDrains
    NoWorkerIdles
PROPERTIES
    AcceptedFinishes
    ShutdownReturns
    ImplementsPool
