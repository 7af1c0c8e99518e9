\* Two users, a project that exists and one that may be created, two more keys, two
\* handlers and one worker, one entry, a ring for one, and one restart.
CONSTANTS
    i1 = i1
    i2 = i2
    u1 = u1
    k1 = k1
    k2 = k2
    k3 = k3
    h1 = h1
    h2 = h2
    Users = {u1, u2}
    Ids = {i1, i2}
    Keys = {k1, k2, k3}
    None = None
    Saved <- MCSaved
    Handlers = {h1, h2}
    Workers = {w1}
    Default = i1
    RingSize = 1
    MaxEntries = 1
    MaxStarts = 2
SYMMETRY Symmetry
SPECIFICATION Spec
INVARIANTS
    IndexesAgree
    OldKeysStop
    AnsweredIsOnDisk
    AcceptedIsKept
    OwnDataOnly
    StopSavesAccepted
