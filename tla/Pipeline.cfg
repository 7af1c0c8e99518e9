\* One source of each kind, a buffer of one slot that they fill at once, and two
\* workers.
CONSTANTS
    Watchers = {w}
    Clients = {t}
    Batches = {b}
    Posters = {p}
    Slots = 1
    PoolSize = 2
    MaxLines = 3
SPECIFICATION FairSpec
INVARIANTS
    EachEntryOnce
    StoredAlmostInOrder
    CleanExit
PROPERTIES
    PushedIsMatched
    ShutdownEnds
