\* A watcher and a TCP handler that fill a buffer of one slot.
CONSTANTS
    Watchers = {w}
    Clients = {t}
    Batches = {}
    Posters = {}
    Slots = 1
    PoolSize = 1
    MaxLines = 2
SPECIFICATION FairSpec
INVARIANT
    RetryKeepsEntry
