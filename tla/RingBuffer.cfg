\* Three producers and a buffer of two slots: both slots are reused for
\* two more laps, and producers meet a full buffer.
CONSTANTS
    Producers = {p1, p2, p3}
    Capacity = 2
    MaxCalls = 2
    Empty = Empty
SPECIFICATION FairSpec
INVARIANTS
    NoStorageRace
    PoppedInClaimOrder
PROPERTIES
    RejectedOnlyWhenFull
    ClaimedIsPopped
    ImplementsQueue
