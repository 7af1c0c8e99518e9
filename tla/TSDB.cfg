\* Two apps and three entries over three days.
CONSTANTS
    Apps = {a1, a2}
    Levels = {"ERROR", "DEBUG"}
    Age = 1
    Window = 1
    None = None
    MaxTime = 3
    MaxEntries = 3
SPECIFICATION Spec
INVARIANTS
    SortedByTime
    LastSeenCovers
    WrittenSurvives
    StopSavesAll
PROPERTY
    OnlyOldLeave
