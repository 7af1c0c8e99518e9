SPECIFICATION TailSpec
CONSTANTS
    MaxPieces = 5
    MaxCuts = 2
INVARIANTS
    PushedInOrder
    NothingElseLost
