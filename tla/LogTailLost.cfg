SPECIFICATION Spec
CONSTANTS
    Options <- NotSpliced
    Capacity = 2
    Buffer = 1
    MaxData = 3
    MaxPeriods = 0
    MaxMoves = 0
INVARIANT NothingLost
