SPECIFICATION FairSpec
CONSTANTS
    Options <- AllOptions
    Capacity = 2
    Buffer = 1
    MaxData = 4
    MaxPeriods = 2
    MaxMoves = 2
INVARIANT Reopened
PROPERTIES KeepsLog FaultlessDrained
