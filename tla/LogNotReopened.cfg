SPECIFICATION FairSpec
CONSTANTS
    Options <- Spliced
    Capacity = 2
    Buffer = 1
    MaxData = 3
    MaxPeriods = 1
    MaxMoves = 1
PROPERTY RequestReopens
