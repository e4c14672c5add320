SPECIFICATION FairSpec
CONSTANTS
    Options <- AllOptions
    MaxLines = 3
    MaxFiles = 3
INVARIANT PrintsInOrder
PROPERTIES LeavesNothing ShowsReported LogsEnds
