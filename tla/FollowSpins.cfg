SPECIFICATION FairSpec
CONSTANTS
    Options <- Reporting
    MaxLines = 2
    MaxFiles = 1
PROPERTY FollowEnds
