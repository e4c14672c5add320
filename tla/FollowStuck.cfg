SPECIFICATION FairSpec
CONSTANTS
    Options <- Linux
    MaxLines = 2
    MaxFiles = 2
PROPERTY ShowsNew
