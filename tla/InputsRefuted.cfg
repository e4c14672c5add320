SPECIFICATION InputsSpec
CONSTANTS
    Letters = {"a", "b", "c"}
    Cwd <- InCwd
    Dirs <- AllDirs
    Files <- AllFiles
    Len1 = 0
    Len2 = 0
    Len3 = 4
    Templates <- AllTemplates
    Messages <- AllMessages
    BufferSize = 3
    OtherControls = {"ESC"}
    HelpTexts <- AllTexts
    LineLengths = {0}
    Asked <- AskedAll
    Nil = Nil
    NoFile = NoFile
    INT_MAX = 2047
    LONG_MAX = 2047
    LLONG_MAX = 32767
    Given <- GivenAll
    Users <- Ids
    Groups <- Ids
    Initially <- Limited
INVARIANTS FreesItsOwn RunsAsAsked RefusesNoPermitted ChecksTheWay
PROPERTY DocumentedLimitsWork
