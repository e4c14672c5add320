SPECIFICATION InputsSpec
CONSTANTS
    Letters = {"a", "b", "c"}
    Cwd <- InCwd
    Dirs <- AllDirs
    Files <- AllFiles
    Len1 = 2
    Len2 = 2
    Len3 = 0
    Templates <- AllTemplates
    Messages <- AllMessages
    BufferSize = 4
    OtherControls = {"ESC"}
    HelpTexts <- AllTexts
    LineLengths = {0}
    Asked <- AskedAll
    Nil = Nil
    NoFile = NoFile
    INT_MAX = 2047
    LONG_MAX = 32767
    LLONG_MAX = 32767
    Given <- GivenAll
    Users <- Ids
    Groups <- Ids
    Initially <- Limited
INVARIANT ChrootIsAsked
