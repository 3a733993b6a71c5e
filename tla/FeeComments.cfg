SPECIFICATION SpecAll
CONSTANTS
    MaxLeaves = 0
    StackDepth = 1
    MaxCalls = 0
    Base = 8
    TxCounts = {1}
    MaxInOut = 0
    ScriptLens = {0}
    Cuts = {0}
    Scripts <- ShortScripts
    SeparatorData <- NoData
    Audited <- CommentedPrograms
    Coins <- TwoOfEachKind
    Values = {1, 2}
    Keys = {"k1", "k2"}
    MaxVins = 2
    MaxVouts = 1
CHECK_DEADLOCK FALSE
INVARIANT StatedFeePaid
