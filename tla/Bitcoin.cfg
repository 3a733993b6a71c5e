SPECIFICATION SpecAll
CONSTANTS
    MaxLeaves = 11
    StackDepth = 12
    MaxCalls = 3
    Base = 8
    TxCounts <- CountsAtBoundary
    MaxInOut = 2
    ScriptLens <- LensAtBoundary
    Cuts <- CutsInFields
    Scripts <- ShortScripts
    SeparatorData <- NoData
    Audited <- AuditedPrograms
    Coins <- TwoOfEachKind
    Values = {1, 2}
    Keys = {"k1", "k2"}
    MaxVins = 2
    MaxVouts = 1
CHECK_DEADLOCK FALSE
INVARIANT RootIsTheTrees
PROPERTY Returns
INVARIANT ParsedAsWritten
INVARIANT ReadySpendAccepted
INVARIANT AgreesAsStated
INVARIANT SignedIsValid
INVARIANT ValidIsCovered
