SPECIFICATION SpecAny
CONSTANTS
    MaxLeaves = 11
    StackDepth = 12
    MaxCalls = 3
    Base = 8
    TxCounts <- CountsAtBoundary
    MaxInOut = 2
    ScriptLens <- LensAtBoundary
    Cuts <- CutsInFields
    Scripts <- ShortScripts
INVARIANT NumbersAsStated
CHECK_DEADLOCK FALSE
