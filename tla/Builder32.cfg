CONSTANTS
    Base = 4
    FixUint = 1
    FixInt <- MCNegativeOne
    FixStr = 1
    FixCount = 1
    MinBuffer = 9
    PageSize = 22
    PageHeader = 2
    BuildSize = 6
    Alignment = 1
    SmallFraction = 8
    SkipFraction = 4
    Sinks = {"stream"}
    Capacities = {9}
    Lucks <- MCNoLuck
    Partials = {2}
    Scalars <- MCScalars
    Texts <- MCTexts
    NotUtf8 <- MCNotUtf8
    AsFloat <- MCAsFloat
    IntTypes <- MCIntTypes
    Counts = {1, 2}
    Piece = 4
    MaxTokens = 3
    MaxRead = 0
    MaxRarely = 0
    MaxGrown = 18
    Sources = {"data"}
    BufferSizes = {9}
    Chunks = {1}
INIT Init
NEXT Next
INVARIANT WrittenWhole
CHECK_DEADLOCK FALSE
