CONSTANTS
    Base = 4
    FixUint = 1
    FixInt <- MCNegativeOne
    FixStr = 1
    FixCount = 1
    MinBuffer = 9
    PageSize = 24
    PageHeader = 3
    BuildSize = 9
    Alignment = 3
    SmallFraction = 8
    SkipFraction = 4
    Sinks = {"fixed", "stream", "file", "growable"}
    Capacities = {5, 9}
    Lucks <- MCLucks
    Partials = {2}
    Scalars <- MCScalars
    Texts <- MCTexts
    NotUtf8 <- MCNotUtf8
    AsFloat <- MCAsFloat
    IntTypes <- MCIntTypes
    Counts = {1, 2}
    Piece = 4
    MaxTokens = 3
    MaxRead = 2
    MaxRarely = 2
    MaxGrown = 18
    Sources = {"data", "fill", "file", "pipe"}
    BufferSizes = {9}
    Chunks = {4}
INIT Init
NEXT Next
INVARIANTS WrittenWhole OnlyTheMessage FitsNeverRefused MemoryReturned Delivered NoFalseError CutNoticed
CHECK_DEADLOCK FALSE
