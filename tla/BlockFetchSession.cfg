SPECIFICATION FairSpec
CONSTANTS
    a = a
    b = b
    c = c
    x = x
    Nil = Nil
    Origin = Origin
    Blocks <- MCBlocks
    Fixture <- MCFixture
    BfScripts <- Scripted
    PointLists <- MCPointLists
    BatchSizes = {0, 1, 2, 3}
    MayDrop = TRUE
CHECK_DEADLOCK FALSE
INVARIANT TypeOK
INVARIANT FetchedExactly
INVARIANT CapturedUnderOwnPoint
INVARIANT HonestIsWellTyped
PROPERTY FetchTerminates
