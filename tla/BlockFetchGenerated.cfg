SPECIFICATION Spec
CONSTANTS
    a = a
    b = b
    c = c
    x = x
    Nil = Nil
    Origin = Origin
    Blocks <- MCBlocks
    Fixture <- MCFixture
    BfScripts <- Generated
    PointLists <- MCPointLists
    BatchSizes = {1}
    MayDrop = FALSE
CHECK_DEADLOCK FALSE
INVARIANT GeneratedScriptServes
