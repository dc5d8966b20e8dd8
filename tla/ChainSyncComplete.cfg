SPECIFICATION FairSpec
CONSTANTS
    o = o
    a = a
    b = b
    c = c
    x = x
    Nil = Nil
    Opaque = Opaque
    Points <- MCPoints
    Origin = o
    Anchor = o
    Chain <- MCChain
    Scripts <- HonestScripts
    PointLists <- MCPointLists
    Count = 2
    HasTimeout = FALSE
    MayDrop = FALSE
CHECK_DEADLOCK FALSE
PROPERTY EnoughHeadersComplete
