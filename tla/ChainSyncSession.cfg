SPECIFICATION FairSpec
CONSTANTS
    o = o
    a = a
    b = b
    c = c
    x = x
    Nil = Nil
    Opaque = Opaque
    Points <- MCPoints
    Origin = o
    Anchor = o
    Chain <- MCChain
    Scripts <- MCScripts
    PointLists <- MCPointLists
    Count = 4
    HasTimeout = TRUE
    MayDrop = TRUE
CHECK_DEADLOCK FALSE
INVARIANT TypeOK
INVARIANT OneMessageInFlight
INVARIANT CollectedIsSegment
INVARIANT HonestScriptSuffices
INVARIANT TrackerMatchesTrace
PROPERTY RequestLoopTerminates
PROPERTY ServerTerminates
PROPERTY ImplementsDelivery
