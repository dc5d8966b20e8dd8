SPECIFICATION FairSpec
CONSTANTS
    a = a
    b = b
    v = v
    w = w
    slot = slot
    NoVar = NoVar
    Names = {a, b}
    Vars = {v, w, slot}
    BuiltIns = {slot}
    Scenarios <- MCScenarios
    Genesis <- MCGenesis
    N = 2
    MaxConns = 4
    MayFail = TRUE
    MayClose = TRUE
CHECK_DEADLOCK FALSE
INVARIANT TypeOK
INVARIANT NamesResolve
INVARIANT OneOwner
INVARIANT NoneLost
INVARIANT AbortClosesAll
INVARIANT ReferencesAreFresh
PROPERTY FailureEnds
