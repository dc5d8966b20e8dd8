SPECIFICATION Spec
CONSTANTS
    N = 2
    Steps = 1
    MaxEvents = 1
    Workers = {99}
    MaxPings = 1
    MayFail = {"step"}
CHECK_DEADLOCK FALSE
INVARIANT TypeOK
INVARIANT VerdictIsFinal
INVARIANT OutcomeMatchesVerdicts
INVARIANT StampsFollowRecords
