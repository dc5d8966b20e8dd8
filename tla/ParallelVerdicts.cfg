SPECIFICATION Spec
CONSTANTS
    N = 2
    Steps = 1
    MaxEvents = 0
    Workers = {}
    MaxPings = 0
    MayFail = {"step"}
CHECK_DEADLOCK FALSE
INVARIANT EveryBranchHasVerdict
