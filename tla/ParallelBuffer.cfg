SPECIFICATION Spec
CONSTANTS
    N = 2
    Steps = 1
    MaxEvents = 1
    Workers = {}
    MaxPings = 0
    MayFail = {}
CHECK_DEADLOCK FALSE
INVARIANT StepSeesOnlyItsEvents
