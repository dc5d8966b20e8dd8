SPECIFICATION FairSpec
CONSTANTS
    N = 2
    Steps = 1
    MaxEvents = 1
    Workers = {}
    MaxPings = 0
    MayFail = {"step", "write"}
CHECK_DEADLOCK FALSE
PROPERTY ParallelTerminates
