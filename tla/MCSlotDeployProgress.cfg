SPECIFICATION FairSpec
CONSTANTS
    None = None
    Images = {v1}
    LeaseTTL = 1
    LeaderEnv = {}
    MaxConns = 1
    MaxFaults = 1
    Faults = {"stop", "sick"}

INVARIANTS StandbyIdle
PROPERTIES OperationCompletes JobsFollow
CHECK_DEADLOCK FALSE
