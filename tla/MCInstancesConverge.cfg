SPECIFICATION FairSpec
CONSTANTS
    Accounts = {x1}
    Runners = {r1}
    Admins = {adm1}
    Job = job
    Kinds = {"start", "stop", "restart", "enable", "disable", "paste"}
    Faults = {"exit", "runner", "lost", "spawn", "manager", "gateway", "refresh"}
    MaxOps = 1
    MaxFaults = 2
    MaxToken = 3
    SyncEvery = 2
PROPERTIES Converges AuthSynced
CHECK_DEADLOCK FALSE
