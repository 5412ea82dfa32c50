SPECIFICATION Spec
CONSTANTS
    Accounts = {x1}
    Runners = {r1}
    Admins = {adm1}
    Job = job
    Kinds = {}
    Faults = {"refresh", "exit"}
    MaxOps = 0
    MaxFaults = 2
    MaxToken = 2
    SyncEvery = 2

PROPERTIES RefreshKept
CHECK_DEADLOCK FALSE
