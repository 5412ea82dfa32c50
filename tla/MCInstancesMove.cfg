SPECIFICATION Spec
CONSTANTS
    Accounts = {x1}
    Runners = {r1, r2}
    Admins = {adm1}
    Job = job
    Kinds = {"move", "enable", "disable", "stop", "delete"}
    Faults = {"exit", "hang", "runner", "spawn", "manager", "gateway", "refresh"}
    MaxOps = 3
    MaxFaults = 1
    MaxToken = 2
    SyncEvery = 2

INVARIANTS NotOnTwoRunners
CHECK_DEADLOCK FALSE
