SPECIFICATION FairSpec
CONSTANTS
    None = None
    Tabs = {t1, t2}
    MaxLogins = 2
    MaxFaults = 1
    MaxMissing = 2
    MaxReloads = 1
INVARIANTS LoggedOutStays
PROPERTIES GateOpens
CHECK_DEADLOCK FALSE
