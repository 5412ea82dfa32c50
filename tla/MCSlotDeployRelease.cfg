SPECIFICATION Spec
CONSTANTS
    None = None
    Images = {v1, v2}
    LeaseTTL = 2
    LeaderEnv = {"redis"}
    MaxConns = 1
    MaxFaults = 2
    Faults = {"stop", "sick", "haproxy"}

INVARIANTS JournalTrue AgreedWhenIdle 
PROPERTIES NoStreamKilled NeverUnvetted RollbackPoint ImplementsSwitch
SYMMETRY Symmetry
CHECK_DEADLOCK FALSE
