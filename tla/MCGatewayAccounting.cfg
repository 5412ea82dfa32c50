SPECIFICATION Spec
CONSTANTS
    r1 = r1  k1 = k1  p1 = p1  p2 = p2
    None = None
    Requests = {r1, r2, r3}
    Accounts = {a1}
    Replicas = {p1}
    Keys = {k1}
    Counters <- MCCounters
    Limited = {k1}
    Limit <- KeyTwo
    Metered = {a1}
    KeyOf <- OneKey
    RepOf <- OneReplica
    Methods = {"POST", "GET"}
    Kinds = {}
    Env = {"status"}
    Recycling = TRUE
    TTL = 1
    MaxTries = 3
SYMMETRY Symmetry
INVARIANTS TypeOK NoPhantomSlots KeyCapUpToLostSlots
    SlotsReturned
PROPERTIES DriftsOnlyWhenDeleted RefusedOnlyWhenFull
