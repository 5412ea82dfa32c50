SPECIFICATION FairSpec
CONSTANTS
    r1 = r1  k1 = k1  p1 = p1  p2 = p2
    None = None
    Requests = {r1, r2}
    Accounts = {a1, a2, a3}
    Replicas = {p1}
    Keys = {k1}
    Counters <- MCCounters
    Limited = {k1}
    Limit <- AllOne
    Metered = {}
    KeyOf <- OneKey
    RepOf <- OneReplica
    Methods = {"POST"}
    Kinds = {"sess"}
    Env = {}
    Recycling = FALSE
    TTL = 1
    MaxTries = 2

  
PROPERTIES RequestsSettle
CHECK_DEADLOCK FALSE
