SPECIFICATION Spec
CONSTANTS
    r1 = r1  k1 = k1  p1 = p1  p2 = p2
    None = None
    Requests = {r1, r2}
    Accounts = {a1}
    Replicas = {p1, p2}
    Keys = {k1}
    Counters <- MCCounters
    Limited = {k1}
    Limit <- AllOne
    Metered = {}
    KeyOf <- OneKey
    RepOf <- TwoReplicas
    Methods = {"POST"}
    Kinds = {"resp"}
    Env = {"cancel", "crash", "runner", "slow", "redis", "refresh"}
    Recycling = FALSE
    TTL = 1
    MaxTries = 3
INVARIANTS  RecordedOnce
