SPECIFICATION FairSpec
CONSTANTS
    None = None
    Rows = {r1}
    Accounts = {x1, x2}
    Ranges = {"7d", "30d"}
    Default = "30d"
    MaxCalls = 2
    MaxEvents = 1
    MaxClicks = 3
    Settlements <- MCSettlements
    HealthInputs <- MCHealth
    Cycles <- MCCycles
    Allowances = {20, 37, 100, 640, 2000}
    Lengths = {0, 1, 2, 3, 6, 7}
    PageSizes = {1, 2, 3}
    Whole = 60
    Owners = {"x1"}
    Models = {"m", "n"}
    Keys = {"k", "l"}
    Paths = {"responses"}
    Histories <- MCHistories
    Probes <- MCProbes
    Pools <- MCPools
    Spans = {1, 24, 168}
    Span = 24
    MaxLooks = 4
INVARIANTS OneSave ShowsOwnChanges ShownIsAsked FiguresAddUp RecordsShown EstimateSound
PROPERTIES WaitsEnd
CHECK_DEADLOCK FALSE
