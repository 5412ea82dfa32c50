SPECIFICATION FairSpec
CONSTANTS
    None = None
    Clients = {c1}
    Viewers = {v}
    Locals = {l}
    Actions = {"deploy", "resume", "runner"}
    MaxRequests = 2
    MaxViews = 1
    MaxCrashes = 1
CHECK_DEADLOCK FALSE
INVARIANTS OneOperation
PROPERTIES UnfinishedKept FollowEnds
