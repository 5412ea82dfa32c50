SPECIFICATION FairSpec
CONSTANTS
    None = None
    Images = {v1, v2}
    Mutable = {v2}
    OtherKinds = {"deploy", "resume", "runner"}
    Bound <- Few
    MaxEvents = 2
INVARIANTS OneRequest MovesAsConfirmed
PROPERTIES ShownInOrder CatchesUp
CHECK_DEADLOCK FALSE
