\* A droop when the quad enters safe mode.
SPECIFICATION FairSpec
CONSTANTS
    Pstates = {1, 2}
    Pmins = {1}
    Pmaxs = {1, 2}
    Operations = {"safe"}
    WhileBooting = {"freq"}
    MaxDroops = 1
    DroopsWhile = {"entering_safe"}
    HeartbeatLoss = {}
    LateRetry = FALSE
    WritesApart = FALSE
    SignalsOverlap = FALSE
PROPERTIES DoorbellsAnswered
CHECK_DEADLOCK FALSE
