\* A signal repeated before the sibling has cleared the first.
SPECIFICATION FairSpec
CONSTANTS
    Pstates = {1, 2}
    Pmins = {1}
    Pmaxs = {1, 2}
    Operations = {"clip"}
    WhileBooting = {"freq"}
    MaxDroops = 0
    DroopsWhile = {}
    HeartbeatLoss = {}
    LateRetry = FALSE
    WritesApart = FALSE
    SignalsOverlap = TRUE
PROPERTIES DoorbellsAnswered
CHECK_DEADLOCK FALSE
