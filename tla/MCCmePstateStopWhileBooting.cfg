\* Pstates stop while a quad boots with the registration interlock.
SPECIFICATION FairSpec
CONSTANTS
    Pstates = {1, 2}
    Pmins = {1}
    Pmaxs = {1, 2}
    Operations = {}
    WhileBooting = {"stop"}
    MaxDroops = 0
    DroopsWhile = {}
    HeartbeatLoss = {}
    LateRetry = FALSE
    WritesApart = FALSE
    SignalsOverlap = FALSE
PROPERTIES DoorbellsAnswered
CHECK_DEADLOCK FALSE
