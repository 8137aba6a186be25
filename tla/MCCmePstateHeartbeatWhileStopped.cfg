\* The PGPE dies while Pstates are stopped.
SPECIFICATION FairSpec
CONSTANTS
    Pstates = {1, 2}
    Pmins = {1}
    Pmaxs = {1, 2}
    Operations = {"start","stop"}
    WhileBooting = {"freq"}
    MaxDroops = 0
    DroopsWhile = {}
    HeartbeatLoss = {"stopped"}
    LateRetry = FALSE
    WritesApart = FALSE
    SignalsOverlap = FALSE
PROPERTIES SafeWithoutPgpe
CHECK_DEADLOCK FALSE
