\* The PGPE dies while it waits for the answer of the quad.
SPECIFICATION FairSpec
CONSTANTS
    Pstates = {1, 2}
    Pmins = {1}
    Pmaxs = {1, 2}
    Operations = {"freq"}
    WhileBooting = {"freq"}
    MaxDroops = 0
    DroopsWhile = {}
    HeartbeatLoss = {"waiting"}
    LateRetry = FALSE
    WritesApart = FALSE
    SignalsOverlap = FALSE
PROPERTIES SafeWithoutPgpe
CHECK_DEADLOCK FALSE
