\* The sibling reads its doorbell 0 before the PGPE has written it.
SPECIFICATION Spec
CONSTANTS
    Pstates = {1, 2}
    Pmins = {1}
    Pmaxs = {1, 2}
    Operations = {"stop","start"}
    WhileBooting = {"freq"}
    MaxDroops = 0
    DroopsWhile = {}
    HeartbeatLoss = {}
    LateRetry = FALSE
    WritesApart = TRUE
    SignalsOverlap = FALSE
INVARIANTS NoPanic
CHECK_DEADLOCK FALSE
