\* The boot signal is repeated when the sibling has just answered it.
SPECIFICATION Spec
CONSTANTS
    Pstates = {1, 2}
    Pmins = {1}
    Pmaxs = {1, 2}
    Operations = {}
    WhileBooting = {"freq"}
    MaxDroops = 0
    DroopsWhile = {}
    HeartbeatLoss = {}
    LateRetry = TRUE
    WritesApart = FALSE
    SignalsOverlap = FALSE
INVARIANTS LockedDuringAnalog
CHECK_DEADLOCK FALSE
