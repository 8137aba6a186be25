\* Pstate Stop leaves the heartbeat loss unmasked on the quad manager.
SPECIFICATION Spec
CONSTANTS
    Pstates = {1, 2}
    Pmins = {1}
    Pmaxs = {1, 2}
    Operations = {"start","stop"}
    WhileBooting = {"freq"}
    MaxDroops = 0
    DroopsWhile = {}
    HeartbeatLoss = {}
    LateRetry = FALSE
    WritesApart = FALSE
    SignalsOverlap = FALSE
INVARIANTS HeartbeatMaskedByStop
CHECK_DEADLOCK FALSE
