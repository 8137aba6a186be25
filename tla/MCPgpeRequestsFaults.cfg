\* Severe faults and the flags of the OCC; after its own fault a sender stops.
SPECIFICATION FairSpec
CONSTANTS
    NULL = NULL
    q1 = q1
    c1 = c1
    Quads = {q1}
    Cores = {c1}
    Requests = {"START_STOP", "WOF_CTRL"}
    Actions = {"start", "on"}
    Flags = {"PGPE_SAFE_MODE", "PGPE_PSTATE_PROTOCOL_STOP"}
    Faults = {"OCC", "SGPE", "CME"}
    Scenarios <- Together
    WofPhaseTwo = FALSE
    MaxDistance = 0
    Patient = TRUE
INVARIANTS WofOnlyWhileStarted
PROPERTIES ReachesSafeMode
CHECK_DEADLOCK FALSE
