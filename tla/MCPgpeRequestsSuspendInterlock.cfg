\* A suspend while a quad waits for its VFRT: the PGPE, the SGPE and the OCC wait for each other.
SPECIFICATION FairSpec
CONSTANTS
    NULL = NULL
    q1 = q1
    c1 = c1
    Quads = {q1}
    Cores = {c1}
    Requests = {"START_STOP", "WOF_CTRL", "QUADS", "VFRT"}
    Actions = {"start", "on"}
    Flags = {"PM_COMPLEX_SUSPEND"}
    Faults = {}
    Scenarios <- Together
    WofPhaseTwo = FALSE
    MaxDistance = 0
    Patient = TRUE
PROPERTIES QuadsAnswered
CHECK_DEADLOCK FALSE
