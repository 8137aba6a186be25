\* Safe mode answers a clip and leaves the IPC interrupt masked.
SPECIFICATION Spec
CONSTANTS
    NULL = NULL
    q1 = q1
    c1 = c1
    Quads = {q1}
    Cores = {c1}
    Requests = {"START_STOP", "CLIP"}
    Actions = {"start"}
    Flags = {"PGPE_SAFE_MODE"}
    Faults = {}
    Scenarios <- Together
    WofPhaseTwo = FALSE
    MaxDistance = 1
    Patient = TRUE
INVARIANTS ClosedForAnAnswer
