\* The SGPE faults before it answers CTRL_STOP_UPDT.
SPECIFICATION Spec
CONSTANTS
    NULL = NULL
    q1 = q1
    c1 = c1
    Quads = {q1}
    Cores = {c1}
    Requests = {"START_STOP", "WOF_CTRL"}
    Actions = {"start", "on"}
    Flags = {}
    Faults = {"SGPE"}
    Scenarios <- Together
    WofPhaseTwo = TRUE
    MaxDistance = 1
    Patient = TRUE
INVARIANTS NoPanic
