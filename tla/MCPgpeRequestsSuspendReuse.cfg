\* The answer to CTRL_STOP_UPDT is taken for that to SUSPEND_STOP.
SPECIFICATION Spec
CONSTANTS
    NULL = NULL
    q1 = q1
    c1 = c1
    Quads = {q1}
    Cores = {c1}
    Requests = {"START_STOP", "CORES", "WOF_CTRL"}
    Actions = {"start", "on"}
    Flags = {"PM_COMPLEX_SUSPEND"}
    Faults = {}
    Scenarios <- Together
    WofPhaseTwo = TRUE
    MaxDistance = 1
    Patient = TRUE
INVARIANTS SuspendedMeansSgpe
