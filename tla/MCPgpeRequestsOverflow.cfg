\* Pstates start again before the actuate thread has taken the first post.
SPECIFICATION Spec
CONSTANTS
    NULL = NULL
    q1 = q1
    c1 = c1
    Quads = {q1}
    Cores = {c1}
    Requests = {"START_STOP"}
    Actions = {"start"}
    Flags = {"PGPE_PSTATE_PROTOCOL_STOP"}
    Faults = {}
    Scenarios <- Together
    WofPhaseTwo = FALSE
    MaxDistance = 1
    Patient = FALSE
INVARIANTS NoPanic
