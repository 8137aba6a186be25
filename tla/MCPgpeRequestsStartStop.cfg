\* Pstates start and stop while two quads enter and leave STOP.
SPECIFICATION Spec
CONSTANTS
    NULL = NULL
    q1 = q1
    q2 = q2
    c1 = c1
    Quads = {q1, q2}
    Cores = {c1}
    Requests = {"START_STOP", "CLIP", "QUADS", "SET_PMCR"}
    Actions = {"start", "stop"}
    Flags = {}
    Faults = {}
    Scenarios <- Together
    WofPhaseTwo = FALSE
    MaxDistance = 1
    Patient = TRUE
INVARIANTS TypeOK StartsBetweenTransitions RequestsAccounted
