\* WOF is enabled while a quad that left STOP has yet to register.
SPECIFICATION Spec
CONSTANTS
    NULL = NULL
    q1 = q1
    q2 = q2
    c1 = c1
    Quads = {q1, q2}
    Cores = {c1}
    Requests = {"START_STOP", "WOF_CTRL", "QUADS"}
    Actions = {"start", "on"}
    Flags = {}
    Faults = {}
    Scenarios <- Together
    WofPhaseTwo = FALSE
    MaxDistance = 1
    Patient = TRUE
INVARIANTS SgpeListsAgree
