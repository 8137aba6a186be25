\* WOF in its second phase, with one quad and one core.
SPECIFICATION Spec
CONSTANTS
    NULL = NULL
    q1 = q1
    c1 = c1
    Quads = {q1}
    Cores = {c1}
    Requests = {"START_STOP", "WOF_CTRL", "CORES", "QUADS", "VFRT"}
    Actions = {"start", "on", "off"}
    Flags = {}
    Faults = {}
    Scenarios <- Together
    WofPhaseTwo = TRUE
    MaxDistance = 1
    Patient = TRUE
INVARIANTS ListsAgree NoPanic
PROPERTIES AnsweredWhenServed
