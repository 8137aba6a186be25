\* The OCC suspends the PM complex at any moment; or, with WOF, a quad that
\* leaves STOP waits for a VFRT made for it.
SPECIFICATION FairSpec
CONSTANTS
    NULL = NULL
    q1 = q1
    c1 = c1
    Quads = {q1}
    Cores = {c1}
    Requests = {"START_STOP", "QUADS", "WOF_CTRL", "VFRT"}
    Actions = {"start", "on"}
    Flags = {"PM_COMPLEX_SUSPEND"}
    Faults = {}
    Scenarios <- WofOrSuspend
    WofPhaseTwo = FALSE
    MaxDistance = 0
    Patient = TRUE
PROPERTIES EveryRequestAnswered SuspendCompletes
CHECK_DEADLOCK FALSE
