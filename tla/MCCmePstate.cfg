\* Everything the PGPE does with a quad, two droops and the loss of the PGPE.
SPECIFICATION FairSpec
CONSTANTS
    Pstates = {1, 2}
    Pmins = {1}
    Pmaxs = {1, 2}
    Operations = {"start", "freq", "high", "clip", "stop", "safe", "handoff"}
    WhileBooting = {"freq"}
    MaxDroops = 2
    DroopsWhile = {"running"}
    HeartbeatLoss = {"active"}
    LateRetry = FALSE
    WritesApart = FALSE
    SignalsOverlap = FALSE
PROPERTIES DoorbellsAnswered SafeWithoutPgpe
INVARIANTS TypeOK LockedDuringAnalog FollowsPgpe NoPanic NothingLeftOver
