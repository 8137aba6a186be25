\* Two quads of one core, one entry of STOP, every wakeup, with a special
\* wakeup, a block and unblock by the OCC, or a suspension by the PGPE.
SPECIFICATION FairSpec
CONSTANTS
    Quads = {0, 1}
    CoresOf <- MCOneCore
    First <- MCFirst
    Levels = {5, 11}
    MaxStops = 1
    Special = {0}
    MaxSpecial = 1
    BlockWhat = {"entry", "exit"}
    BlockQuads = {1}
    MaxBlocks = 1
    Mixes = {{"pc", "special"}, {"pc", "block"}, {"pc", "suspend"}}
    Windows = {"doorbell_pc"}
CHECK_DEADLOCK FALSE
INVARIANTS TypeOK NoPanic MasksRestored PartnersAgree
PROPERTIES SuspendedStays EveryWakeupServed SuspendAnswered
