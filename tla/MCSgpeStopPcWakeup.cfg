\* A wakeup by the PC unit while the acknowledgement of a block is pending.
SPECIFICATION FairSpec
CONSTANTS
    Quads = {0}
    CoresOf <- MCOneCore
    First <- MCFirst
    Levels = {5, 11}
    MaxStops = 1
    Special = {0}
    MaxSpecial = 1
    BlockWhat = {"entry", "exit"}
    BlockQuads = {0}
    MaxBlocks = 1
    Mixes = {{"pc", "block"}}
    Windows = {}
CHECK_DEADLOCK FALSE
PROPERTIES EveryPcWakeupServed
