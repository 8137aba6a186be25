\* A quad that is in STOP11, or on its way, is blocked and unblocked.
SPECIFICATION Spec
CONSTANTS
    Quads = {0}
    CoresOf <- MCOneCore
    First <- MCFirst
    Levels = {5, 11}
    MaxStops = 1
    Special = {0}
    MaxSpecial = 1
    BlockWhat = {"entry", "exit"}
    BlockQuads = {0}
    MaxBlocks = 1
    Mixes = {{"block"}}
    Windows = {"block_stopped"}
CHECK_DEADLOCK FALSE
INVARIANTS PgpeKnowsActive
