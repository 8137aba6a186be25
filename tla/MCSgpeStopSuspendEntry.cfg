\* STOP is suspended while the resonant clock of a quad is turned off.
SPECIFICATION Spec
CONSTANTS
    Quads = {0}
    CoresOf <- MCOneCore
    First <- MCFirst
    Levels = {5, 11}
    MaxStops = 1
    Special = {0}
    MaxSpecial = 1
    BlockWhat = {"entry", "exit"}
    BlockQuads = {}
    MaxBlocks = 1
    Mixes = {{"suspend"}}
    Windows = {}
CHECK_DEADLOCK FALSE
INVARIANTS SuspendedQuiet
