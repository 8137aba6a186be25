\* STOP is suspended between the post of the exit thread and its first
\* statement.
SPECIFICATION Spec
CONSTANTS
    Quads = {0}
    CoresOf <- MCOneCore
    First <- MCFirst
    Levels = {5, 11}
    MaxStops = 1
    Special = {0}
    MaxSpecial = 1
    BlockWhat = {"entry", "exit"}
    BlockQuads = {}
    MaxBlocks = 1
    Mixes = {{"suspend"}}
    Windows = {"thread_start"}
CHECK_DEADLOCK FALSE
PROPERTIES SuspendedStays
