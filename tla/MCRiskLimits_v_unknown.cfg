CONSTANTS
    a = a
    b = b
    c = c
    d = d
    Contracts = {a, b, c, d}
    Sector <- SmallSector
    Legs <- SmallLegs
    SectorCap = 2
    PositionCap = 3
    MaxEntries = 3
    MaxFaults = 1
SPECIFICATION LimitsSpec
INVARIANT UnknownBlocksEntries
