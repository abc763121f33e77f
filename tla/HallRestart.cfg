SPECIFICATION HSpec
CONSTANTS
    Sectors = 4
    OverflowTicks = 2
    MaxTicks = 1
INVARIANTS RestartFailsClosed
