SPECIFICATION MCSpec
CONSTANTS
    Sectors = 4
    OverflowTicks = 2
    MaxTicks = 3
    Period = 4
    Epochs = 4
    QuietOverflows = 2
    PulseCounts = 2
    Overruns = 2
    CountRange = 4
    Lost = 2
    PerPulse = 2
    Unit = 3
    Values = 2
INVARIANTS RunsInLiveSector IntervalIsExact WheelIntervalIsExact QuietIsStill
    SnapshotIsWhole DistanceIsExact
