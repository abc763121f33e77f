SPECIFICATION Spec
CONSTANTS
    RampCycles = 2
    SettleCycles = 1
    SampleCycles = 2
    PauseCycles = 1
    DischargeCycles = 2
    ScanCycles = 2
    Positions = 2
    Levels = 3
    Pulses = 2
    Tick = 2
    Ceilings = {3, 6}
    Sweeps = 2
    Degrees = 3
    LastRaw = 2
    MinSamples = 1
INVARIANTS FluxNeedsSuccess
