SPECIFICATION MCSpec
CONSTANTS
    MaxElapsed = 2
    SamplePeriod = 2
    UpdatePeriod = 3
    OvervoltageSamples = 3
    UndervoltageSamples = 2
    MissingEvaluations = 2
    Continuous = 2
    Transient = 4
    Capacity = 3
    Divisor = 2
    PhaseLimit = 3
    FractionOne = 2
    Frames <- MCFrames
    Currents = {0, 2, 4}
    Required = 2
    AnalogPeriod = 2
    Debounce = 2
    Slow = 4
    Fast = 3
    MaximumLow = 3
    FullLow = 2
    Qualifying = 2
    MaxGap = 2
    One = 4
    RootRange = 8
    Quanta = {1, 2, 4, 8}
    CurrentLimit = 4
    PhaseCeilings = {0, 2, 4}
    BusCeilings = {0, 2}
    RegenLimit = 1
    WeakeningLimit = 2
    RampIn = 8
    RampOut = 3
    RampCycles = 1
    RampCounts = 2
    Requests <- MCRequests
    PwmPeriod = 3
    Deadband = 4
    Shift = 2
    Voltages <- MCVoltages
    SlotCount = 8
    PageCount = 2
    SlotPeriod = 2
    Wrap = 8
INVARIANTS LimitsFollowReadings ExhaustedStaysContinuous InputsAreCurrent InsideDeratedCircle
    NothingIsLost PagesInOrder
PROPERTIES CutNeedsSamples WithinBattery
