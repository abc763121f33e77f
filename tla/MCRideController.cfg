SPECIFICATION HSpec
CONSTANTS
    ClockMod = 8
    MaxElapsed = 2
    StartupTimeout = 3
    FirstHallTimeout = 2
    SecondHallTimeout = 1
    RunningHallTimeouts = {1, 2}
    RetryQuiet = 2
    RetryLimit = 2
    FaultLimit = 2
    ForwardTransitions = 2
    ProgressBound = 2
    Faults = {"HardwareBreak", "HallCapture"}
    Inputs <- MCInputs
INVARIANTS RestBeforeTorque RestartsAreBounded StallBounded
PROPERTIES RetryAfterQuiet
