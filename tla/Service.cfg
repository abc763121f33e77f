SPECIFICATION MCSpec
CONSTANTS
    ArmPasses = 1
    Commanded = {"Resistance", "FluxLinkage"}
    WindowPeriod = 3
    IndependentPeriod = 6
    UpdatesPerFeed = 2
    FeedPeriod = 2
    PassGap = 2
    MaxFailures = 3
INVARIANTS StopWins RunsAreEnded StallsEnd HealthyRunsOn ReportIsTrue
PROPERTIES DetailHasItsReason
