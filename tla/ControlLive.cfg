SPECIFICATION InterruptFairSpec
CONSTANTS
    CycleMod = 9
    Lease = 2
    MaxStall = 2
    Disturbances = {"Overcurrent", "Hall", "Updater"}
INVARIANTS TripIsCounted
PROPERTIES GrantOrRenewal LeaseBoundsOutput LeaseLossMeansStall OutputNeedsRenewal
    StaleGrantWithdrawn
