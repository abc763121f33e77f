SPECIFICATION HSpec
CONSTANTS
    CycleMod = 9
    Lease = 2
    MaxStall = 2
    Disturbances = {"Overrun", "DutyRange", "Break", "Updater", "Sample", "Stationary",
                    "Estimate", "Readback"}
INVARIANTS UnreadFaultStays
PROPERTIES KeepsAuthority
