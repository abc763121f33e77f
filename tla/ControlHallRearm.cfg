SPECIFICATION HSpec
CONSTANTS
    CycleMod = 13
    Lease = 2
    MaxStall = 3
    Disturbances = {"Hall"}
PROPERTIES HallLossNeedsNoRest
