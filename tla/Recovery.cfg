SPECIFICATION MCSpec
CONSTANTS
    Count = 4
    Width <- MCWidth
    Fast = 2
    Chatter = 3
    Snap = 1
    Ready = 2
    Stale = 2
    Horizon = 5
    Stable = 2
    Revoke = 2
    Segments = 4
    Attempts = 2
    Runs = 3
    Faults = 3
    Backlog = 3
INVARIANTS BlindDriveEnds InstallIsWhole
PROPERTIES SpeedOfCrossing PhaseReturns RerunRecovers
CHECK_DEADLOCK FALSE
