\* Recovery of two databases, with four failures, uploads or further runs.
CONSTANTS
    NumLabels = 2
    Absent = Absent
    MaxTime = 1
    MaxWrites = 4
    Events <- Faults
    MaxEvents = 4
    Source <- OwnSource
    Interval <- NoIntervals
    Prefixed <- AppLogs
    Backups <- FourBackups
    AppLabels = {1}
SPECIFICATION FairSpec
INVARIANT InstalledIsWhole
PROPERTIES InstallsNewest NothingLost CleanRunRecovers RunningAgainRecovers
CHECK_DEADLOCK FALSE
