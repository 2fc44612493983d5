\* An encrypted and a plain entry, the first of them pulled by another machine;
\* one failure.
CONSTANTS
    NumLabels = 2
    Absent = Absent
    MaxTime = 1
    MaxWrites = 2
    Events <- Faults
    MaxEvents = 1
    Entry <- PathAndPrefix
    RequireLength = TRUE
    Source <- PullPath
    Interval <- Intervals
    Prefixed <- NoPrefixes
SPECIFICATION FairSpec
INVARIANTS ObjectCoversItsPad DoneIsStored PartialNeverLooksComplete MinIntervalKept ServedIsOnDisk
PROPERTIES BackupArrives
CHECK_DEADLOCK FALSE
