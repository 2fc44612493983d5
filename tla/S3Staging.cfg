\* The prefix of an entry also names the files its backup job is still writing.
CONSTANTS
    NumLabels = 1
    Absent = Absent
    MaxTime = 1
    MaxWrites = 1
    Events = {}
    MaxEvents = 0
    Entry <- OnePrefix
    RequireLength = FALSE
    Source <- NoSource
    Interval <- Intervals
    Prefixed <- NoPrefixes
SPECIFICATION Spec
INVARIANTS ListedIsWhole
CHECK_DEADLOCK FALSE
