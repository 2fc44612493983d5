\* One entry with files of several times, which come to the bucket in any order.
CONSTANTS
    NumLabels = 1
    Absent = Absent
    MaxTime = 1
    MaxWrites = 2
    Events <- LateFaults
    MaxEvents = 2
    Entry <- OnePrefix
    RequireLength = FALSE
    Source <- PullFirst
    Interval <- NoInterval
    Prefixed <- NoPrefixes
SPECIFICATION Spec
PROPERTIES ImplementsArchive
CHECK_DEADLOCK FALSE
