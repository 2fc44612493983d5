\* Two ids, plain or compressed, links that sort between them, two snapshots each.
CONSTANTS
    Ids = {1, 3}
    LatestRank = 2
    MaxTime = 2
    Absent = Absent
    Events = {"flaw", "dial", "session", "spawn", "transfer", "sender", "exit", "verify", "list", "open", "copy", "silent"}
    MaxEvents = 2
    Intervals = {0, 5}
    Setups <- AllSetups
SPECIFICATION FairSpec
INVARIANTS TypeOK CleanRunIsCurrent NothingLeftOpen
PROPERTIES StopEnds
CHECK_DEADLOCK FALSE
