\* The online job under fairness, with every event: due entries get their snapshots.
CONSTANTS
    Online = Online
    Vacuum = Vacuum
    App = App
    Logs = Logs
    Jobs = {Online}
    VacuumJobs = {}
    Sources = {App}
    Base <- Bases
    NumDirs = 1
    NoPath = NoPath
    Configs <- Switching
    Live = Live
    Absent = Absent
    MaxTime = 1
    IdleLimit = 1
    MaxChanges = 1
    Events <- EventKinds
    MaxEvents = 2
SPECIFICATION FairSpec
PROPERTIES DueIsServed
CHECK_DEADLOCK FALSE
