\* The gzip tail is lost on close.
CONSTANTS
    Online = Online
    Vacuum = Vacuum
    App = App
    Logs = Logs
    Jobs = {Online}
    VacuumJobs = {}
    Sources = {App}
    Base <- Bases
    NumDirs = 1
    NoPath = NoPath
    Configs <- OneZipped
    Live = Live
    Absent = Absent
    MaxTime = 1
    IdleLimit = 1
    MaxChanges = 0
    Events <- CloseOnly
    MaxEvents = 1
SPECIFICATION Spec
INVARIANTS PromotedIsWhole
CHECK_DEADLOCK FALSE
