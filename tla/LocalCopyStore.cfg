\* One job, online or vacuum: failures, crashes and changes of the source.
CONSTANTS
    Online = Online
    Vacuum = Vacuum
    App = App
    Logs = Logs
    Jobs = {Online, Vacuum}
    VacuumJobs = {Vacuum}
    Sources = {App}
    Base <- Bases
    NumDirs = 1
    NoPath = NoPath
    Configs <- EitherJob
    Live = Live
    Absent = Absent
    MaxTime = 1
    IdleLimit = 1
    MaxChanges = 1
    Events <- StoreEvents
    MaxEvents = 2
SPECIFICATION Spec
INVARIANTS TypeOK PromotedIsWhole LinkIsSnapshot SnapshotsSpaced SnapshotCoversItsTime NothingLeftBehind FailureHasItsCause CleanPassServes
PROPERTIES ImplementsStore
CHECK_DEADLOCK FALSE
