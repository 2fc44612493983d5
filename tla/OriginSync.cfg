\* Two clients against the daemon: stop, reload, silence and failures in between.
CONSTANTS
    c1 = c1
    c2 = c2
    App = App
    Logs = Logs
    PathA = PathA
    PathB = PathB
    Conns = {c1, c2}
    Labels = {App, Logs}
    Wants <- TwoWants
    Sources = {PathA, PathB}
    NoPath = NoPath
    Configs <- Serving
    Rounds = 2
    Events <- EventKinds
    MaxEvents = 1
SPECIFICATION FairSpec
INVARIANTS DoneMeansQuiet PreambleSeparated AnswerMatchesConfig UndisturbedIsAnswered
PROPERTIES HandlersGetOn StopEnds
CHECK_DEADLOCK FALSE
