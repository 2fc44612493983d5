\* Two entries, disabled or of different frequencies, pulls of up to two units.
CONSTANTS
    f1 = f1
    f2 = f2
    NumEntries = 2
    Files = {f1, f2}
    Freqs = {0, 2, 3}
    Ages = {0, 2}
    Missing = Missing
    SyncTimeout = 2
    MaxTime = 10
SPECIFICATION FairSpec
INVARIANTS TypeOK NeverLate
PROPERTIES StopEnds
CHECK_DEADLOCK FALSE
