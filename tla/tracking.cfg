SPECIFICATION Spec
CONSTANTS
    Units = {own}
    Tasks = {t1, t2}
    MaxMessage = 3
    Limits = {1, 2}
    MaxFaults = 1
    MaxSwitches = 5
    MaxPositions = 1
    MaxTimers = 2
    MaxFailures = 1
INVARIANTS NothingMissed NoWatchLeft
PROPERTIES MessagesDealtWith WatchEnds
CHECK_DEADLOCK FALSE
