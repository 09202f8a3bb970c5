SPECIFICATION Spec
CONSTANTS
    Units = {own}
    Tasks = {t1}
    MaxMessage = 2
    Limits = {1}
    MaxFaults = 1
    MaxSwitches = 4
    MaxPositions = 1
    MaxTimers = 2
    MaxFailures = 1
PROPERTY RecordedWithConsent
CHECK_DEADLOCK FALSE
