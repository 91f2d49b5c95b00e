CONSTANTS
    LostTimeout = 2
    Interval = 1
    MaxLag = 1
    MaxDisplays = 2
    MaxTime = 10
SPECIFICATION Spec
CHECK_DEADLOCK FALSE
INVARIANTS
    ReportedIsCurrent
