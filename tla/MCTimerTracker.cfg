CONSTANTS
    MaxLogEntries = 2
    NoCapture = NoCapture
    Delays = {0, 150}
    Lateness = {0, 60}
    MaxTimers = 3
    MaxRuns = 10
SPECIFICATION Spec
INVARIANT TimerTypeOK
INVARIANT LogTypeOK
INVARIANT RetainsMostRecent
INVARIANT StoredIsPastLog
PROPERTY TimersTransparent
CHECK_DEADLOCK FALSE
