CONSTANTS
    MaxLogEntries = 3
    NoCapture = NoCapture
    Monitors = {1, 10}
    Elements = {v1}
    MaxCalls = 3
    Nesting = {FALSE, TRUE}
SPECIFICATION Spec
INVARIANT StuckReportSound
 
PROPERTY PollSettles
VIEW WrapView
CHECK_DEADLOCK FALSE
