CONSTANTS
    MaxLogEntries = 2
    NoCapture = NoCapture
    Delays = {150}
    Lateness = {0}
    MaxTimers = 3
    MaxRuns = 1
    Targets = {"document", "content"}
    NativeEndMsg <- MCNativeEndMsg
    MaxScrollEvents = 3
SPECIFICATION Spec
VIEW ScrollView
PROPERTY ScrollEndOnlyWhenScrolling
