CONSTANT MaxPageErrors = 1
SPECIFICATION Spec
INVARIANT CleanReportIsTrue
CHECK_DEADLOCK FALSE
