CONSTANTS
    None = None
    AppCodes <- MCCleanCodes
    ValidSignals <- MCSignals
    QCap = 1
    MaxOther = 2
SPECIFICATION Spec
INVARIANTS StopNoError
CHECK_DEADLOCK FALSE
