CONSTANTS
    None = None
    AppCodes <- MCCleanCodes
    ValidSignals <- MCSignals
    QCap = 1
    MaxOther = 2
SPECIFICATION Spec
PROPERTIES HandlerReturns
CHECK_DEADLOCK FALSE
