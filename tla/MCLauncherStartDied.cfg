CONSTANTS
    None = None
    AppCodes <- MCAppCodes
    ValidSignals <- MCSignals
    QCap = 1
    MaxOther = 2
SPECIFICATION Spec
INVARIANTS StartNoPanic
CHECK_DEADLOCK FALSE
