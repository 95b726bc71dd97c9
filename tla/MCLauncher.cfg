CONSTANTS
    None = None
    AppCodes <- MCAppCodes
    ValidSignals <- MCSignals
    QCap = 2
    MaxOther = 3
SPECIFICATION Spec
INVARIANTS TypeOK ExitEventFaithful
PROPERTIES Lifecycle ChildEventuallyReaped
CHECK_DEADLOCK FALSE
