CONSTANTS
    c1 = c1
    c2 = c2
    None = None
    Callers = {c1, c2}
    Kinds <- MCKinds
    RequestCap = 1
    NotifCap = 1
    MaxNotif = 2

SPECIFICATION Spec

PROPERTY RequestEventuallyAnswered
\* Every caller finishes and the runtime stops sending: the system stops.
CHECK_DEADLOCK FALSE
