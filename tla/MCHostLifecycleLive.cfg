SPECIFICATION FairHostSpec
CONSTANTS
    c1 = c1
    c2 = c2
    Clients = {c1}
    Free = Free
    NetworkSaved = FALSE
    StartMayThrow = TRUE
PROPERTIES
    HostCallsReturn
CHECK_DEADLOCK FALSE
