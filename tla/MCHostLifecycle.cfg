SPECIFICATION HostSpec
CONSTANTS
    c1 = c1
    c2 = c2
    Clients = {c1, c2}
    Free = Free
    NetworkSaved = TRUE
    StartMayThrow = FALSE
INVARIANTS
    HostLeftClean
CHECK_DEADLOCK FALSE
