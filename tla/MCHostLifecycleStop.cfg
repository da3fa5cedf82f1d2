SPECIFICATION FairHostSpec
CONSTANTS
    c1 = c1
    c2 = c2
    Clients = {c1}
    Free = Free
    NetworkSaved = TRUE
    StartMayThrow = FALSE
PROPERTY StopReturnsEventually
CHECK_DEADLOCK FALSE
