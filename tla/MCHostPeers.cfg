SPECIFICATION Spec
CONSTANTS
    p1 = p1
    p2 = p2
    p3 = p3
    c1 = c1
    None = None
    Ids = {p1, p2}
    Clients = {}
    m_idealPeerCount = 1
    m_stretchPeers = 1
    pin = FALSE
    Saved = {p1}
    SavedRequired = {}
    MaxGen = 2
    MaxHandshakes = 1
INVARIANTS
    SessionsWithinSlots
CHECK_DEADLOCK FALSE
