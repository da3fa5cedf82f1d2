SPECIFICATION FairSpec
CONSTANTS
    p1 = p1
    p2 = p2
    p3 = p3
    c1 = c1
    None = None
    Ids = {p1}
    Clients = {c1}
    m_idealPeerCount = 1
    m_stretchPeers = 2
    pin = TRUE
    Saved = {p1}
    SavedRequired = {p1}
    MaxGen = 2
    MaxHandshakes = 1
INVARIANTS
    QuietWhenDown
PROPERTIES
    RequiredPeersKept
CHECK_DEADLOCK FALSE
