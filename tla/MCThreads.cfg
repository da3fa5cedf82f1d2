SPECIFICATION MCSpec
CONSTANTS
    c1 = c1
    c2 = c2
    c3 = c3
    Clients = {c1, c2, c3}
    Free = Free
    Instances = 2
    Packages = {"w1", "w2"}
    MaxSolutions = 2
    MaxFarmCalls = 5
    gasLimit = 2
    ask = 10
    m_omit_empty_block = FALSE
    m_maxBlockTranscations = 1
    Submissions <- TwoTransactions
    MaxView = 1
    MaxHeight = 1
    MaxSubmissions = 1
    p1 = p1
    Peers = {p1}
    Txs = {1, 2}
    c_maxSendTransactions = 1
    MaxBlock = 2
    MaxRoute = 2
    MaxImports = 2
INVARIANTS
    SignedAsPrepared
PROPERTIES
    WorkerSound
    CallsReturn
    FarmCallsEnd
    GossipSound
CHECK_DEADLOCK FALSE
