SPECIFICATION MCSpec
CONSTANTS
    MaxForeign <- MessagesRead
    net = net
    eth = eth
    Senders = {net, eth}
    Service = net
    MaxPackets = 3
    UdpSenders = {1, 2}
    MaxDatagrams = 3
    MaxRequests = 2
    MaxReceived = 2
    Uncled <- Branched
    Items <- FourItems
    c_maxHeadersToSend = 2
    c_maxBlocks = 3
    c_maxPayload = 3
    MaxHeaders = 3
    MaxSkip = 2
    MaxNumber = 5
    MaxHashes = 4
INVARIANTS
    NoMutualWait
    SessionSound
    OneSendLoop
    AnswersAreAsked
PROPERTIES
    HandshakeSound
    HandshakeEndsWhenRun
    QueuedIsWritten
    SilentPeerLeavesWhenRun
CHECK_DEADLOCK FALSE
