SPECIFICATION MCSpec
CONSTANTS
    gasLimit = 1
    ask = 10
    Submissions <- RivalTransactions
    MaxHeight = 2
    MaxEvents = 2
    Generations = 3
    MaxUncles = 2
    Clocks = {0, 2}
    MaxBlocks = 5
    ann = ann
    bea = bea
    f1 = f1
    Callers = {ann, bea}
    LogFilters = {f1}
    MaxChanges = 2
    MaxInstalls = 2
    baseGas = 2
    c_maxGasEstimate = 8
    Filters <- SomeFilters
    Entries <- SomeEntries
    LogBlocks <- AtMostOne
    LogHeights = {1}
    Payloads = {2, 3}
    c_block = 2
    MaxFrames = 2
    MaxDamages = 1
    c_blockSize = 2
    c_overhead = 6
    MaxFrameSize = 20
    SequenceIds = 8
    Sizes = {2, 5, 15}
    MaxQueued = 2
    Preferences <- AllPreferences
    InterfaceSets <- SomeInterfaces
    Externals <- SomeExternals
    c_defaultListenPort = 30303
    RandomPorts = {1, 2}
    RouterWays = {"direct", "random", "own", "none"}
    Others <- neighbours
INVARIANTS
    OwnBlocksImport
    NoTransactionLost
    UnclesSound
    ChangesReachWatches
    QuestionsAnswered
    TakenAsWritten
    FramesCarryPackets
    AdvertisedIsForwarded
CHECK_DEADLOCK FALSE
