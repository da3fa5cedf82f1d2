SPECIFICATION MCSpec
CONSTANTS
    v1 = v1
    v2 = v2
    Arity = 2
    Keys <- FourKeys
    Values = {v1, v2}
    LongValues = {v2}
    InlineLimit = 5
    c_writeAttempts = 2
    MaxChanges = 3
    Programs <- SmallPrograms
    Schedules <- SmallSchedules
    InitialGas = {5, 14, 20}
    Answers = {0, 1, 6}
    WordBytes = 2
    ByteSize = 4
    c_stackSize = 8
    c_maxInt63 = 12
    c_allButOne = 4
    alice = alice
    shop = shop
    oracle = oracle
    miner = miner
    max = max
    Externals = {alice}
    Contracts = {shop}
    Precompiled = {oracle}
    MaxAddress = max
    Author = miner
    InitialBalance <- Balances
    Transactions <- SomeTransactions
    metropolis = FALSE
    BlockGasLimit = 8
    baseGas = 1
    precompiledGas = 2
    createDataGas = 1
    maxCodeSize = 1
    exceptionalFailedCodeDeposit = TRUE
    MaxDepth = 2
    MaxNonce = 2
    none = none
    torn = torn
    Accounts = {"a1", "a2"}
    Uuids = {"u1", "u2"}
    Passwords = {"p", "q"}
    Typos = {}
    MaxKeyOperations = 4
    MaxKilled = 1
    MaxFailed = 1
    ByteStrings <- SomeBytes
    Numbers = {0, 1, 255, 256, 65535, 65536}
    c_addressBytes = 2
    c_directDigits = 3
    Directs = {0, 1, 35, 36, 46655, 46656, 65535}
    Institutions <- SomeInstitutions
    ClientIds <- SomeClientIds
    Mistypes <- SomeMistypes
    Ground <- FirstToFifth
    Limit = 7
    MaxUpdates = 3
    Seeds = {"s1", "s2"}
    Revisions = {22, 23}
    fileSize <- sizeOfRevision
    Dirs = {"home"}
    MaxPrepares = 5
    maxDatagramSize = 1280
    addressSize = 4
    nearestCounts = {0, 13, 16}
    lifetime = 1
    reqTimeout = 1
    MaxClock = 2
    MaxDuplicates = 1
    Seals = {"s1", "s2"}
    rewarded = 1
    MaxNumber = 2
    MaxHeaderEvents = 2
INVARIANTS
    TrieSound
    StaysWithinBounds
    EtherConserved
    TransactionsAtomic
    KeysFileOpens
    MatchIsComplete
    WrittenIsReadBack
    MaskIsItsElements
    WholeAnswerArrives
    StandsOnTheChain
PROPERTIES
    GasOnlyFalls
CHECK_DEADLOCK FALSE
