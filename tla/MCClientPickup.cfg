SPECIFICATION ClientSpec
CONSTANTS
    gasLimit = 2
    ask = 10
    Submissions <- TwoTransactions
    MaxHeight = 1
    MaxEvents = 0
PROPERTIES
    TransactionsPickedUp
CHECK_DEADLOCK FALSE
