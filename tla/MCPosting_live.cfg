CONSTANTS
    c1 = c1
    c2 = c2
    Calls = {c1, c2}
    Accounts = {1, 2, 3, 4}
    MaxAccountID = 4
    Currencies = {"USD"}
    Keys = {"k1"}
    NoKey = NoKey
    NoRow = NoRow
    NoCall = NoCall
    NoReq = NoReq
    NoTransfer = NoTransfer
    Commands <- PairsCommands
    MaxBalance = 2
    MaxAttempts = 2
    MaxConns = 2
    Opening <- PairsOpening
SPECIFICATION FairSpec
PROPERTY EveryCallReturns
PROPERTY NoTransactionLeftOpen
CHECK_DEADLOCK FALSE
