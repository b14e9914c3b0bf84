CONSTANTS
    Calls = {1, 2, 3}
    Accounts = {1, 2, 3, 4}
    MaxAccountID = 4
    Currencies = {"USD"}
    Keys = {}
    NoKey = NoKey
    NoRow = NoRow
    NoCall = NoCall
    NoReq = NoReq
    NoTransfer = NoTransfer
    Commands <- MCCommands
    MaxBalance = 4
    MaxAttempts = 1
    Opening <- MCOpening
    Attempts = 2
    Concurrency = 2
    Amount = 1
    Currency = "USD"
    Fund = 1
    RingSize = 2
    Supplied = {1, 2}
SPECIFICATION Spec
INVARIANT FailureIsExplained
CHECK_DEADLOCK FALSE
