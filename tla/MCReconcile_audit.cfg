CONSTANTS
    c1 = c1
    Calls = {c1}
    Accounts = {1, 2, 3}
    MaxAccountID = 3
    Currencies = {"USD", "EUR"}
    Keys = {"k1"}
    NoKey = NoKey
    NoRow = NoRow
    NoCall = NoCall
    NoReq = NoReq
    NoTransfer = NoTransfer
    Commands <- MCCommands
    MaxBalance = 3
    MaxAttempts = 1
    Opening <- MCOpening
    MaxAmount = 3
SPECIFICATION AuditSpec
INVARIANT NothingEscapes
CHECK_DEADLOCK FALSE
