CONSTANTS
    c1 = c1
    c2 = c2
    Calls = {c1, c2}
    Accounts = {1, 2}
    MaxAccountID = 2
    Currencies = {"USD"}
    Keys = {"k1"}
    NoKey = NoKey
    BadKeys = {}
    NoRow = NoRow
    NoCall = NoCall
    NoReq = NoReq
    NoTransfer = NoTransfer
    NoRecord = NoRecord
    Corrupt = Corrupt
    Commands <- MCCommands
    MaxBalance = 2
    MaxAttempts = 1
    Opening <- PoorOpening
    Leftovers <- NothingLeft
    MaxLate = 1
SPECIFICATION Spec
INVARIANT RetryIsNotRefused
CHECK_DEADLOCK FALSE
