CONSTANTS
    c1 = c1
    c2 = c2
    Calls = {c1, c2}
    Accounts = {1, 2}
    MaxAccountID = 2
    Currencies = {"USD"}
    Keys = {"k1"}
    NoKey = NoKey
    BadKeys = {"bad key"}
    NoRow = NoRow
    NoCall = NoCall
    NoReq = NoReq
    NoTransfer = NoTransfer
    NoRecord = NoRecord
    Corrupt = Corrupt
    Commands <- OddCommands
    MaxBalance = 2
    MaxAttempts = 1
    Opening <- MCOpening
    Leftovers <- StaleLeft
    MaxLate = 1
SPECIFICATION FairSpec
INVARIANT IdemInv
INVARIANT SuccessIsThePayment
INVARIANT NoMoneyBehindRefusal
INVARIANT CompletedIsTrue
INVARIANT RetryNeverPaysAgain
INVARIANT ConflictMeansMisuse
PROPERTY EveryRequestReturns
PROPERTY ImplementsAtMostOnce
CHECK_DEADLOCK FALSE
