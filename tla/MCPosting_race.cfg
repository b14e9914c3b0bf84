CONSTANTS
    c1 = c1
    c2 = c2
    Calls = {c1, c2}
    Accounts = {1, 2, 3, 4}
    MaxAccountID = 4
    Currencies = {"USD", "EUR"}
    Keys = {"k1"}
    NoKey = NoKey
    NoRow = NoRow
    NoCall = NoCall
    NoReq = NoReq
    NoTransfer = NoTransfer
    Commands <- AllCommands
    MaxBalance = 2
    MaxAttempts = 2
    MaxConns = 2
    Opening <- OddOpening
SPECIFICATION Spec
SYMMETRY Symmetry
INVARIANT PostingInv
INVARIANT BalancesReconcile
INVARIANT DoubleEntry
INVARIANT LockedReadsAreCurrent
INVARIANT OneTransferPerKey
INVARIANT NoWaitCycle
PROPERTY JournalOnly
PROPERTY ImplementsLedger
CHECK_DEADLOCK FALSE
