CONSTANTS
    c1 = c1
    c2 = c2
    r1 = r1
    Calls = {c1, c2}
    Readers = {r1}
    Accounts = {1, 2, 3}
    MaxAccountID = 3
    Currencies = {"USD"}
    Keys = {"k1"}
    NoKey = NoKey
    BadKeys = {}
    NoRow = NoRow
    NoCall = NoCall
    NoReq = NoReq
    NoTransfer = NoTransfer
    NoRecord = NoRecord
    Corrupt = Corrupt
    Commands <- MCCommands
    MaxBalance = 2
    MaxAttempts = 1
    Opening <- MCOpening
    Leftovers <- NothingLeft
    MaxLate = 1
    Unset = Unset
    Empty = Empty
    Blank = Blank
    Junk = Junk
    NoReply = NoReply
    Verifier <- MCVerifier
    Headers <- MCHeaders
    Now = 1
SPECIFICATION APISpec
SYMMETRY Symmetry
INVARIANT CodesAreTrue
INVARIANT OnlyAdmittedLeaveTraces
INVARIANT OneFreshReply
INVARIANT ReadsAreWhole
INVARIANT BalancesIncludeThePayment
CHECK_DEADLOCK FALSE
