CONSTANTS
    Unset = Unset
    Empty = Empty
    Blank = Blank
    Junk = Junk
    Environments <- MCEnvironments
    Inhabited <- MCInhabited
    Grants <- MCGrants
    TTL = 1
    MaxNow = 2
    MaxKeys = 2
    MaxTokens = 1
SPECIFICATION AccessSpec
INVARIANT EveryProblemIsReported
INVARIANT NoSilentDefault
INVARIANT ServedMeansIssued
INVARIANT DevTokensWork
