CONSTANTS
    r1 = r1
    p1 = p1
    RPCs = {r1}
    Probes = {p1}
SPECIFICATION FairSpec
INVARIANT DrainIsAnnounced
INVARIANT PoolsOutliveRequests
PROPERTY SignalEndsProcess
 
CHECK_DEADLOCK FALSE
