CONSTANTS
    Wiring <- MCWiring
    Clients = {p1}
    Moods = {"ok", "error", "panic", "hang"}
SPECIFICATION HealthFairSpec
 
INVARIANT ReportIsComplete
PROPERTY ProbesAreAnswered
