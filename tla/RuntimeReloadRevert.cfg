SPECIFICATION Spec
CONSTANTS
    c1 = c1
    c2 = c2
    h1 = h1
    h2 = h2
    NoConn = NoConn
    Recovery = Recovery
    Nobody = Nobody
    Callers = {h1}
    Broken = {}
    Invalid = {}
    Off = {}
    Gone = {}
    MaxContent = 1
    Saves <- AnyContent
    Reverts = TRUE
    MaxRecoveries = 0
    MaxRestarts = 0
    Conns = {c1}
INVARIANTS
    NothingPendingIsLoaded
CHECK_DEADLOCK FALSE
