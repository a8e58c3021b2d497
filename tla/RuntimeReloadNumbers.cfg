SPECIFICATION Spec
CONSTANTS
    c1 = c1
    c2 = c2
    h1 = h1
    h2 = h2
    NoConn = NoConn
    Recovery = Recovery
    Nobody = Nobody
    Callers = {h1, h2}
    Broken = {}
    Invalid = {}
    Off = {}
    Gone = {}
    MaxContent = 0
    Saves <- AnyContent
    Reverts = FALSE
    MaxRecoveries = 1
    MaxRestarts = 0
    Conns = {c1, c2}
CONSTRAINT
    OneNumberAtATime
INVARIANTS
    SmallerNumberIsOlder
CHECK_DEADLOCK FALSE
