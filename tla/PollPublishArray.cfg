SPECIFICATION Spec
CONSTANTS
    t1 = t1
    t2 = t2
    d1 = d1
    l1 = l1
    w1 = w1
    w2 = w2
    NoTag = NoTag
    Tags = {t1}
    ArrayRoots = {t1}
    Derived = {d1}
    Source <- SourceT1
    Lanes = {l1}
    LaneOf <- OneLane
    Writers = {w1}
    UaWriters = {}
    MaxTime = 3
    MaxEpoch = 1
    MaxWrites = 1
    MaxRestarts = 0
    MaxQueue = 1
INVARIANTS
    NoPreWriteGoodAnyRow
