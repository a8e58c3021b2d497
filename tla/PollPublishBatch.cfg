SPECIFICATION Spec
CONSTANTS
    t1 = t1
    t2 = t2
    d1 = d1
    l1 = l1
    w1 = w1
    w2 = w2
    NoTag = NoTag
    Tags = {t1, t2}
    ArrayRoots = {}
    Derived = {}
    Source <- SourceT1
    Lanes = {l1}
    LaneOf <- OneLane
    Writers = {w1}
    UaWriters = {w1}
    MaxTime = 3
    MaxEpoch = 1
    MaxWrites = 1
    MaxRestarts = 0
    MaxQueue = 0
INVARIANTS
    NoPreWriteGood
PROPERTIES
    ImplementsTagCache
