SPECIFICATION Spec
CONSTANTS
    t1 = t1
    t2 = t2
    d1 = d1
    l1 = l1
    w1 = w1
    w2 = w2
    NoTag = NoTag
    Tags = {t1}
    ArrayRoots = {}
    Derived = {}
    Source <- SourceT1
    Lanes = {l1}
    LaneOf <- OneLane
    Writers = {w1, w2}
    UaWriters = {w2}
    MaxTime = 2
    MaxEpoch = 2
    MaxWrites = 2
    MaxRestarts = 1
    MaxQueue = 1
INVARIANTS
    TypeOK
    GoodRowHasEvidence
    NoPreWriteGood
    StaleNodeIsCorrected
    GoodRowReachesNode
    ClientValueReplaced
