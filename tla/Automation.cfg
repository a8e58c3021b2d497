SPECIFICATION FairSpec
CONSTANTS
    s1 = s1
    s2 = s2
    b1 = b1
    b2 = b2
    b3 = b3
    p = p
    m = m
    NoValue = NoValue
    NoTag = NoTag
    NoKept = NoKept
    Tags = {p, m}
    MemoryTags = {m}
    Values = {"v1", "v2"}
    Items = {s1, s2}
    Bodies = {b1, b2, b3}
    OutTag <- SmallOutTag
    OutValue <- SmallOutValue
    Configs <- SmallConfigs
    MaxSaves = 1
    MaxWriteFailures = 1
INVARIANTS
    TypeOK
    KeptBelongsToItem
    RunIsDemanded
    StaleLoadIsNoticed
PROPERTIES
    LoadsConverge
    OutputsConverge
