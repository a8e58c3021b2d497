SPECIFICATION FairQueueSpec
CONSTANTS
    NoValue = NoValue
    NoTag = NoTag
    Tags = {"x", "y", "z"}
    Values = {"v1", "v2"}
    MaxWriteFailures = 1
INVARIANTS
    EntryIsServed
PROPERTIES
    LatestWriteWins
    EveryTagIsWritten
