SPECIFICATION FairSpec
CONSTANTS
    a1 = a1
    a2 = a2
    t1 = t1
    lo = lo
    mid = mid
    hi = hi
    Bad = Bad
    Alarms = {a1, a2}
    Tags = {t1}
    Levels = {lo, mid, hi}
    RuleFiles <- SmallFiles
    LocalRules <- SmallLocal
    StartValues = {lo}
    MaxWire = 2
    MaxEvents = 2
PROPERTIES
    EventsResume
