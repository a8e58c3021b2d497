SPECIFICATION FairSpec
CONSTANTS
    a = a
    Clients = {a}
    Lease = 8
    Renew = 1
    PostTime = 1
    ReadLease = 2
    Startup = 1
    Idle = 1
    Stale = 1
    Collect = 2
    MaxFailures = 1
    MaxEvents = 2
INVARIANTS
    TypeOK
    RegistrationIsKept
    DemandIsPolled
    NewDriverIsPolled
    UnwantedIsSuspended
PROPERTIES
    AbandonedTagIdles
    RegistrationReturns
