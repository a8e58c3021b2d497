SPECIFICATION FairSpec
CONSTANTS
    c1 = c1
    c2 = c2
    h1 = h1
    h2 = h2
    NoConn = NoConn
    Recovery = Recovery
    Nobody = Nobody
    Callers = {h1}
    Broken = {1}
    Invalid = {2}
    Off = {4}
    Gone = {3}
    MaxContent = 4
    Saves <- SecondBrokenOrGone
    Reverts = FALSE
    MaxRecoveries = 1
    MaxRestarts = 1
    Conns = {c1, c2}
INVARIANTS
    TypeOK
    NothingPendingIsLoaded
    ReloadNotOverwritten
    AnswerFollowsReload
    DriversArePolled
PROPERTIES
    ReplacedWhenStopped
    ImplementsReloadService
    RequestCompletes
    PollersResume
CHECK_DEADLOCK FALSE
