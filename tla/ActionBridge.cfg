SPECIFICATION FairSpec
CONSTANTS
    Requests = 2
    BadClients = {b1}
    Pings = {h1}
    Threads = 2
    Pending = 1
    MaxFailures = 2
INVARIANTS
    SuccessIsReal
    RejectedNotRun
    BackoffIsEarned
PROPERTY
    EveryForwardReturns
