SPECIFICATION Spec
CONSTANTS
    Contexts <- EveryContext
    Cloud = "ready"
    PrivacyThreshold = 2
    BreakerThreshold = 2
    BreakerWindow = 4
    Gaps = {1, 3}
    CallTimes = {0, 2}
    MaxWindows = 5
INVARIANTS
    BreakerPaces
    NoLockOut
    SensitiveStaysLocal
    NoOpOnlyAfterFailures
