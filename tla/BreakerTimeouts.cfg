SPECIFICATION Spec
CONSTANTS
    Contexts <- CloudContexts
    Cloud = "ready"
    PrivacyThreshold = 2
    BreakerThreshold = 5
    BreakerWindow = 12
    Gaps = {2}
    CallTimes = {3}
    MaxWindows = 7
INVARIANT
    FailuresTrip
