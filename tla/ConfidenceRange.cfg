SPECIFICATION Spec
CONSTANTS
    PackageNames <- MCPackageNames
    SiteOf <- MCSiteOf
    NameOrder <- MCNameOrder
    MaxActions = 5
    MaxAutoRisk = "Low"
    Blocked = {}
    Envs <- LocalEnvs
    Envelopes <- LoopEnvelopes
    InternalEvents <- NoEvents
    Replies <- NoReplies
    Predictions <- NoPredictions
    PrivacyThreshold = 3
    RecentLimit = 5
    Histories <- NoHistory
    MaxEvents <- ThreeWindows
INVARIANT ConfidenceInRange
CHECK_DEADLOCK FALSE
