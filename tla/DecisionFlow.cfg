SPECIFICATION Spec
CONSTANTS
    PackageNames <- MCPackageNames
    SiteOf <- MCSiteOf
    NameOrder <- MCNameOrder
    MaxActions = 5
    MaxAutoRisk = "Low"
    Blocked = {}
    Envs <- AllEnvs
    Envelopes <- MCEnvelopes
    InternalEvents <- MCInternal
    Replies <- MCReplies
    Predictions <- MCPredictions
    PrivacyThreshold = 1
    RecentLimit = 2
    Histories <- MCHistories
    MaxEvents <- TwoWindows
INVARIANTS
    AirGapSeals
    LocalApproved
    NoSpiral
    EvaluatorRanked
    
    PrefetchResolved
CHECK_DEADLOCK FALSE
