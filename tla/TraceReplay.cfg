SPECIFICATION Spec
CONSTANTS
    PackageNames <- MCPackageNames
    SiteOf <- MCSiteOf
    NameOrder <- MCNameOrder
    MaxActions = 5
    MaxAutoRisk = "Low"
    Blocked = {}
    PrivacyThreshold = 3
    Lines <- MCLines
    MaxLines = 4
    WindowMs = 2
    Stages <- AllStages
    Drifts <- MCDrifts
INVARIANTS
    WindowsTile
    StagesAgree
    GoldenVerdict
CHECK_DEADLOCK FALSE
