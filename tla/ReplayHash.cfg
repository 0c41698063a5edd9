SPECIFICATION Spec
CONSTANTS
    PackageNames <- MCPackageNames
    SiteOf <- MCSiteOf
    NameOrder <- MCNameOrder
    MaxActions = 5
    MaxAutoRisk = "Low"
    Blocked = {}
    PrivacyThreshold = 3
    Lines <- MCLines
    MaxLines = 2
    WindowMs = 2
    Stages <- TwicePolicy
    Drifts <- NoDrifts
INVARIANTS
    ReplayDeterministic
CHECK_DEADLOCK FALSE
