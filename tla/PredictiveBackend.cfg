SPECIFICATION Spec
CONSTANTS
    PackageNames <- MCPackageNames
    SiteOf <- MCSiteOf
    NameOrder <- MCNameOrder
    MaxActions = 5
    MaxAutoRisk = "Low"
    Blocked = {}
    PrivacyThreshold = 3
    MaxFeatures = 128
    MaxIntents = 2
    Logs <- MCLogs
    Examples <- MCExamples
    MaxExamples = 4
    ValModulus = 2
    ValCutoff = 1
    WeightGrid <- MCWeightGrid
    MaxAscentSweeps = 2
    MinLogistic = 1
    Descents <- MCDescents
    FilesOf <- MCFilesOf
    Inputs <- MCInputs
INVARIANTS
    TrainedLoads
    AscentConsistent
    RankSound
    PredictionsApproved
CHECK_DEADLOCK FALSE
