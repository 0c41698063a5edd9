SPECIFICATION Spec
CONSTANTS
    p = p
    q = q
    Packages = {p, q}
    NameOrder <- MCNameOrder
    Inputs <- SomeInputs
    Configs <- SomeLimits
    IntervalWindows = 2
    MaxCount = 2
    MaxWindows = 4
    MaxStarts = 2
INVARIANTS
    AttributionMatchesHistory
    FeedbackMatchesHistory
    CountersMatchHistory
    DurablePrefix
