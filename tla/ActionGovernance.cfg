SPECIFICATION Spec
CONSTANTS
    p1 = p1
    p2 = p2
    Batches <- AllBatches
    Routes = {"RuleBased", "LocalEvaluator", "CloudLlm", "FallbackNoOp"}
    Contexts <- AnySeen
    MaxActions = 1
    MaxAutoRisk = "Medium"
    Blocked = {"ReleaseMemory"}
    MaxWindows = 1
INVARIANTS
    AuditComplete
    ExecutionMatchesAudit
    VerdictsMatchRule
    
