SPECIFICATION Spec
CONSTANTS
    Text <- AllText
    Rules <- TwoRules
    DevScopes = {"dev"}
    MaxIOC = 3
    Workers <- TwoWorkers
    Plans <- AllPlans
    Seeds <- Installed
    MaxNow = 1
CHECK_DEADLOCK FALSE
INVARIANTS MergeIsSound ParallelIsSerial MutedDoesNotInflate MutingHidesNothing DevDoesNotScore LoneCapability
PROPERTIES ScoreOnlyRises
