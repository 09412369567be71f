SPECIFICATION RoutingSpec
CONSTANTS
    RawCatalogs <- MCCatalogs
    RawProfiles <- MCProfiles
    RawRules <- MCRules
    Batches <- MCBatches
    LearnedScores <- MCLearned
    Policies = {"rule", "pareto", "linucb", "similarity", "factorization"}
    Unit = 100
    Threshold = 50
    PriorWeight = 2
    PreferredBonus = 5
    MaxQuery = 1000
    None = None
INVARIANTS
    OnlyTheListedMatter
    EveryModelAccountedFor
    BatchAccounts
\* A batch ends.
CHECK_DEADLOCK FALSE
