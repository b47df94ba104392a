\* Two workers and two runs; the lease as long as the timeout, or shorter.
SPECIFICATION FairSpec
CONSTANTS
    Workers = {w1, w2}
    Runs = {r1, r2}
    Configs <- MCConfigs
    DefaultLeaseTTL = 2
    DefaultMaxPending = 1
    LargestMaxPending = 2
    DefaultDispatchTimeout = 1
    LargestDispatchTimeout = 3
    MaxAttempts = 2
    Backoffs = {1}
    MaxFaults = 1
    MaxOperations = 1
INVARIANTS
    OverlapOnlyAfterLoss
    BacklogWithinLimit
PROPERTIES
    OnlyTheHolderCommits
    ImplementsOutcomes
    EveryRunEnds
CHECK_DEADLOCK FALSE
