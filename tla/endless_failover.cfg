\* A pool of two whose first provider is spent without the snapshot knowing.
SPECIFICATION PoolFairSpec
CONSTANTS
    Candidates = 2
    Slots = 1
    BackoffSteps = 1
    Recorded = {2}
INVARIANT FailoversBounded
CHECK_DEADLOCK FALSE
