SPECIFICATION QSpec
CONSTANTS
    Targets <- MCTargets
    RetryCount = 1
    RecoveryRounds = 1
    MaxTries = 3
    MaxOpen = 2
    MaxRuns = 3
INVARIANTS DoubtEndsTheVisit DoubtNeedsAttention ConfirmedEndsTheVisit
CHECK_DEADLOCK FALSE
