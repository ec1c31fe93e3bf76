SPECIFICATION DaySpec
CONSTANTS
    Sites = {1, 2}
    Group <- MCGroup
    Supplemental = {2}
    OAuthSites = {1}
    Outcomes <- MCOutcomes
    LoginOutcomes <- MCLogins
    RecoveryRounds = 1
    SlotsPerDay = 2
    LateSlot = 1
    SiteLimit = 1
    GroupLimit = 2
    LoginLimit = 2
    RateLimit = 2
    MaxDelay = 1
    MaxAttempts = 1
    MaxWakeups = 1
    MaxDrain = 2
    RunAttempts = 2
    Horizon = 3
    MaxPlan = 2
    MaxEvents = 1
    MaxStarts = 4
INVARIANTS NoBlindRevisit WakeOnce
PROPERTIES  DueIsServed
CHECK_DEADLOCK FALSE
