SPECIFICATION Spec
CONSTANTS
    Kinds = {"stepup", "password", "hhclub", "uhd", "hddolby"}
    AutoSubmits = {"hhclub"}
    LastDay = 2
    Configurations <- MCConfigurations
    GroupLimit = 1
    Rounds = 2
    MaxRuns = 2
CHECK_DEADLOCK FALSE
INVARIANTS OneAuthenticationADay LostToOrphansOnly RefusalEndsLogins ClaimIsProved
