SPECIFICATION Spec
CONSTANTS
    Accounts <- MCAccounts
    LastPlan = 2
    MaxFaults = 1
CHECK_DEADLOCK FALSE
INVARIANTS DoubtIsJournalled DoubtKeepsTheAccount OwnedIsEarned SendsAreBounded
PROPERTY NoBlindResubmission
