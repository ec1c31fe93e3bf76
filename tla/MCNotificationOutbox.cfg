SPECIFICATION OutboxSpec
CONSTANTS
    Sites = {s1, s2}
    Plans = {p1, p2}
    Reporters = {r1, r2}
    Served = {"state", "action", "blocked", "recovered"}
    Checkers = {r2}
    Producers = {"daily_digest", "per_change", "gateway"}
    SlotsPerDay = 2
    Start = 0
    Horizon = 1
    MaxChanges = 2
    MaxFaults = 1
    MaxIncidents = 2
INVARIANTS SiteAnnouncedOnce RecoveryHasOutage
PROPERTIES ToldInOrder ReceiptsOutlastOutages
SYMMETRY MCSymmetry
ACTION_CONSTRAINT FirstPlanStands
CHECK_DEADLOCK FALSE
