CONSTANTS
  Proc = {p1, p2, p3}
  NoProc = NoProc
  MaxCrashes = 1
SPECIFICATION FairSpec
INVARIANTS ExcludesUnlessTrespassed LeaseIsItsOwners
PROPERTIES DeadOwnerIsReclaimed
