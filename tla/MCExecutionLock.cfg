CONSTANTS
  Proc = {p1, p2, p3}
  NoProc = NoProc
  MaxCrashes = 2
SPECIFICATION FairSpec
INVARIANT MutualExclusion
PROPERTIES ImplementsLease AbandonedIsReclaimed
