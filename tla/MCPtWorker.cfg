CONSTANTS
  Ctrl = {c1, c2, c3}
  Worker = {w1, w2}
  Engine = {e1}
  None = None
  MaxCrashes = 1
SPECIFICATION FairSpec
INVARIANTS SurvivorIsBarred OneDriver
PROPERTIES BarrierClears
