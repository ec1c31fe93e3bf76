CONSTANTS
  Session = {s1, s2}
  NoSession = NoSession
  DayLen = 3
  Fresh = 1
  Window = 2
  Horizon = 4
SPECIFICATION Spec
SYMMETRY Symmetry
CHECK_DEADLOCK FALSE
INVARIANTS NoReplay ConfirmedIsTrue
