CONSTANTS
  Kinds = {"plain", "bound", "native"}
  Replies = {"signed", "unknown", "login", "waiting", "mismatch"}
  Request = {}
  NoRequest = NoRequest
  DayLen = 3
  Horizon = 3
  Fresh = 0
  Spacing = 1
  Backoff = 1
  Wait = 1
  SignalLife = 2
  MaxReads = 1
  MaxWakeups = 1
  MaxDeferred = 1
  MaxAttempts = 1
  MaxRuns = 2
  MaxCrashes = 1
SPECIFICATION Spec
CHECK_DEADLOCK FALSE
INVARIANTS SentIsOnRecord Budgets
PROPERTIES NoBlindReplay
