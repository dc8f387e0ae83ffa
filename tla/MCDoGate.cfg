SPECIFICATION DoSpec
CONSTANTS
  Callers = {c1, c2}
  Threshold = 1
  MaxProbes = 1
  WithBreaker = FALSE
  MaxConcurrent = 0
  MaxRetries = 1
  Capacity = 1
  RetryAfterMax = 2
  MaxDuration = 31
  Second = 4
  Base = 1
  Ceiling = 2
  Jitter = TRUE
  StatusFails = FALSE
  DefaultTimeout = TRUE
  ClientTimeout = FALSE
SYMMETRY Symmetry
INVARIANTS
  DurationsExact
  DoInv
  PauseRemembered
  RetriesSpaced
  MetricsAddUp
PROPERTIES
  WaitsKept
