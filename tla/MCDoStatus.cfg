SPECIFICATION DoSpec
CONSTANTS
  Callers = {c1}
  Threshold = 1
  MaxProbes = 1
  WithBreaker = TRUE
  MaxConcurrent = 0
  MaxRetries = 1
  Capacity = 0
  RetryAfterMax = 1
  MaxDuration = 1
  Second = 1
  Base = 1
  Ceiling = 1
  Jitter = FALSE
  StatusFails = TRUE
  DefaultTimeout = FALSE
  ClientTimeout = FALSE
INVARIANTS
  StatusFailureReachesMachine
