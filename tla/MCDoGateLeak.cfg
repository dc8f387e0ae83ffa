SPECIFICATION DoSpec
CONSTANTS
  Callers = {c1, c2}
  Threshold = 1
  MaxProbes = 1
  WithBreaker = FALSE
  MaxConcurrent = 0
  MaxRetries = 0
  Capacity = 1
  RetryAfterMax = 1
  MaxDuration = 1
  Second = 1
  Base = 1
  Ceiling = 1
  Jitter = FALSE
  StatusFails = FALSE
  DefaultTimeout = FALSE
  ClientTimeout = FALSE
PROPERTIES
  GatePausesAll
