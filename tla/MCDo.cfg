SPECIFICATION DoSpec
CONSTANTS
  Callers = {c1, c2}
  Threshold = 2
  MaxProbes = 1
  WithBreaker = TRUE
  MaxConcurrent = 1
  MaxRetries = 1
  Capacity = 1
  RetryAfterMax = 1
  MaxDuration = 1
  Second = 1
  Base = 1
  Ceiling = 1
  Jitter = FALSE
  StatusFails = TRUE
  DefaultTimeout = TRUE
  ClientTimeout = FALSE
SYMMETRY Symmetry
VIEW View
INVARIANTS
  DoTypeOK
  SlotsHeld
  MetricsAddUp
  AttemptsBounded
  AdmissionsReported
PROPERTIES
  VerdictsFollowEvidence
