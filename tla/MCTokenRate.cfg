SPECIFICATION FairRateSpec
CONSTANTS
  Callers = {c1, c2}
  Stoppers = {s1, s2}
  MaxRequests = 3000
  WindowSeconds = 1
  Burst = 2
  MaxBucketCapacity = 1000000
  Millisecond = 1000000
  Capacity <- BucketCapacity
  PerTick <- TokensPerTick
  MaxTicks = 1
INVARIANTS
  BucketInv
  DeadTakeNothing
  RateBound
PROPERTIES
  NoRefillAfterStop
  ImplementsLimiter
  NobodyHangs
  StopTerminates
