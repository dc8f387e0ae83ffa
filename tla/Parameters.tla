----------------------------- MODULE Parameters -----------------------------
(***************************************************************************)
(* What becomes of the parameters of a breaker: how initTokenBucket of     *)
(* src/pkg/circuitbreaker.go turns them into a bucket and a ticker, and    *)
(* what the options of src/pkg/options.go make of their arguments.         *)
(***************************************************************************)
EXTENDS Integers

CONSTANTS
  MaxRequests,
  WindowSeconds,
  Burst,              \* what WithBurst was given, at least 1; 0 without it
  MaxBucketCapacity,
  Millisecond         \* in the unit of durations

\* Without requests or a window there is no bucket.
ASSUME ParametersAssumption ==
  /\ MaxRequests \in Nat \ {0}
  /\ WindowSeconds \in Nat \ {0}
  /\ Burst \in Nat
  /\ MaxBucketCapacity \in Nat \ {0}
  /\ Millisecond \in Nat \ {0}

BucketCapacity ==
  LET asked == IF Burst > 0 THEN Burst ELSE MaxRequests
  IN  IF asked > MaxBucketCapacity THEN MaxBucketCapacity ELSE asked

Interval == (1000 * WindowSeconds * Millisecond) \div MaxRequests

\* Below minTokenInterval the ticker fires 40 times a second (clampedTick), and
\* every tick brings a batch.
Coarse == Interval < Millisecond

\* math.Round of the tokens due in a tick.
Due == (MaxRequests + 20 * WindowSeconds) \div (40 * WindowSeconds)

TokensPerTick ==
  IF ~Coarse \/ Due < 1 THEN 1
  ELSE IF Due > BucketCapacity THEN BucketCapacity ELSE Due

(***************************************************************************)
(* The options, which accept any argument                                  *)
(***************************************************************************)

AtLeastOne(n) == IF n < 1 THEN 1 ELSE n

\* newBreakerState
WithBreaker(failures, openFor, probes) ==
  [threshold |-> AtLeastOne(failures),
   openFor   |-> IF openFor <= 0 THEN 30 * (1000 * Millisecond) ELSE openFor,
   maxProbes |-> AtLeastOne(probes)]

WithExponentialBackoff(base, max) ==
  LET from == IF base <= 0 THEN 100 * Millisecond ELSE base
  IN  [base |-> from, ceiling |-> IF max < from THEN from ELSE max]

WithRetryAfter(maxWait) == IF maxWait <= 0 THEN 300 * (1000 * Millisecond) ELSE maxWait

WithBurst(n) == AtLeastOne(n)
=============================================================================
