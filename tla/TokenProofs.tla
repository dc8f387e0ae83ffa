---------------------------- MODULE TokenProofs ----------------------------
(***************************************************************************)
(* Proofs about TokenBucket and TokenRate, for every number of callers and *)
(* stoppers, capacity and batch; and about Parameters, for every argument  *)
(* of the options.                                                         *)
(***************************************************************************)
EXTENDS TokenRate, Parameters, TLAPS

LEMMA BucketInitInv == BucketInit => BucketInv
<1> SUFFICES ASSUME BucketInit PROVE BucketInv
  OBVIOUS
<1>1. stopped \in BOOLEAN
  BY DEF BucketInit
<1>2. BucketTypeOK
  BY <1>1, BucketAssumption DEF BucketAssumption, BucketInit, BucketTypeOK, Contexts
<1>3. QED
  BY <1>2 DEF BucketInit, BucketInv, DeadTakeNothing

\* The steps of the goroutine and of Stop.
LEMMA RefillerKeepsInv ==
  ASSUME BucketInv,
         \/ TickerFires \/ Refiller
         \/ \E s \in Stoppers : StopCloses(s) \/ StopReturns(s)
  PROVE  BucketInv'
<1> USE BucketAssumption
    DEF BucketAssumption, BucketInv, BucketTypeOK, Contexts, DeadTakeNothing, refill, waiting
<1>1. CASE TickerFires
  BY <1>1 DEF TickerFires
<1>2. CASE RefillerSeesStop
  BY <1>2 DEF RefillerSeesStop
<1>3. CASE RefillerSeesTick
  BY <1>3 DEF RefillerSeesTick
<1>4. CASE RefillerSends
  BY <1>4 DEF RefillerSends
<1>5. CASE RefillerBreaks
  BY <1>5 DEF RefillerBreaks
<1>6. ASSUME NEW s \in Stoppers, StopCloses(s) PROVE BucketInv'
  BY <1>6 DEF StopCloses
<1>7. ASSUME NEW s \in Stoppers, StopReturns(s) PROVE BucketInv'
  BY <1>7 DEF StopReturns
<1>8. QED
  BY <1>1, <1>2, <1>3, <1>4, <1>5, <1>6, <1>7 DEF Refiller

\* The steps of a caller in waitForToken.
LEMMA CallerKeepsInv ==
  ASSUME BucketInv, NEW c \in Callers,
         \/ Call(c) \/ ContextEnds(c) \/ DeadOnArrival(c) \/ LiveOnArrival(c) \/ FastTake(c)
         \/ FastMiss(c) \/ WaitCancelled(c) \/ WaitStopped(c) \/ WaitTakes(c)
  PROVE  BucketInv'
<1> USE BucketAssumption
    DEF BucketAssumption, BucketInv, BucketTypeOK, Contexts, DeadTakeNothing, refill
<1>1. CASE Call(c)
  BY <1>1 DEF Call
<1>2. CASE ContextEnds(c)
  BY <1>2 DEF ContextEnds
<1>3. CASE DeadOnArrival(c)
  BY <1>3 DEF DeadOnArrival, Return
<1>4. CASE LiveOnArrival(c)
  BY <1>4 DEF LiveOnArrival
<1>5. CASE FastTake(c)
  BY <1>5 DEF FastTake, Take, Return
<1>6. CASE FastMiss(c)
  BY <1>6 DEF FastMiss
<1>7. CASE WaitCancelled(c)
  BY <1>7 DEF WaitCancelled, Return
<1>8. CASE WaitStopped(c)
  BY <1>8 DEF WaitStopped, Return
<1>9. CASE WaitTakes(c)
  BY <1>9 DEF WaitTakes, Take, Return
<1>10. QED
  BY <1>1, <1>2, <1>3, <1>4, <1>5, <1>6, <1>7, <1>8, <1>9

LEMMA BucketStep == BucketInv /\ [BucketNext]_bucketVars => BucketInv'
<1> SUFFICES ASSUME BucketInv, [BucketNext]_bucketVars PROVE BucketInv'
  OBVIOUS
<1>1. CASE BucketNext
  BY <1>1, RefillerKeepsInv, CallerKeepsInv DEF BucketNext
<1>2. CASE UNCHANGED bucketVars
  BY <1>2 DEF bucketVars, refill, waiting, BucketInv, BucketTypeOK, DeadTakeNothing
<1>3. QED
  BY <1>1, <1>2

\* Type correctness and the facts that the properties below rest on.
THEOREM BucketInvariant == BucketSpec => []BucketInv
<1>1. QED
  BY BucketInitInv, BucketStep, PTL DEF BucketSpec

\* A call that arrives dead never takes a token.
THEOREM DeadNeverTake == BucketSpec => []DeadTakeNothing
<1>1. BucketInv => DeadTakeNothing
  BY DEF BucketInv
<1>2. QED
  BY <1>1, BucketInvariant, PTL

\* Nothing enters the bucket after a Stop has returned.
THEOREM NoRefillOnceStopped == BucketSpec => NoRefillAfterStop
<1>1. ASSUME BucketInv, BucketNext, NEW s \in Stoppers, stop[s] = "returned"
      PROVE  tokens' <= tokens
  <2>1. refiller = "done" /\ tokens \in Nat
    BY <1>1 DEF BucketInv, BucketTypeOK
  <2>2. ~Refiller
    BY <2>1 DEF Refiller, RefillerSeesStop, RefillerSeesTick, RefillerSends, RefillerBreaks
  <2>3. tokens' = tokens \/ tokens' = tokens - 1
    BY <1>1, <2>2
    DEF BucketNext, TickerFires, StopCloses, StopReturns, Call, ContextEnds, DeadOnArrival,
        LiveOnArrival, FastTake, FastMiss, WaitCancelled, WaitStopped, WaitTakes, Take
  <2>4. QED
    BY <2>1, <2>3
<1>2. BucketInv /\ [BucketNext]_bucketVars
        => [(\E s \in Stoppers : stop[s] = "returned") => tokens' <= tokens]_bucketVars
  BY <1>1
<1>3. QED
  BY <1>2, BucketInvariant, PTL DEF BucketSpec, NoRefillAfterStop

(***************************************************************************)
(* The refinement                                                          *)
(***************************************************************************)

\* The steps of the goroutine and of Stop fill, empty or close the abstract bucket,
\* or leave it alone.
LEMMA RefillerRefines ==
  ASSUME BucketInv,
         \/ TickerFires \/ Refiller
         \/ \E s \in Stoppers : StopCloses(s) \/ StopReturns(s)
  PROVE  [Abstract!LimiterNext]_Abstract!bucket
<1> USE DEF Abstract!bucket, refill, waiting
<1>1. CASE TickerFires
  BY <1>1 DEF TickerFires
<1>2. CASE RefillerSeesStop
  BY <1>2 DEF RefillerSeesStop, Abstract!LimiterNext, Abstract!FillerExits
<1>3. CASE RefillerSeesTick
  BY <1>3 DEF RefillerSeesTick
<1>4. CASE RefillerSends
  BY <1>4 DEF RefillerSends, Abstract!LimiterNext, Abstract!Fill
<1>5. CASE RefillerBreaks
  BY <1>5 DEF RefillerBreaks
<1>6. ASSUME NEW s \in Stoppers, StopCloses(s) PROVE [Abstract!LimiterNext]_Abstract!bucket
  <2>1. Capacity > 0 /\ stopped \in BOOLEAN
    BY BucketAssumption DEF BucketAssumption, BucketInv, BucketTypeOK
  <2>2. stopped' = TRUE /\ tokens' = tokens /\ refiller' = refiller
    BY <1>6 DEF StopCloses
  <2>3. CASE stopped
    BY <2>1, <2>2, <2>3, Zenon
  <2>4. CASE ~stopped
    BY <2>1, <2>2, <2>4, Zenon DEF Abstract!LimiterNext, Abstract!Close
  <2>5. QED
    BY <2>3, <2>4
<1>7. ASSUME NEW s \in Stoppers, StopReturns(s) PROVE [Abstract!LimiterNext]_Abstract!bucket
  BY <1>7 DEF StopReturns
<1>8. QED
  BY <1>1, <1>2, <1>3, <1>4, <1>5, <1>6, <1>7 DEF Refiller

\* A caller takes a token or leaves the bucket alone.
LEMMA CallerRefines ==
  ASSUME NEW c \in Callers,
         \/ Call(c) \/ ContextEnds(c) \/ DeadOnArrival(c) \/ LiveOnArrival(c) \/ FastTake(c)
         \/ FastMiss(c) \/ WaitCancelled(c) \/ WaitStopped(c) \/ WaitTakes(c)
  PROVE  [Abstract!LimiterNext]_Abstract!bucket
<1>1. CASE FastTake(c) \/ WaitTakes(c)
  BY <1>1
  DEF FastTake, WaitTakes, Take, Return, refill, Abstract!LimiterNext, Abstract!Take
<1>2. CASE ~(FastTake(c) \/ WaitTakes(c))
  BY <1>2
  DEF Call, ContextEnds, DeadOnArrival, LiveOnArrival, FastMiss, WaitCancelled, WaitStopped,
      Return, refill, Abstract!bucket
<1>3. QED
  BY <1>1, <1>2

\* For every number of callers, stoppers, tokens and every batch, waitForToken, the
\* goroutine and Stop together are the bucket that Do is built on.
THEOREM BucketImplementsLimiter == BucketSpec => ImplementsLimiter
<1>1. BucketInit => Abstract!LimiterInit
  BY BucketAssumption DEF BucketAssumption, BucketInit, Abstract!LimiterInit
<1>2. BucketInv /\ [BucketNext]_bucketVars => [Abstract!LimiterNext]_Abstract!bucket
  <2> SUFFICES ASSUME BucketInv, [BucketNext]_bucketVars
               PROVE  [Abstract!LimiterNext]_Abstract!bucket
    OBVIOUS
  <2>1. CASE BucketNext
    BY <2>1, RefillerRefines, CallerRefines DEF BucketNext
  <2>2. CASE UNCHANGED bucketVars
    BY <2>2 DEF bucketVars, refill, Abstract!bucket
  <2>3. QED
    BY <2>1, <2>2
<1>3. QED
  BY <1>1, <1>2, BucketInvariant, PTL
  DEF BucketSpec, ImplementsLimiter, Abstract!LimiterSpec

(***************************************************************************)
(* The rate                                                                *)
(***************************************************************************)

RateInv == BucketInv /\ granted \in Nat /\ ticks \in Nat /\ RateBound

\* What the bucket holds and has coming when a window begins.
LEMMA PendingBounded ==
  ASSUME BucketTypeOK
  PROVE  Pending \in Nat /\ Pending <= Capacity + 2 * PerTick
  BY BucketAssumption DEF BucketAssumption, BucketTypeOK, Pending

\* The part of the bucket that Pending reads.
Contents == <<tokens, batch, tick>>

Sizes ==
  /\ Capacity \in Nat /\ PerTick \in Nat
  /\ tokens \in Nat /\ batch \in Nat
  /\ tokens' \in Nat /\ batch' \in Nat

\* Arithmetic, for numbers that stand for values in the next state.
LEMMA NatSum == \A x, y, z \in Nat : x + y + z \in Nat
  OBVIOUS

LEMMA BoundMoves ==
  \A g, p, q, k, c, r \in Nat :
    g + p <= c + r /\ q <= p + k => g + q <= c + (r + k)
  OBVIOUS

LEMMA BoundKept ==
  \A g, p, q, c, r \in Nat : g + p <= c + r /\ q <= p => g + q <= c + r
  OBVIOUS

LEMMA TypedSizes ==
  ASSUME BucketTypeOK, BucketTypeOK'
  PROVE  Sizes /\ Pending \in Nat /\ Pending' \in Nat
<1>1. Sizes
  BY BucketAssumption DEF BucketAssumption, BucketTypeOK, Sizes
<1>2. /\ (IF tick = 1 THEN PerTick ELSE 0) \in Nat
      /\ (IF tick' = 1 THEN PerTick ELSE 0) \in Nat
  BY <1>1 DEF Sizes
<1>3. Pending \in Nat
  BY <1>1, <1>2 DEF Sizes, Pending
<1>4. Pending' \in Nat
  BY <1>1, <1>2, NatSum DEF Sizes, Pending
<1>5. QED
  BY <1>1, <1>3, <1>4

\* Only the ticker adds to what is in the bucket or on its way, and a grant takes
\* one from it.
LEMMA RefillerMovesPending ==
  ASSUME BucketTypeOK, BucketTypeOK', Refiller
  PROVE  Pending' <= Pending
<1>1. Sizes /\ Pending \in Nat /\ Pending' \in Nat
  BY TypedSizes
<1>2. CASE RefillerSeesStop
  <2>1. Contents' = Contents
    BY <1>2 DEF RefillerSeesStop, Contents
  <2>2. QED
    BY <1>1, <2>1 DEF Contents, Pending
<1>3. CASE RefillerSeesTick
  <2>1. tokens' = tokens /\ tick = 1 /\ tick' = 0 /\ batch' = PerTick
    BY <1>3 DEF RefillerSeesTick
  <2>2. QED
    BY <1>1, <2>1 DEF Sizes, Pending
<1>4. CASE RefillerSends
  <2>1. tokens' = tokens + 1 /\ batch' = batch - 1 /\ tick' = tick
    BY <1>4 DEF RefillerSends
  <2>2. QED
    BY <1>1, <2>1 DEF Sizes, Pending
<1>5. CASE RefillerBreaks
  <2>1. tokens' = tokens /\ batch' = 0 /\ tick' = tick
    BY <1>5 DEF RefillerBreaks
  <2>2. QED
    BY <1>1, <2>1 DEF Sizes, Pending
<1>6. QED
  BY <1>2, <1>3, <1>4, <1>5 DEF Refiller

LEMMA OthersMovePending ==
  ASSUME BucketTypeOK, BucketTypeOK', Others
  PROVE  Pending' <= Pending
<1>1. CASE Refiller
  BY <1>1, RefillerMovesPending
<1>2. CASE ~Refiller
  <2>1. Contents' = Contents
    BY <1>2
    DEF Others, StopCloses, StopReturns, Call, ContextEnds, DeadOnArrival, LiveOnArrival,
        FastMiss, WaitCancelled, WaitStopped, Return, refill, Contents
  <2>2. Pending' = Pending
    BY <2>1 DEF Contents, Pending
  <2>3. QED
    BY <2>2, TypedSizes
<1>3. QED
  BY <1>1, <1>2

LEMMA RateStep == RateInv /\ [RateNext]_rateVars => RateInv'
<1> SUFFICES ASSUME RateInv, [RateNext]_rateVars PROVE RateInv'
  OBVIOUS
<1> DEFINE Room == (ticks + 2) * PerTick
<1>1. BucketInv'
  <2>1. [BucketNext]_bucketVars
    BY DEF RateNext, Observe, Fires, Grants, Others, rateVars, BucketNext
  <2>2. QED
    BY <2>1, BucketStep DEF RateInv
<1>2. BucketTypeOK /\ BucketTypeOK'
  BY <1>1 DEF RateInv, BucketInv
<1>3. Sizes /\ Pending \in Nat /\ Pending' \in Nat
  BY <1>2, TypedSizes
<1>4. granted \in Nat /\ ticks \in Nat /\ granted + Pending <= Capacity + Room
  BY DEF RateInv, RateBound
<1>5. Room \in Nat
  BY <1>3, <1>4 DEF Sizes
<1>6. SUFFICES /\ granted' \in Nat /\ ticks' \in Nat
               /\ granted' + Pending' <= Capacity + (ticks' + 2) * PerTick
  BY <1>1 DEF RateInv, RateBound
<1>7. CASE Observe
  <2>1. Pending' = Pending
    BY <1>7 DEF Observe, bucketVars, refill, Pending
  <2>2. granted' = 0 /\ ticks' = 0
    BY <1>7 DEF Observe
  <2>3. Pending <= Capacity + 2 * PerTick
    BY <1>2, PendingBounded
  <2>4. QED
    BY <1>3, <2>1, <2>2, <2>3 DEF Sizes
<1>8. CASE Fires
  <2>1. tokens' = tokens /\ batch' = batch
    BY <1>8 DEF Fires, TickerFires
  <2>2. Pending' <= Pending + PerTick
    BY <1>3, <2>1 DEF Sizes, Pending
  <2>3. granted' = granted /\ ticks' = ticks + 1
    BY <1>8 DEF Fires
  <2>4. (ticks' + 2) * PerTick = Room + PerTick
    BY <1>3, <1>4, <2>3 DEF Sizes
  <2> HIDE DEF Room
  <2>5. granted + Pending' <= Capacity + (Room + PerTick)
    BY <1>3, <1>4, <1>5, <2>2, BoundMoves DEF Sizes
  <2>6. granted' \in Nat /\ ticks' \in Nat
    BY <1>4, <2>3
  <2>7. QED
    BY <2>3, <2>4, <2>5, <2>6
<1>9. CASE Grants
  <2>1. tokens' = tokens - 1 /\ batch' = batch /\ tick' = tick
    BY <1>9 DEF Grants, FastTake, WaitTakes, Take, Return, refill
  <2>2. Pending' = Pending - 1
    BY <1>3, <2>1 DEF Sizes, Pending
  <2>3. granted' = granted + 1 /\ ticks' = ticks
    BY <1>9 DEF Grants
  <2>4. (ticks' + 2) * PerTick = Room
    BY <2>3
  <2> HIDE DEF Room
  <2>5. QED
    BY <1>3, <1>4, <1>5, <2>2, <2>3, <2>4 DEF Sizes
<1>10. CASE Others
  <2>1. Pending' <= Pending
    BY <1>2, <1>10, OthersMovePending
  <2>2. granted' = granted /\ ticks' = ticks
    BY <1>10 DEF Others
  <2>3. (ticks' + 2) * PerTick = Room
    BY <2>2
  <2> HIDE DEF Room
  <2>4. granted + Pending' <= Capacity + Room
    BY <1>3, <1>4, <1>5, <2>1, BoundKept DEF Sizes
  <2>5. granted' \in Nat /\ ticks' \in Nat
    BY <1>4, <2>2
  <2>6. QED
    BY <2>2, <2>3, <2>4, <2>5
<1>11. CASE UNCHANGED rateVars
  <2>1. Pending' = Pending
    BY <1>11 DEF rateVars, bucketVars, refill, Pending
  <2>2. granted' = granted /\ ticks' = ticks
    BY <1>11 DEF rateVars
  <2>3. QED
    BY <1>4, <2>1, <2>2
<1>12. QED
  BY <1>7, <1>8, <1>9, <1>10, <1>11 DEF RateNext

\* Whenever one begins to count, Capacity + (n + 2) * PerTick bounds the calls that
\* pass during n ticks.
THEOREM RateIsBounded == RateSpec => []RateBound
<1>1. RateInit => RateInv
  BY BucketInitInv, BucketAssumption
  DEF BucketAssumption, RateInit, RateInv, BucketInit, RateBound, Pending
<1>2. RateInv => RateBound
  BY DEF RateInv
<1>3. QED
  BY <1>1, <1>2, RateStep, PTL DEF RateSpec

(***************************************************************************)
(* Parameters                                                              *)
(***************************************************************************)

LEMMA DivisionFacts ==
  \A a \in Nat, b \in Nat \ {0} :
    /\ a \div b \in Nat
    /\ (a \div b) * b <= a
    /\ a < (a \div b) * b + b
OBVIOUS

LEMMA ProductGrows == \A x, y, z \in Nat : x * z < y * z => x < y
OBVIOUS

\* Whatever the parameters, a tick never brings nothing, nor more than the bucket
\* holds: what TokenBucket assumes of its constants (circuitbreaker.go:108-136).
THEOREM BatchFits ==
  BucketCapacity \in 1..MaxBucketCapacity /\ TokensPerTick \in 1..BucketCapacity
<1>1. BucketCapacity \in 1..MaxBucketCapacity
  BY ParametersAssumption DEF ParametersAssumption, BucketCapacity
<1>2. Due \in Nat
  <2>1. MaxRequests + 20 * WindowSeconds \in Nat /\ 40 * WindowSeconds \in Nat \ {0}
    BY ParametersAssumption DEF ParametersAssumption
  <2>2. QED
    BY <2>1, DivisionFacts DEF Due
<1>3. MaxBucketCapacity \in Nat
  BY ParametersAssumption DEF ParametersAssumption
<1>4. QED
  BY <1>1, <1>2, <1>3 DEF TokensPerTick

\* Whatever the arguments of an option, negative ones included, the circuit and the
\* bucket get parameters that Breaker and TokenBucket allow, and so do the gate and the
\* backoff with those of Do, with one exception: WithExponentialBackoff accepts every
\* maximum, and Do leaves out those above half the range of a Duration.  A maximum and
\* a base within a bound, which may be that half, give a backoff within it
\* (options.go:38-117, state.go:131-142).
THEOREM OptionsSanitized ==
  \A x, y, z \in Int :
    /\ WithBreaker(x, y, z) \in
         [threshold : Nat \ {0}, openFor : Nat \ {0}, maxProbes : Nat \ {0}]
    /\ WithBurst(x) \in Nat \ {0}
    /\ \A longest \in Nat :
         /\ x <= longest /\ 300 * (1000 * Millisecond) <= longest =>
              WithRetryAfter(x) \in 1..longest
         /\ x <= longest /\ y <= longest /\ 100 * Millisecond <= longest =>
              /\ WithExponentialBackoff(x, y).ceiling \in 1..longest
              /\ WithExponentialBackoff(x, y).base \in 1 .. WithExponentialBackoff(x, y).ceiling
<1>1. \A x \in Int : AtLeastOne(x) \in Nat \ {0}
  BY DEF AtLeastOne
<1>2. /\ 100 * Millisecond \in Nat \ {0}
      /\ 30 * (1000 * Millisecond) \in Nat \ {0}
      /\ 300 * (1000 * Millisecond) \in Nat \ {0}
  BY ParametersAssumption DEF ParametersAssumption
<1>3. ASSUME NEW x \in Int, NEW y \in Int, NEW z \in Int
      PROVE  /\ WithBreaker(x, y, z) \in
                  [threshold : Nat \ {0}, openFor : Nat \ {0}, maxProbes : Nat \ {0}]
             /\ WithBurst(x) \in Nat \ {0}
  BY <1>1, <1>2 DEF WithBreaker, WithBurst
<1>4. ASSUME NEW x \in Int, NEW y \in Int, NEW longest \in Nat
      PROVE  /\ x <= longest /\ 300 * (1000 * Millisecond) <= longest =>
                  WithRetryAfter(x) \in 1..longest
             /\ x <= longest /\ y <= longest /\ 100 * Millisecond <= longest =>
                  /\ WithExponentialBackoff(x, y).ceiling \in 1..longest
                  /\ WithExponentialBackoff(x, y).base \in
                       1 .. WithExponentialBackoff(x, y).ceiling
  <2>1. ASSUME x <= longest, 300 * (1000 * Millisecond) <= longest
        PROVE  WithRetryAfter(x) \in 1..longest
    BY <1>2, <2>1 DEF WithRetryAfter
  <2>2. ASSUME x <= longest, y <= longest, 100 * Millisecond <= longest
        PROVE  /\ WithExponentialBackoff(x, y).ceiling \in 1..longest
               /\ WithExponentialBackoff(x, y).base \in 1 .. WithExponentialBackoff(x, y).ceiling
    BY <1>2, <2>2 DEF WithExponentialBackoff
  <2>3. QED
    BY <2>1, <2>2
<1>5. QED
  BY <1>3, <1>4, Zenon

\* A coarse ticker, which fires 40 times a second, keeps the nominal rate of
\* MaxRequests in WindowSeconds within 2 percent, as long as the bucket holds a
\* batch (circuitbreaker.go:121-136).
THEOREM RateKept ==
  LET brought == TokensPerTick * (40 * WindowSeconds) IN
  Coarse /\ Due \in 1..BucketCapacity =>
    50 * brought <= 51 * MaxRequests /\ 50 * brought >= 49 * MaxRequests
<1> DEFINE fired == 40 * WindowSeconds
           half == 20 * WindowSeconds
<1> SUFFICES ASSUME Coarse, Due \in 1..BucketCapacity
             PROVE  /\ 50 * (TokensPerTick * fired) <= 51 * MaxRequests
                    /\ 50 * (TokensPerTick * fired) >= 49 * MaxRequests
  OBVIOUS
<1>1. MaxRequests \in Nat \ {0} /\ WindowSeconds \in Nat \ {0} /\ Millisecond \in Nat \ {0}
  BY ParametersAssumption DEF ParametersAssumption
<1>2. BucketCapacity \in Nat /\ Due \in Nat /\ TokensPerTick = Due
  BY BatchFits, ParametersAssumption DEF ParametersAssumption, TokensPerTick
\* There are more requests than milliseconds in the window.
<1>3. 1000 * WindowSeconds < MaxRequests
  <2> DEFINE length == 1000 * WindowSeconds
  <2>1. length \in Nat /\ length * Millisecond \in Nat
    BY <1>1
  <2>2. /\ Interval = (length * Millisecond) \div MaxRequests /\ Interval \in Nat
        /\ length * Millisecond < Interval * MaxRequests + MaxRequests
    BY <1>1, <2>1, DivisionFacts DEF Interval
  <2> HIDE DEF length
  <2>3. (Interval + 1) * MaxRequests <= Millisecond * MaxRequests
    <3>1. \A x, y, z \in Nat : x <= y => x * z <= y * z
      OBVIOUS
    <3>2. Interval + 1 <= Millisecond /\ Interval + 1 \in Nat
      BY <1>1, <2>2 DEF Coarse
    <3>3. QED
      BY <1>1, <3>1, <3>2
  <2>4. /\ (Interval + 1) * MaxRequests = Interval * MaxRequests + MaxRequests
        /\ Interval * MaxRequests \in Nat /\ Millisecond * MaxRequests \in Nat
        /\ Millisecond * MaxRequests = MaxRequests * Millisecond
    BY <1>1, <2>2
  <2>5. length * Millisecond < MaxRequests * Millisecond
    BY <1>1, <2>1, <2>2, <2>3, <2>4
  <2>6. length < MaxRequests
    BY <1>1, <2>1, <2>5, ProductGrows
  <2>7. QED
    BY <2>6 DEF length
\* The batch is what is due, but for half a token.
<1>4. /\ Due * fired \in Nat
      /\ Due * fired <= MaxRequests + half
      /\ MaxRequests + half < Due * fired + fired
  <2>1. fired \in Nat \ {0} /\ MaxRequests + half \in Nat
    BY <1>1
  <2>2. Due = (MaxRequests + half) \div fired
    BY DEF Due
  <2> HIDE DEF fired, half
  <2>3. QED
    BY <1>2, <2>1, <2>2, DivisionFacts
<1> DEFINE p == Due * fired
<1>5. p \in Nat /\ p <= MaxRequests + 20 * WindowSeconds /\ MaxRequests < p + 20 * WindowSeconds
  <2> HIDE DEF p
  <2>1. p = Due * fired
    BY DEF p
  <2>2. QED
    BY <1>1, <1>4, <2>1
<1>6. TokensPerTick * fired = p
  BY <1>2
<1> HIDE DEF p
<1>7. 50 * p <= 51 * MaxRequests /\ 50 * p >= 49 * MaxRequests
  BY <1>1, <1>3, <1>5
<1>8. QED
  BY <1>6, <1>7
=============================================================================
