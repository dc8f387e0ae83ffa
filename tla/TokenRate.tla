----------------------------- MODULE TokenRate -----------------------------
(***************************************************************************)
(* How many requests the bucket lets through in a stretch of time.  An     *)
(* observer starts to count at an arbitrary moment (Observe) and counts    *)
(* the ticks of the ticker and the tokens granted since.  A window as long *)
(* as n intervals contains n ticks, so a bound in ticks is a bound for     *)
(* every sliding window.                                                   *)
(***************************************************************************)
EXTENDS TokenBucket

CONSTANT MaxTicks  \* bound on the ticks of a window

ASSUME RateAssumption == MaxTicks \in Nat

VARIABLES
  granted,  \* tokens granted since the window began
  ticks     \* ticks of the ticker since the window began

rateVars == <<bucketVars, granted, ticks>>

RateInit == BucketInit /\ granted = 0 /\ ticks = 0

Observe == granted' = 0 /\ ticks' = 0 /\ UNCHANGED bucketVars

Fires == TickerFires /\ ticks < MaxTicks /\ ticks' = ticks + 1 /\ UNCHANGED granted

Grants ==
  /\ \E c \in Callers : FastTake(c) \/ WaitTakes(c)
  /\ granted' = granted + 1
  /\ UNCHANGED ticks

Others ==
  /\ \/ Refiller
     \/ \E s \in Stoppers : StopCloses(s) \/ StopReturns(s)
     \/ \E c \in Callers :
          \/ Call(c) \/ ContextEnds(c) \/ DeadOnArrival(c) \/ LiveOnArrival(c)
          \/ FastMiss(c) \/ WaitCancelled(c) \/ WaitStopped(c)
  /\ UNCHANGED <<granted, ticks>>

RateNext == Observe \/ Fires \/ Grants \/ Others

RateSpec == RateInit /\ [][RateNext]_rateVars

FairRateSpec == RateSpec /\ BucketFairness

(***************************************************************************)
(* Properties                                                              *)
(***************************************************************************)

\* Tokens that are in the bucket or on their way into it.
Pending == tokens + batch + (IF tick = 1 THEN PerTick ELSE 0)

\* In a window of n ticks at most Capacity + (n + 2) * PerTick calls pass: what
\* the bucket holds, what the ticks bring, and two ticks that fired before the
\* window began, one being worked off by a goroutine that was not scheduled, one
\* held by the ticker (circuitbreaker.go:161-178).
RateBound == granted + Pending <= Capacity + (ticks + 2) * PerTick

\* options.go:84-87: with maxRequests + burst <= L "sem jamais exceder em NENHUMA
\* janela deslizante", no window of windowSeconds lets more than L calls pass.  One
\* token per tick, and MaxTicks is maxRequests, the ticks of such a window.
HardLimit == PerTick = 1 => granted <= MaxTicks + Capacity
=============================================================================
