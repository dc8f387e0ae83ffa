---------------------------- MODULE TokenBucket ----------------------------
(***************************************************************************)
(* The rate limiter of src/pkg/circuitbreaker.go: the channel of tokens,   *)
(* the goroutine that refills it, the callers in waitForToken and the      *)
(* goroutines in Stop.  A buffered channel of empty structs is the number  *)
(* of its elements; a select with several ready cases takes any of them.   *)
(***************************************************************************)
EXTENDS Integers

CONSTANTS
  Callers,   \* goroutines in waitForToken
  Stoppers,  \* goroutines that call Stop
  Capacity,  \* cap(cb.tokens): maxRequests, or the burst of WithBurst
  PerTick    \* tokensPerTick

\* initTokenBucket clamps tokensPerTick to 1..capacity.
ASSUME BucketAssumption ==
  /\ Capacity \in Nat \ {0}
  /\ PerTick \in 1..Capacity

VARIABLES
  tokens,    \* len(cb.tokens)
  tick,      \* ticks held by ticker.C, at most one
  refiller,  \* where the refilling goroutine is
  batch,     \* sends left in the current tick
  stopped,   \* is cb.tokenStop closed?
  stop,      \* per stopper: where it is in Stop
  wait,      \* per caller: where it is in waitForToken
  ctx,       \* per caller: its context
  result     \* per caller: what waitForToken last returned

refill == <<tick, refiller, batch>>
waiting == <<wait, ctx, result>>
bucketVars == <<tokens, refill, stopped, stop, waiting>>

\* A context is "live", was "dead" when waitForToken was called, or is "done"
\* since.
Contexts == {"live", "dead", "done"}

BucketTypeOK ==
  /\ tokens \in 0..Capacity
  /\ tick \in 0..1
  /\ refiller \in {"select", "refill", "done"}
  /\ batch \in 0..PerTick
  /\ stopped \in BOOLEAN
  /\ stop \in [Stoppers -> {"idle", "waiting", "returned"}]
  /\ wait \in [Callers -> {"out", "enter", "fast", "blocked"}]
  /\ ctx \in [Callers -> Contexts]
  /\ result \in [Callers -> {"none", "token", "cancelled", "stopped"}]

\* initTokenBucket: the bucket is born full.
BucketInit ==
  /\ tokens = Capacity
  /\ tick = 0
  /\ refiller = "select"
  /\ batch = 0
  /\ stopped = FALSE
  /\ stop = [s \in Stoppers |-> "idle"]
  /\ wait = [c \in Callers |-> "out"]
  /\ ctx = [c \in Callers |-> "live"]
  /\ result = [c \in Callers |-> "none"]

(***************************************************************************)
(* startTokenBucket: the ticker and the goroutine                          *)
(***************************************************************************)

\* time.Ticker drops a tick while the last one has not been received, and is
\* stopped when the goroutine returns.
TickerFires ==
  /\ refiller # "done"
  /\ tick' = 1
  /\ UNCHANGED <<tokens, refiller, batch, stopped, stop, waiting>>

\* Mutant: the goroutine does not listen to tokenStop.
RefillerIgnoresStop == FALSE

\* Mutant: the goroutine empties the bucket before it returns.
RefillerDrains ==
  /\ refiller = "select"
  /\ stopped
  /\ refiller' = "done"
  /\ tokens' = 0
  /\ UNCHANGED <<tick, batch, stopped, stop, waiting>>

RefillerSeesStop ==
  /\ refiller = "select"
  /\ stopped
  /\ refiller' = "done"
  /\ UNCHANGED <<tokens, tick, batch, stopped, stop, waiting>>

RefillerSeesTick ==
  /\ refiller = "select"
  /\ tick = 1
  /\ tick' = 0
  /\ refiller' = "refill"
  /\ batch' = PerTick
  /\ UNCHANGED <<tokens, stopped, stop, waiting>>

\* Mutant: the send is not bounded by the batch.
RefillerSendsFreely ==
  /\ refiller = "refill"
  /\ tokens < Capacity
  /\ tokens' = tokens + 1
  /\ UNCHANGED <<batch, refiller, tick, stopped, stop, waiting>>

\* One send of the batch.
RefillerSends ==
  /\ refiller = "refill"
  /\ tokens < Capacity
  /\ tokens' = tokens + 1
  /\ batch' = batch - 1
  /\ refiller' = IF batch = 1 THEN "select" ELSE "refill"
  /\ UNCHANGED <<tick, stopped, stop, waiting>>

\* The bucket is full: break refill.
RefillerBreaks ==
  /\ refiller = "refill"
  /\ tokens = Capacity
  /\ batch' = 0
  /\ refiller' = "select"
  /\ UNCHANGED <<tokens, tick, stopped, stop, waiting>>

Refiller ==
  \/ RefillerSeesStop
  \/ RefillerSeesTick
  \/ RefillerSends
  \/ RefillerBreaks

(***************************************************************************)
(* Stop                                                                    *)
(***************************************************************************)

\* close(cb.tokenStop), by the first caller only.
StopCloses(s) ==
  /\ stop[s] = "idle"
  /\ stop' = [stop EXCEPT ![s] = "waiting"]
  /\ stopped' = TRUE
  /\ UNCHANGED <<tokens, refill, waiting>>

\* Mutant: Stop does not wait for the goroutine.
StopReturnsEarly(s) ==
  /\ stop[s] = "waiting"
  /\ stop' = [stop EXCEPT ![s] = "returned"]
  /\ UNCHANGED <<tokens, refill, stopped, waiting>>

\* cb.tokenWaitGroup.Wait().
StopReturns(s) ==
  /\ stop[s] = "waiting"
  /\ refiller = "done"
  /\ stop' = [stop EXCEPT ![s] = "returned"]
  /\ UNCHANGED <<tokens, refill, stopped, waiting>>

(***************************************************************************)
(* waitForToken                                                            *)
(***************************************************************************)

Call(c) ==
  /\ wait[c] = "out"
  /\ wait' = [wait EXCEPT ![c] = "enter"]
  /\ \E x \in {"live", "dead"} : ctx' = [ctx EXCEPT ![c] = x]
  /\ result' = [result EXCEPT ![c] = "none"]
  /\ UNCHANGED <<tokens, refill, stopped, stop>>

\* The context is cancelled or its deadline passes during the call.
ContextEnds(c) ==
  /\ wait[c] # "out"
  /\ ctx[c] = "live"
  /\ ctx' = [ctx EXCEPT ![c] = "done"]
  /\ UNCHANGED <<tokens, refill, stopped, stop, wait, result>>

Return(c, r) ==
  /\ wait' = [wait EXCEPT ![c] = "out"]
  /\ result' = [result EXCEPT ![c] = r]
  /\ UNCHANGED <<refill, stopped, stop, ctx>>

Take(c) ==
  /\ tokens > 0
  /\ tokens' = tokens - 1
  /\ Return(c, "token")

DeadOnArrival(c) ==
  /\ wait[c] = "enter"
  /\ ctx[c] # "live"
  /\ Return(c, "cancelled")
  /\ UNCHANGED tokens

\* Mutant: the context is not checked before the fast path.
PassUnchecked(c) ==
  /\ wait[c] = "enter"
  /\ wait' = [wait EXCEPT ![c] = "fast"]
  /\ UNCHANGED <<tokens, refill, stopped, stop, ctx, result>>

LiveOnArrival(c) ==
  /\ wait[c] = "enter"
  /\ ctx[c] = "live"
  /\ wait' = [wait EXCEPT ![c] = "fast"]
  /\ UNCHANGED <<tokens, refill, stopped, stop, ctx, result>>

FastTake(c) ==
  /\ wait[c] = "fast"
  /\ Take(c)

FastMiss(c) ==
  /\ wait[c] = "fast"
  /\ tokens = 0
  /\ wait' = [wait EXCEPT ![c] = "blocked"]
  /\ UNCHANGED <<tokens, refill, stopped, stop, ctx, result>>

\* The three cases of the blocking select.
WaitCancelled(c) ==
  /\ wait[c] = "blocked"
  /\ ctx[c] # "live"
  /\ Return(c, "cancelled")
  /\ UNCHANGED tokens

\* Mutant: the select does not listen to tokenStop.
WaitIgnoresStop(c) == FALSE

WaitStopped(c) ==
  /\ wait[c] = "blocked"
  /\ stopped
  /\ Return(c, "stopped")
  /\ UNCHANGED tokens

WaitTakes(c) ==
  /\ wait[c] = "blocked"
  /\ Take(c)

BucketNext ==
  \/ TickerFires
  \/ Refiller
  \/ \E s \in Stoppers : StopCloses(s) \/ StopReturns(s)
  \/ \E c \in Callers :
       \/ Call(c)
       \/ ContextEnds(c)
       \/ DeadOnArrival(c)
       \/ LiveOnArrival(c)
       \/ FastTake(c)
       \/ FastMiss(c)
       \/ WaitCancelled(c)
       \/ WaitStopped(c)
       \/ WaitTakes(c)

BucketSpec == BucketInit /\ [][BucketNext]_bucketVars

(***************************************************************************)
(* Fairness.  The ticker fires, goroutines run.  A select takes a ready    *)
(* case at random, so the refiller does not prefer ticks to the closed     *)
(* tokenStop forever; receivers blocked on a channel are served in the     *)
(* order of arrival, so nobody overtakes a waiter forever.                 *)
(***************************************************************************)
BucketFairness ==
  /\ WF_bucketVars(TickerFires)
  /\ WF_bucketVars(Refiller)
  /\ SF_bucketVars(RefillerSeesStop)
  /\ \A s \in Stoppers : WF_bucketVars(StopReturns(s))
  /\ \A c \in Callers :
       /\ WF_bucketVars(DeadOnArrival(c) \/ LiveOnArrival(c))
       /\ WF_bucketVars(FastTake(c) \/ FastMiss(c))
       /\ WF_bucketVars(WaitStopped(c))
       /\ SF_bucketVars(WaitTakes(c))

FairBucketSpec == BucketSpec /\ BucketFairness

(***************************************************************************)
(* Properties                                                              *)
(***************************************************************************)

\* A call whose context was over when it arrived never takes a token from the
\* calls that are alive (circuitbreaker.go:517-521).
DeadTakeNothing == \A c \in Callers : result[c] = "token" => ctx[c] # "dead"

\* Once some Stop has returned nothing is added to the bucket any more: the
\* goroutine is gone, not just told to go (circuitbreaker.go:497-510).
NoRefillAfterStop ==
  [][(\E s \in Stoppers : stop[s] = "returned") => tokens' <= tokens]_bucketVars

\* The inductive invariant behind both: Stop returns only after the goroutine, a
\* batch being sent is not empty, and whoever reached a select was alive.
BucketInv ==
  /\ BucketTypeOK
  /\ \A s \in Stoppers : stop[s] = "returned" => refiller = "done"
  /\ refiller = "refill" => batch > 0
  /\ \A c \in Callers : wait[c] \in {"fast", "blocked"} => ctx[c] # "dead"
  /\ DeadTakeNothing

\* To the calls all this is the bucket of Limiter.tla: no token appears from
\* elsewhere or once the goroutine is gone, none is taken twice, whatever selects,
\* ticks, batches and Stops interleave (circuitbreaker.go:148-180, 497-541).
Abstract == INSTANCE Limiter WITH filling <- refiller # "done"

ImplementsLimiter == Abstract!LimiterSpec

\* Nobody hangs in waitForToken, even without a deadline: the next tick or Stop
\* releases it (circuitbreaker.go:531-540).
NobodyHangs == \A c \in Callers : wait[c] # "out" ~> wait[c] = "out"

\* Every Stop returns, however many ticks and waiters there are.
StopTerminates == \A s \in Stoppers : stop[s] = "waiting" ~> stop[s] = "returned"
=============================================================================
