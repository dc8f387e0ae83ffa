# A TLA+ model of circuit-breaker

This directory specifies and checks the Go library in `src/pkg`: an HTTP client
wrapper that limits concurrency and rate, retries transient failures, honours
`Retry-After`, and optionally stops calling a downstream that keeps failing.
Everything is translated from the Go code. Where a comment of the code promises
something else, a run shows the difference (section 6).

## 1. Inventory

| Component | Source | State | Operations |
|---|---|---|---|
| Circuit state machine | `pkg/state.go` | `cur`, `consecFails`, `openedAt`, `probes`, `gen`, `halfOpenAt` behind a mutex | `allow`, `enterHalfOpen`, `report`, `State` |
| Token bucket | `pkg/circuitbreaker.go:98-180, 497-541` | channel `tokens`, channel `tokenStop`, one goroutine with a ticker | `initTokenBucket`, the goroutine, `waitForToken`, `Stop` |
| The call | `pkg/circuitbreaker.go:197-397` | per call: attempt, last error, context; shared: semaphore | `Do` and its two deferred functions |
| Retry-After gate | `pkg/circuitbreaker.go:400-471` | one atomic instant | `extendRetryAfterGate`, `waitRetryAfterGate`, `parseRetryAfter` |
| Classification | `pkg/state.go:72-112`, `pkg/circuitbreaker.go:243-260, 558-564` | none | `classifyOutcome`, `isRetryable` |
| Metrics | `pkg/circuitbreaker.go:566-666`, `pkg/metrics_state.go` | counters, rings and a wheel per host and endpoint, behind a mutex | `record*`, `updateMetrics`, `Metrics` |
| Options | `pkg/options.go` | fields set before the first call | `With*`, `backoffFor` |
| Manager | `pkg/manager.go` | two maps behind a lock | create, create strictly, get, list, `Remove`, `StopAll` |
| Configuration | `pkg/spec.go` | none of its own | `ConfigureManager` |
| Outside the library | `circuitbreaker.go` (aliases), `internal/fakeserver.go`, `cmd/main.go` | | |

How they interact. `Do` runs on the goroutine of its caller. It asks `allow`,
takes a slot of the semaphore, and then for every attempt passes the gate, takes
a token and calls the HTTP client; a 429 or 503 extends the gate; deferred
functions release the slot and call `report`, in this order, whichever way `Do`
is left, by a panic too. The goroutine of the bucket refills it on ticks until
`Stop` closes a channel. The Manager creates breakers and calls `Stop`.

What is hard, and what makes each component correct:

* *State machine.* Calls report in an order that has nothing to do with the order
  of their admission, and the clock is read before the lock is taken. It is
  correct when late reports change nothing they do not own, when the slots of
  half-open are exactly accounted for, when an open circuit stays open for
  `openFor`, and when hung probes cannot keep it half-open for ever.
* *Bucket.* A `select` takes any ready case. It is correct when nobody hangs, when
  a returned `Stop` really is the end of the refill, when dead calls take nothing,
  and when the number of calls in a window is bounded.
* *Do.* A dozen exits. It is correct when each gives back what the call holds, when
  the counters account for every attempt, when the circuit is told the truth about
  the downstream, and when a call whose context has ended returns.
* *Gate.* A compare-and-swap loop. It is correct when no pause is shortened.
* *Durations.* A header or an attempt number may drive a product or a doubling out
  of the range of a `Duration`. They are correct when the wait that comes out is the
  one asked for, up to its cap, and no retry goes out before it.
* *Metrics.* Every event is recorded under a lock, but with instants read before it,
  in data structures that keep a summary only. They are correct when the summary is
  that of all events: none lost, none counted twice, in the right entry and second.
* *Manager.* `Remove` and `StopAll` stop outside the lock. It is correct when the
  two maps agree and no breaker is left running out of reach.

`PROJECT.json` lists every hazard at its line with the properties that cover it.

## 2. Modules

| Module | Models | Extends |
|---|---|---|
| `Circuit` | what the state machine promises a call: no timestamps, no generation numbers | |
| `CircuitProofs` | theorems about `Circuit`, and that `Do` implements `Circuit` and `Limiter` | `Do` |
| `Breaker` | the fields of `breakerState`, action by action; implements `Circuit` | |
| `BreakerProofs` | theorems about `Breaker` | `Breaker` |
| `Limiter` | what the rate limiter promises a call | |
| `TokenBucket` | bucket, refilling goroutine, `Stop`, `waitForToken`; implements `Limiter` | |
| `TokenRate` | `TokenBucket` with an observer that counts what passes in a window | `TokenBucket` |
| `Parameters` | `initTokenBucket` and the arguments of the options | |
| `TokenProofs` | theorems about these three | `TokenRate` |
| `Waits` | `parseRetryAfter` and `backoffFor` over machine integers | |
| `WaitsProofs` | theorems about `Waits` | `Waits` |
| `Do` | the whole call, with gate, semaphore, retries, deferred functions | `Circuit`, `Limiter`, `Waits` |
| `DoProofs` | theorems about the counters of each call, the shared state of `Do`, its waits and its types | `CircuitProofs`, `WaitsProofs` |
| `Family` | the summary of one kind of events: ring, wheel, ratios | |
| `Metrics` | the registry of endpoints, `updateMetrics`, `Metrics()`, and the log it has to agree with | `Family` |
| `MetricsProofs` | theorems about both | `Metrics` |
| `Manager` | registry, strict creation, `ConfigureManager`, `Remove`, `StopAll` | |
| `ManagerProofs` | theorems about `Manager` | `Manager` |
| `MC*` | symmetry, fairness, a history variable or a wider instance for the runs | the above |

**State and code.** In `Breaker` the variables have the names of the fields;
`phase` says whether a caller is outside, between `time.Now()` and the lock, or in
flight; `probe` and `probeGen` are the locals of `Do`. An instant is a natural
number and `clock` is `time.Now()`. `allow` is `AllowClosed`, `AllowProbe`,
`AllowAfterCoolDown`, `AllowExpired` or `Refuse`; `report` is one of four actions,
by whether the machine listens and to which outcome.

In `TokenBucket` a channel of empty structs is its length. The goroutine is in its
outer `select` or in the middle of a batch, and sends one token per step, so that
callers and stoppers come in between. The ticker holds at most one tick.

In `Do` the variable `pc` names the wait or the step a call is at: one point for
each place where another goroutine can come in between. The circuit is `Circuit`
itself, called through `Admit`, `Refuse` and `Settle`, and the bucket is `Limiter`,
called through `Take`; the refinements of section 5 carry over what is shown about
them to `Breaker` and `TokenBucket`. Instants, the gate among them, are kept as the
time left until them, which keeps the state space finite without a bound on the
clock. `m` holds what a call added to the counters of its endpoint. `sleep` is the
wait the code computes, `wanted` (a history variable) the one it should have
computed; `asked` is the same for the gate. `seen`, a history variable too, says how
the attempts of a call ended, which the code does not remember.

What the transport does is a choice: a response (good, or one of a bad status), a
response with a `Retry-After` out of `Headers`, an error (with `context.Canceled` in
its chain or without), or a panic. Whether an error is retryable is a choice too,
which covers `isRetryable` and every `WithRetryPolicy`. Panics come from the transport
or `GetBody`, before the outcome of the attempt is counted (`panic`), or from the
retry policy or the body that is drained, after it (`latePanic`). All of them blame
the downstream, one in the caller's own code too: that is what the deferred function
of the code does.

The context of a call is live, has a deadline, or has ended in one of two ways; it may
have ended before the call. `WithDefaultTimeout` is `Bounded`: a context without a
deadline gets one, unless the HTTP client has a `Timeout` (`ClientTimeout`).

In `Waits` a `Duration` is an integer that wraps (`Wrap`). A header is what it asks
for in numbers without a limit, next to the delay that the code reads from it. Text
that holds neither a date nor an integer of the machine asks for nothing, which is
`Respond` in `Do`: `strconv.Atoi` fails on an integer beyond 64 bits, and the code
ignores the header. A date in the past asks for no delay.

In `Family` the two rings of a family, which take one sample per event each, are
one ring of pairs. The counters of an endpoint (`counts`, `cancels`) are kept apart
from the rings, as in `endpointState`, and answered from there. In `Metrics` an update is one step, because it runs under
`metricsMu`; the second `start` of an event is any second the clock has shown so
far, since goroutines reach the lock in any order, and the clock may be set back
(`ClockSetBack`). The two readings of `time.Now()` of one update, one for the
endpoint and one for `::root`, are taken as the same second, and sums of durations
are exact.

In `Manager` a creation is one step, because it runs under the write lock;
`Remove` and `StopAll` are a locked step followed by one step per `Stop`. `answer`
holds the last request that could be rejected and what came back, which is what the
properties compare with the registry.

## 3. Runs

| Run | Question | Bounds |
|---|---|---|
| `circuit` | does a circuit with hung probes recover? are probes bounded? | 3 callers, one of them may hang; threshold 2; 1 probe |
| `breaker` | slots exact, clock readings of generations spaced, cool-down kept, `Circuit` implemented | 3 callers, threshold 2, `openFor` 2 ticks, 2 probes, clock up to 5 |
| `bucket` | dead calls take nothing; `Stop` waits for the goroutine; nobody hangs; `Stop` returns; how many calls pass in a window of n ticks; `Limiter` implemented | 2 callers, 2 stoppers, 3000 requests per second with a burst of 2, from which `Parameters` makes 2 tokens and 2 per tick; n up to 1 |
| `do` | slots, counters, attempts, admissions; does the circuit hear what the attempts have shown? | 2 callers, 1 slot, 1 retry, threshold 2, 1 probe, gate of 1 tick, 1 token, `Stop`, default timeout |
| `do_gate` | no pause is shortened; no request is sent again too early, and no wait is longer than its caps; cut waits are counted once; do durations survive machine arithmetic? | 2 callers, gate up to 2 ticks, backoff 1 to 2 with jitter, 1 token, 1 retry, `Stop`; durations up to 31 with a second of 4; for `DurationsExact` all ceilings up to half the range, all bases below, attempts up to 15 |
| `do_return` | a call whose context has ended, or has a deadline, returns | 2 callers, 1 slot, gate of 1 tick |
| `manager` | maps agree, strict answers are honest, rejected requests change nothing, removed breakers stop | 2 clients, 2 names, 3 breakers, 3 configurations, one unsound |
| `metrics` | counters, samples, means and ratios agree with the log of all events | 1 host, 3 paths (one of them spelled like an aggregate), 2 entries, 3 events, ring of 2, wheel of 3 seconds with windows of 1 and 3, clock up to 4 that may be set back |

*Why the bounds are enough to see the interesting cases.* In `breaker` a second
half-open generation begins while probes of the first are in flight
(`AllowExpired` fires, and so does `ReportIgnored` for a disowned probe): this
takes two probes, a third caller and two periods of `openFor`. In `bucket` a stop
falls into the middle of a batch (2 per tick) and two stoppers race. In `do_gate`
two calls are between the load and the compare-and-swap at once with different
delays (up to 2), `ExtendRetries` fires, a header asks for more seconds than a
duration holds, and a pause of 0 meets the floor of the backoff. In `do` the second
call waits for the slot, or is refused by an open circuit, while the first retries
after an error or a 429, sleeps at the gate, or waits for a token that `Stop` or its
deadline takes away.
In `metrics` the third event overwrites the first in the ring and meets a full
host, an event is recorded after the wheel has moved past its second, a gap empties
the wheel, and the clock is set back between two events and within a window. Hosts
and families do not share anything, so one of each is enough. In `manager` a
name is removed and registered again while its first breaker is being stopped.
Every passing property has a mutant of the code that the run rejects
(`PROJECT.json`): a dropped check, a wrong order, a missing reset.

*Bounds.* `MaxTime` (clock of `Breaker`, clock of `Metrics`), `MaxTicks` (ticks of
one window of `TokenRate`; windows begin at any moment), `MaxEvents` (events of
`Metrics`), `Breakers` (instances in `Manager`). Nothing else is cut off: all other
state spaces are finite by themselves.

*What is not compared.* `MCDo` has a `VIEW` for the run `do`: two states are the same
if they differ only in what a call that is over has left behind, which the next call
of its caller overwrites. The invariants have been checked on it at the state before,
where the same values stood.

`ImplementsCircuit` and `ImplementsLimiter` are the abstract specifications as
properties of the detailed ones. `DurationsExact` compares what the code computes
with what the options promise in numbers without a limit, in the initial state of
run `do_gate`, because it depends on no state: for all headers, all ceilings up to half
the range, and all bases below them, in a range small enough for products and doublings
to wrap. That the calls really
wait so long is an action property of `do_gate`, `WaitsKept`: when a call begins to
wait for a retry, the wait is bounded from below by what it owes and from above by
the ceilings.

The strengthened invariants of section 5 (`BreakerInv`, `BucketInv`, `DoInv`) are
invariants of the runs `breaker`, `bucket` and `do_gate` as well, so a change
of the code's model shows up there before it shows up in a proof. `CountInv`,
`SpacingInv` and `MetricsInv` live in the proof modules; TLC finds no state of the
same instances that violates them.

`CHECK_DEADLOCK` is off in `metrics` only, whose log is bounded. In the other models
clocks and environment steps keep most states from stopping: what absence of
deadlock would mean there is stated by the liveness properties.

## 4. Fairness

* `MCCircuit`: time passes; some responsive caller keeps calling; responsive callers
  end their calls; and a downstream that is probed again and again answers one of
  these probes well, in time. Nothing is assumed of the hung callers. `Recovers`
  says that if failures cease, the circuit is closed again and again.
* `TokenBucket` (and `TokenRate`, whose observer only counts): goroutines run (weak fairness); `select` chooses at random, so a
  closed `tokenStop` is not ignored for ever (strong fairness of
  `RefillerSeesStop`); receivers blocked on a channel are queued in order, so a
  waiter is not overtaken for ever (strong fairness of `WaitTakes`). A caller in
  `waitForToken` need not have a deadline.
* `Do`: time passes, and with it deadlines (`DeadlinePasses`); the bucket is
  refilled; a call takes its next step, except that a request may stay on the wire
  for as long as its context is not over, if its client has no `Timeout`
  (`circuitbreaker.go:190-192`); waiters of channels are served in order (strong
  fairness of `AcquireSlot` and `TakeToken`); and a `select` whose context has
  ended before its timer fires takes the context (`GateCancelled`).
* `Manager`: the loop that stops breakers goes on.

## 5. Proofs

The theorems are checked by TLAPS for every value of the constants that satisfies
the assumptions named in the modules.

* `BreakerInvariant` proves `BreakerInv`. The properties alone are not inductive:
  that slots are exact needs that no call holds a generation that has not begun
  (or a fresh generation might count somebody else's probe); that the circuit stays
  open for `openFor` needs that `openedAt`, `halfOpenAt` and every clock reading lie
  in the past; that generations are spaced needs that an open circuit opened no
  earlier than its last generation began (`halfOpenAt <= openedAt`); the type of
  `consecFails` needs that the threshold is not reached while closed.
  `BreakerTypeCorrect`, `SlotsAlwaysExact`, `GenerationsAlwaysSpaced` and
  `CoolDownAlwaysKept` follow from it. `GenerationsSpaced` is an action property about
  the clock readings with which two generations in a row begin, because that is what
  the code compares. It is not one about the moments at which they begin: a caller
  that read the clock and got the lock much later begins a generation that is old at
  birth, and the next one may follow at once.
* `BreakerImplementsCircuit` proves the refinement: under the mapping at the end of
  `Breaker.tla` every step of the machine is a step of `Circuit` or a stutter.
  `elapsed` is mapped to the real clock, not to the reading of a caller; that is
  why `Circuit` may refuse although the time has passed, and why a generation may
  be born old.
* `BucketInvariant` proves `BucketInv`, from which `DeadNeverTake` and
  `NoRefillOnceStopped` follow: the reason is that `Stop` returns only when the
  goroutine is done, and that whoever reached a `select` was alive on arrival.
* `RateIsBounded` proves `RateBound` for every capacity, batch size and window: a
  window of n ticks lets at most `Capacity + (n + 2) * PerTick` calls pass. The
  invariant counts what is on its way into the bucket (the batch being sent and the
  tick in the ticker) together with what has passed.
* `DoInvariant` proves `DoInv`, and from it follow `SlotsAlwaysHeld`,
  `AdmissionsAlwaysReported` and `PausesAlwaysRemembered`. The argument has three
  parts. Most steps of a call stay between the semaphore and the release and touch
  neither slots, admissions nor gate (`Advances`). Five steps cross that border, and
  each is matched with the set of calls inside it. The gate needs one fact the
  properties do not state: a call about to swap has loaded an instant no later than
  the one it brings, and time passes for both alike, so a swap that succeeds only
  moves the gate forward. Finiteness of the set of callers is the only assumption
  beyond the types of the constants.
* `SpacingInvariant` proves `SpacingInv`: at each point of `Do` from the response to
  the retry, what the call computes or sleeps is no less than what it owes, and no
  pause exceeds its cap. `RetriesAlwaysSpaced` follows. `WaitsAlwaysKept` looks at
  the steps that begin a wait: only a step of the call itself does, and it either
  takes the larger of pause and backoff, or the backoff alone. Both cite the bounds
  of the backoff from `BackoffsExact`. `DoTypeCorrect` puts the three invariants of
  `Do` and the types of its two layers together.
* `BackoffsExact` and `HeadersExact` say what `DurationsExact` checks, for every
  `MaxDuration`, every second, every attempt and every cap: the loop stops before a
  doubling leaves the range, given that the ceiling is at most half of it, and the
  product of `Seconds` is only taken where it fits. `DurationsAlwaysExact`
  puts the two together.
* `CountInvariant` says what each point of `Do` implies about the counters of its
  call: how many attempts and retries it has announced (`Progress`), that the books
  balance (`Balanced`), and that `lastErr` and `result` agree with `seen`, how its
  attempts really ended, and with its context (`Evidence`). Nothing in it speaks of other calls, so a step of
  one call leaves the account of the others alone, and each step is checked against
  one account. `MetricsAlwaysAddUp`, `AttemptsAlwaysBounded` and, with the fact what
  a report does to the circuit, `VerdictsAlwaysEvident` follow. The last one goes both
  ways: nothing is counted that was not seen, and a failure that a call ends on, or
  runs out of time after, is counted.
* `CircuitInvariant` adds to the types that a closed circuit is below its threshold;
  `ProbesAlwaysBounded` counts the probes: a new generation starts from one, and a
  probe is added only below the limit.
* `DoUsesCircuit`, `DoUsesLimiter`: `Do` implements both layers it is built on, so
  `DoBoundsProbes` follows from the theorem about `Circuit`. With
  `BreakerImplementsCircuit` and `BucketImplementsLimiter` this is the chain from
  the call to the code below it; that a layer may be *replaced* by what implements
  it is the usual argument about the interface and not a theorem here.
* `BatchFits`: whatever the parameters, capacity and batch satisfy what `TokenBucket`
  assumes of them (`BucketAssumption`). `RateKept`: the batch of a coarse ticker is
  within two percent of what is due, because it is used only above 1000 requests per
  second; the comment at `circuitbreaker.go:124-127` promises four.
  `OptionsSanitized`: whatever their arguments, the options give `Breaker` and
  `TokenBucket` no parameter these exclude, and the gate and the backoff stay within
  any bound that their arguments and defaults respect. `Do` sets such a bound for the
  ceiling of the backoff, half the range of a `Duration`, and
  `WithExponentialBackoff` does not enforce it (section 7).
* `ManagerInvariant` proves `ConfigsMatch`, `NoneOrphaned` and `StrictAnswers`
  together: that a strict answer is honest needs that the kept parameters are those
  of the registered breaker, and this needs that no breaker is registered twice or
  rebuilt. `AlwaysRejectedWhole`: a request that is rejected changes nothing and has
  something wrong with it. The code finds the reason in the parameters it keeps; that
  these are those of the breaker itself is `ConfigsMatch` again.
* `MetricsInvariant` proves `MetricsInv`: every part of `metrics` is a function of the
  log. Its parts are proved bottom up, each as a lemma about one operator of the code.
  - *Registry.* `SeenOK` says that the endpoints with entries of their own are all
    that were seen while there was room, and `MaxEndpoints - 1` of them after that.
    From the size of the registry `KeyIsEntry` concludes that the test for a full
    host sends exactly the right paths to `::other`.
  - *Ring.* `AddKeepsRing`: the slot written is the slot of the sample that leaves,
    so the sum loses what the ring loses. Slots not used yet hold zero.
  - *Wheel.* `WheelOK`: the slots of the latest seconds hold exactly the events of
    these seconds, and no slot holds more than the events of its residue. The first
    part gives the exact windows, the second the bound that holds when the clock
    has gone back (`CountExact`, `CountBounded`); `Reached` says where the wheel
    stands, without which neither could be applied.
  - *Counters.* Each is the number of the events of its kind at its entry, and so is
    the length its ring has ever had; neither is read off the other.
  `EventsAlwaysAccounted`, `SamplesAlwaysExact` and `RatiosAlwaysExact` read the
  three properties off the invariant; `EntriesBounded` the limit of a host.

*Induction.* The theorems of the library that take a predicate as a parameter cannot be
used, so induction over numbers is by a least counterexample (`LeastNumber` in
`WaitsProofs`) and induction over finite sets by a minimal one (`FoldUnique` in
`MetricsProofs`, on the well-founded order of finite subsets). The second shows that
the sum of the community modules is the only solution of its equation; `SumOfDisjoint`
and `SumCountsUnits` turn a sum into the size of a set, after which sums are compared
by bijections and inclusions. The recursive functions of `Waits` are shown to exist in
the same way.

Only model-checked: the liveness properties (`Recovers`, `NobodyHangs`,
`StopTerminates`, `LimitedCallsReturn`, `RemovedStop`), because liveness under
fairness is out of the prover's reach here. Every invariant and every other action
property of the runs has its theorem.

## 6. Where the code and its comments disagree

* `breaker_expiry`: a half-open generation expires `openFor` after it began, not
  after "a whole openFor without any resolution" (`state.go:160-163`). A probe
  admitted into a slot that a cancelled probe gave back can be disowned at once.
* `rate_limit`: "never more than L in any sliding window" with
  `maxRequests + burst <= L` (`options.go:84-87`) does not account for the tick that
  fired before the window and is served inside it. `RateBound` is what does hold.
* `do_gate_leak`: a blocking response does not pause "all the calls"
  (`circuitbreaker.go:433-436`): one that has passed the gate and waits for a token
  sends during the pause.
* `do_status`: with `WithStatusCodeFailure(429)` and `WithRetryAfter` a 429 counts as
  a failure in the metrics but is lost to the state machine when the deadline
  passes before the retry (`options.go:44-46`, `circuitbreaker.go:254-258`). The
  second of these comments calls the escalation deliberately narrow; the first one
  does not know of the exception.

Two smaller differences have no run of their own, since properties and theorems
already say what the code does:

* The comment on `maxEndpointsPerHost` (`circuitbreaker.go:18-19`) counts `::root` and
  `::other` in the limit of a host, but the test for a full host lets `::other` come
  on top of it. `EventsAccounted` says which entries there are, and the theorem
  `EntriesBounded` that they are at most one more than the limit.
* The comment on the saturation (`circuitbreaker.go:414-417`) says a gigantic header
  must not disarm the gate. An integer of more than 64 bits does not get there: the
  conversion fails and the header is ignored (`circuitbreaker.go:410-430`).
  `PauseRemembered` is about the headers that are read.

## 7. Not modelled

* In the status class, a minimum between 429 and 503: `StatusFails` stands for a
  minimum that both reach, its negation for one that neither does.
* The contents of requests, responses and errors; the parsing of dates and numbers in
  a header; the draining of bodies, but for a panic of it; the cancel function of
  `WithDefaultTimeout`, tied to the body that is returned, which frees a timer and
  matters only after `Do` is over; options that are nil.
* `MaxRetries < 0`, which makes `Do` report exhausted retries without an attempt, and
  windows of more than 292 years, whose product leaves the range of a `Duration`.
  `DoAssumption` excludes a ceiling of the backoff above half of that range (146
  years): there the last doubling may become negative and the loop goes on, so a base
  of 17 below a ceiling of 31, the whole range, would wait 4 after two doublings.
* The rounding of sums and means of floating-point durations.
* `isRetryable` looks at two methods of an error of the network; a choice stands for
  it and for every policy.
* The aliases of the root package, which have no behaviour of their own; the fake
  server and the demo, which are not part of the library.

In `do_return` the bucket is left out, and with one slot nobody extends the gate
while another call sleeps at it: that run is about the slot; `bucket` is about the
wait for tokens.

## 8. Plan

1. A `Stop` during a Retry-After pause in a breaker without rate limit, whose waits
   only the context and the cap end.
2. The safety half of the liveness properties as theorems: that no call that owns a
   slot can be without a step once its context has ended, and that a breaker taken
   out of the registry stays on some client's list until it is stopped.
3. Two families per endpoint and two hosts in one run, if the bounds allow; the
   theorems of `MetricsProofs` already speak of any number of both.
