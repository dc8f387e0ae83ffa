--------------------------------- MODULE Do ---------------------------------
(***************************************************************************)
(* The call Do of src/pkg/circuitbreaker.go: admission by the circuit, the *)
(* semaphore, the Retry-After gate, the token bucket, the attempts with    *)
(* their retries, and the deferred functions that release the slot and     *)
(* report the outcome, for any number of calls at once.                    *)
(*                                                                         *)
(* The circuit is the one of Circuit.tla, the bucket the one of            *)
(* Limiter.tla, the durations are those of Waits.tla.  Instants are kept   *)
(* as the time left until them.                                            *)
(***************************************************************************)
EXTENDS Circuit, Limiter, Waits

CONSTANTS
  WithBreaker,    \* WithBreaker was given: cb.state # nil
  MaxConcurrent,  \* cap(cb.sem); 0 stands for no semaphore
  MaxRetries,
  RetryAfterMax,  \* longest pause the gate accepts; 0 stands for no gate
  Base,           \* first backoff; the fixed backoff of a breaker without expBackoff
  Ceiling,        \* its maximum, Base if it is fixed
  Jitter,
  StatusFails,    \* statusFailMin is set, at or below 429
  DefaultTimeout, \* WithDefaultTimeout was given
  ClientTimeout   \* the http.Client of the calls has a Timeout

ASSUME DoAssumption ==
  /\ WithBreaker \in BOOLEAN
  /\ StatusFails \in BOOLEAN
  /\ DefaultTimeout \in BOOLEAN
  /\ ClientTimeout \in BOOLEAN
  /\ MaxConcurrent \in Nat
  /\ MaxRetries \in Nat
  /\ RetryAfterMax \in 0..MaxDuration
  /\ Ceiling \in 1 .. MaxDuration \div 2 + 1
  /\ Base \in 1..Ceiling
  /\ Jitter \in BOOLEAN

VARIABLES
  pc,       \* per caller: the wait or step of Do it is at
  ctx,      \* per caller: its context
  kind,     \* per caller: can the body of its request be sent again?
  attempt,  \* per caller: the loop variable
  lastErr,  \* per caller: the last transport error
  seen,     \* history, per caller: how its attempts ended
  result,   \* per caller: what Do returns
  sleep,    \* per caller: time left of its current wait
  wanted,   \* history, per caller: time that must pass before it may send again
  loaded,   \* per caller: the gate as extendRetryAfterGate loaded it
  m,        \* per caller: what the call added to the counters of its endpoint
  slots,    \* len(cb.sem)
  gate,     \* time left until retryAfterUntil
  asked     \* history: time left of the longest pause any response asked for

timers == <<sleep, wanted>>
callVars == <<ctx, kind, attempt, lastErr, seen, result, timers, loaded, m>>
gateVars == <<gate, asked>>
shared == <<circuitVars, slots, gateVars, bucket>>
doVars == <<pc, callVars, shared>>

Points == {"idle", "sem", "gate", "asleep", "token", "fast", "blocked", "send", "wire",
           "extend", "cas", "backoff", "release", "report"}

\* Between the semaphore and the deferred release.
Holding == Points \ {"idle", "sem", "report"}

\* What cl.Do returns besides responses: an error of the transport, or one that
\* has context.Canceled in its chain.
TransportErrors == {"net", "netCanceled"}

\* A panic before the outcome of the attempt was counted, or after it.
Panicked == {"panic", "latePanic"}

Results == {"none", "ok", "bad", "open", "canceled", "deadline", "stopped", "local",
            "exhausted"} \cup Panicked \cup TransportErrors

\* A context without a deadline, with one, and the two ways a context ends.
Contexts == {"live", "timed", "canceled", "deadline"}

Responses == {"ok", "bad"}

Counters == {"attempts", "ok", "failed", "cancels", "retries"}

DoTypeOK ==
  /\ CircuitTypeOK
  /\ pc \in [Callers -> Points]
  /\ ctx \in [Callers -> Contexts]
  /\ kind \in [Callers -> {"replay", "once"}]
  /\ attempt \in [Callers -> 0..MaxRetries]
  /\ lastErr \in [Callers -> {"none"} \cup TransportErrors]
  /\ seen \in [Callers -> SUBSET (Responses \cup TransportErrors)]
  /\ result \in [Callers -> Results]
  /\ sleep \in [Callers -> Nat]
  /\ wanted \in [Callers -> Nat]
  /\ loaded \in [Callers -> 0..RetryAfterMax]
  /\ m \in [Callers -> [Counters -> Nat]]
  /\ slots \in Nat
  /\ gate \in 0..RetryAfterMax
  /\ asked \in 0..RetryAfterMax
  /\ tokens \in 0..Capacity
  /\ stopped \in BOOLEAN
  /\ filling \in BOOLEAN

NoCounts == [k \in Counters |-> 0]

DoInit ==
  /\ CircuitInit
  /\ LimiterInit
  /\ pc = [c \in Callers |-> "idle"]
  /\ ctx = [c \in Callers |-> "live"]
  /\ kind = [c \in Callers |-> "replay"]
  /\ attempt = [c \in Callers |-> 0]
  /\ lastErr = [c \in Callers |-> "none"]
  /\ seen = [c \in Callers |-> {}]
  /\ result = [c \in Callers |-> "none"]
  /\ sleep = [c \in Callers |-> 0]
  /\ wanted = [c \in Callers |-> 0]
  /\ loaded = [c \in Callers |-> 0]
  /\ m = [c \in Callers |-> NoCounts]
  /\ slots = 0
  /\ gate = 0
  /\ asked = 0

(***************************************************************************)
(* Helpers                                                                 *)
(***************************************************************************)

Goto(c, p) == pc' = [pc EXCEPT ![c] = p]

\* The counters of ks grow by one (recordAttempt and its siblings).
Count(c, ks) ==
  m' = [m EXCEPT ![c] = [k \in Counters |-> m[c][k] + IF k \in ks THEN 1 ELSE 0]]

\* An attempt ends with x.
See(c, x) == seen' = [seen EXCEPT ![c] = @ \cup {x}]

\* A wait of d, and what the next attempt has to wait for.
Sleep(c, d, w) == sleep' = [sleep EXCEPT ![c] = d] /\ wanted' = [wanted EXCEPT ![c] = w]

Returns(c, r) ==
  /\ result' = [result EXCEPT ![c] = r]
  /\ Goto(c, "release")
  /\ Sleep(c, 0, 0)

Ended(c) == ctx[c] \in {"canceled", "deadline"}

(***************************************************************************)
(* The environment: time, contexts, Stop and the goroutine of the bucket   *)
(***************************************************************************)

Less(t) == IF t > 0 THEN t - 1 ELSE 0

Tick ==
  /\ gate' = Less(gate)
  /\ asked' = Less(asked)
  /\ sleep' = [c \in Callers |-> Less(sleep[c])]
  /\ wanted' = [c \in Callers |-> Less(wanted[c])]
  /\ loaded' = [c \in Callers |-> Less(loaded[c])]
  /\ UNCHANGED <<pc, ctx, kind, attempt, lastErr, seen, result, m>>
  /\ UNCHANGED <<circuitVars, slots, bucket>>

\* A context ends while the call runs.  Once Do is returning nobody looks at the
\* context any more.
ContextEnds(c, x) ==
  /\ pc[c] \notin {"idle", "release", "report"}
  /\ ~Ended(c)
  /\ ctx' = [ctx EXCEPT ![c] = x]
  /\ UNCHANGED <<pc, kind, attempt, lastErr, seen, result, timers, loaded, m, shared>>

CallerCancels(c) == ContextEnds(c, "canceled")

DeadlinePasses(c) == ctx[c] = "timed" /\ ContextEnds(c, "deadline")

BesideBucket == <<pc, callVars, circuitVars, slots, gateVars>>

Stop == Close /\ UNCHANGED BesideBucket

Refill == Fill /\ UNCHANGED BesideBucket

RefillerExits == FillerExits /\ UNCHANGED BesideBucket

(***************************************************************************)
(* Admission and the semaphore                                             *)
(***************************************************************************)

\* WithDefaultTimeout gives a deadline to a call that nothing else limits.
Bounded(x) == IF DefaultTimeout /\ ~ClientTimeout /\ x = "live" THEN "timed" ELSE x

NewCall(c) ==
  /\ pc[c] = "idle"
  /\ \E x \in Contexts : ctx' = [ctx EXCEPT ![c] = Bounded(x)]
  /\ \E k \in {"replay", "once"} : kind' = [kind EXCEPT ![c] = k]
  /\ attempt' = [attempt EXCEPT ![c] = 0]
  /\ lastErr' = [lastErr EXCEPT ![c] = "none"]
  /\ seen' = [seen EXCEPT ![c] = {}]
  /\ m' = [m EXCEPT ![c] = NoCounts]
  /\ UNCHANGED <<timers, loaded, slots, gateVars, bucket>>

Enter(c) ==
  /\ NewCall(c)
  /\ IF WithBreaker THEN Admit(c) ELSE UNCHANGED circuitVars
  /\ Goto(c, "sem")
  /\ result' = [result EXCEPT ![c] = "none"]

FastFail(c) ==
  /\ WithBreaker
  /\ NewCall(c)
  /\ Refuse(c)
  /\ result' = [result EXCEPT ![c] = "open"]
  /\ UNCHANGED pc

AcquireSlot(c) ==
  /\ pc[c] = "sem"
  /\ MaxConcurrent > 0 => slots < MaxConcurrent
  /\ slots' = IF MaxConcurrent > 0 THEN slots + 1 ELSE slots
  /\ Goto(c, "gate")
  /\ UNCHANGED <<callVars, circuitVars, gateVars, bucket>>

\* The wait for a slot is cut, and the call goes on at p.
LeaveQueue(c, p) ==
  /\ pc[c] = "sem"
  /\ MaxConcurrent > 0
  /\ Ended(c)
  /\ result' = [result EXCEPT ![c] = ctx[c]]
  /\ Goto(c, p)
  /\ UNCHANGED <<ctx, kind, attempt, lastErr, seen, timers, loaded, m, shared>>

\* Mutant: the deferred release runs although no slot was taken.
SlotCancelledReleases(c) == LeaveQueue(c, "release")

\* Mutant: the deferred report is installed after the wait for a slot.
SlotCancelledUnreported(c) == LeaveQueue(c, "idle")

\* Mutant: the wait for a slot does not listen to the context.
SlotIgnoresContext(c) == FALSE /\ pc[c] = "sem"

SlotCancelled(c) == LeaveQueue(c, "report")

(***************************************************************************)
(* waitRetryAfterGate                                                      *)
(***************************************************************************)

PassGate(c) ==
  /\ pc[c] = "gate"
  /\ gate = 0
  /\ Goto(c, "token")
  /\ UNCHANGED <<callVars, shared>>

SleepAtGate(c) ==
  /\ pc[c] = "gate"
  /\ gate > 0
  /\ Sleep(c, gate, wanted[c])
  /\ Goto(c, "asleep")
  /\ UNCHANGED <<ctx, kind, attempt, lastErr, seen, result, loaded, m, shared>>

\* Back to the top: the gate may have been extended meanwhile.
WakeAtGate(c) ==
  /\ pc[c] = "asleep"
  /\ sleep[c] = 0
  /\ Goto(c, "gate")
  /\ UNCHANGED <<callVars, shared>>

\* Both waits of an attempt count a failure without an attempt when they are cut.
WaitCancelled(c) ==
  /\ Ended(c)
  /\ Count(c, {"failed", "cancels"})
  /\ Returns(c, ctx[c])
  /\ UNCHANGED <<ctx, kind, attempt, lastErr, seen, loaded, shared>>

CutByStop(c, counted) ==
  /\ stopped
  /\ Count(c, counted)
  /\ Returns(c, "stopped")
  /\ UNCHANGED <<ctx, kind, attempt, lastErr, seen, loaded, shared>>

\* Mutant: ErrStopped is counted as a cancelled wait.
WaitStoppedCancels(c) == CutByStop(c, {"failed", "cancels"})

WaitStopped(c) == CutByStop(c, {"failed"})

GateStopped(c) == pc[c] = "asleep" /\ WaitStopped(c)

GateCancelled(c) == pc[c] = "asleep" /\ WaitCancelled(c)

(***************************************************************************)
(* waitForToken                                                            *)
(***************************************************************************)

Unlimited(c) ==
  /\ pc[c] = "token"
  /\ Capacity = 0
  /\ Goto(c, "send")
  /\ UNCHANGED <<callVars, shared>>

LiveOnArrival(c) ==
  /\ pc[c] = "token"
  /\ Capacity > 0
  /\ ~Ended(c)
  /\ Goto(c, "fast")
  /\ UNCHANGED <<callVars, shared>>

TokenCancelled(c) ==
  /\ pc[c] \in {"token", "blocked"}
  /\ Capacity > 0
  /\ WaitCancelled(c)

TakeToken(c) ==
  /\ pc[c] \in {"fast", "blocked"}
  /\ Take
  /\ Goto(c, "send")
  /\ UNCHANGED <<callVars, circuitVars, slots, gateVars>>

NoToken(c) ==
  /\ pc[c] = "fast"
  /\ tokens = 0
  /\ Goto(c, "blocked")
  /\ UNCHANGED <<callVars, shared>>

TokenStopped(c) == pc[c] = "blocked" /\ WaitStopped(c)

(***************************************************************************)
(* One attempt                                                             *)
(***************************************************************************)

Send(c) ==
  /\ pc[c] = "send"
  /\ Count(c, {"attempts"})
  /\ Goto(c, "wire")
  /\ UNCHANGED <<ctx, kind, attempt, lastErr, seen, result, timers, loaded, shared>>

\* GetBody fails on a retry.
FailToRewind(c, counted) ==
  /\ pc[c] = "send"
  /\ attempt[c] > 0
  /\ Count(c, counted)
  /\ Returns(c, "local")
  /\ UNCHANGED <<ctx, kind, attempt, lastErr, seen, loaded, shared>>

\* Mutant: the failed rewind is not recorded.
RewindFailsUncounted(c) == FailToRewind(c, {"attempts"})

RewindFails(c) == FailToRewind(c, {"attempts", "failed"})

\* The class of a response, and the counter it goes to.
StatusClass(bad) == IF bad /\ StatusFails THEN "bad" ELSE "ok"

StatusCounter(bad) == IF StatusClass(bad) = "bad" THEN "failed" ELSE "ok"

\* A response that asks for no pause (or for which nobody listens).
Respond(c, bad) ==
  /\ pc[c] = "wire"
  /\ Count(c, {StatusCounter(bad)})
  /\ See(c, IF bad THEN "bad" ELSE "ok")
  /\ Returns(c, StatusClass(bad))
  /\ UNCHANGED <<ctx, kind, attempt, lastErr, loaded, shared>>

\* 429 or 503 with the header h.
Throttle(c, h) ==
  /\ pc[c] = "wire"
  /\ RetryAfterMax > 0
  /\ Count(c, {StatusCounter(TRUE)})
  /\ See(c, "bad")
  /\ Sleep(c, Smaller(h.read, RetryAfterMax), Smaller(h.asks, RetryAfterMax))
  /\ Goto(c, "extend")
  /\ UNCHANGED <<ctx, kind, attempt, lastErr, result, loaded, shared>>

\* Mutant: a body that cannot be rewound is sent again.
CanRetryAnyBody(c) == attempt[c] < MaxRetries

CanRetry(c) == attempt[c] < MaxRetries /\ kind[c] = "replay"

\* What backoffFor may return, and what it may not fall below.
Backoffs(c) == BackoffFor(Base, Ceiling, Jitter, attempt[c])

MinBackoff(c) == LeastBackoff(Base, Ceiling, Jitter, attempt[c])

\* Mutant: a header that asks for no delay is obeyed to the letter.
WaitAsAsked(c, backoff) == sleep[c]

\* Mutant: the backoff is added to the pause.
WaitAddsBackoff(c, backoff) == sleep[c] + backoff

\* The time until the gate opens, with the backoff as a floor.
WaitAfterThrottle(c, backoff) == Larger(sleep[c], backoff)

\* After the gate: drain the response, which may panic, wait as long as asked and
\* retry; or return the response.
AfterThrottle(c) ==
  \/ /\ CanRetry(c)
     /\ Count(c, {"retries"})
     /\ \E backoff \in Backoffs(c) :
          Sleep(c, WaitAfterThrottle(c, backoff), Larger(wanted[c], MinBackoff(c)))
     /\ Goto(c, "backoff")
     /\ UNCHANGED result
  \/ /\ \/ CanRetry(c) /\ Returns(c, "latePanic")
        \/ ~CanRetry(c) /\ Returns(c, StatusClass(TRUE))
     /\ UNCHANGED m

\* extendRetryAfterGate: the load, and the return when the gate is late enough.
ExtendLoad(c) ==
  /\ pc[c] = "extend"
  /\ gate < sleep[c]
  /\ loaded' = [loaded EXCEPT ![c] = gate]
  /\ Goto(c, "cas")
  /\ UNCHANGED <<ctx, kind, attempt, lastErr, seen, result, timers, m, shared>>

ExtendNotNeeded(c) ==
  /\ pc[c] = "extend"
  /\ gate >= sleep[c]
  /\ asked' = Larger(asked, wanted[c])
  /\ AfterThrottle(c)
  /\ UNCHANGED <<ctx, kind, attempt, lastErr, seen, loaded>>
  /\ UNCHANGED <<circuitVars, slots, gate, bucket>>

\* Mutant: a plain store instead of the compare-and-swap.
ExtendStores(c) ==
  /\ pc[c] = "cas"
  /\ gate' = sleep[c]
  /\ asked' = Larger(asked, wanted[c])
  /\ AfterThrottle(c)
  /\ UNCHANGED <<ctx, kind, attempt, lastErr, seen, loaded, circuitVars, slots, bucket>>

ExtendSwaps(c) ==
  /\ pc[c] = "cas"
  /\ gate = loaded[c]
  /\ gate' = sleep[c]
  /\ asked' = Larger(asked, wanted[c])
  /\ AfterThrottle(c)
  /\ UNCHANGED <<ctx, kind, attempt, lastErr, seen, loaded, circuitVars, slots, bucket>>

ExtendRetries(c) ==
  /\ pc[c] = "cas"
  /\ gate # loaded[c]
  /\ Goto(c, "extend")
  /\ UNCHANGED <<callVars, shared>>

\* cl.Do returns an error.  One that carries context.Canceled needs a cancelled
\* context; isRetryable or the policy of WithRetryPolicy decides on retryable, or
\* panics.
AttemptFails(c, e, retryable) ==
  /\ pc[c] = "wire"
  /\ e = "netCanceled" => ctx[c] = "canceled"
  /\ lastErr' = [lastErr EXCEPT ![c] = e]
  /\ See(c, e)
  /\ \/ /\ Count(c, {"failed"})
        /\ Returns(c, "latePanic")
     \/ /\ ~retryable \/ kind[c] = "once"
        /\ Count(c, {"failed"})
        /\ Returns(c, e)
     \/ /\ retryable /\ CanRetry(c)
        /\ Count(c, {"failed", "retries"})
        /\ \E backoff \in Backoffs(c) : Sleep(c, backoff, MinBackoff(c))
        /\ Goto(c, "backoff")
        /\ UNCHANGED result
     \/ /\ retryable /\ kind[c] = "replay" /\ attempt[c] = MaxRetries
        /\ Count(c, {"failed"})
        /\ Returns(c, "exhausted")
  /\ UNCHANGED <<ctx, kind, attempt, loaded, shared>>

\* The transport panics, or GetBody on a retry; deferred functions run as on return.
Panics(c) ==
  /\ \/ pc[c] = "wire" /\ UNCHANGED m
     \/ pc[c] = "send" /\ attempt[c] > 0 /\ Count(c, {"attempts"})
  /\ Returns(c, "panic")
  /\ UNCHANGED <<ctx, kind, attempt, lastErr, seen, loaded, shared>>

NextAttempt(c) ==
  /\ pc[c] = "backoff"
  /\ sleep[c] = 0
  /\ attempt' = [attempt EXCEPT ![c] = @ + 1]
  /\ Goto(c, "gate")
  /\ UNCHANGED <<ctx, kind, lastErr, seen, result, timers, loaded, m, shared>>

BackoffCancelled(c) ==
  /\ pc[c] = "backoff"
  /\ Ended(c)
  /\ Returns(c, ctx[c])
  /\ UNCHANGED <<ctx, kind, attempt, lastErr, seen, loaded, m, shared>>

(***************************************************************************)
(* The deferred functions, last installed first                            *)
(***************************************************************************)

Release(c) ==
  /\ pc[c] = "release"
  /\ slots' = IF MaxConcurrent > 0 THEN slots - 1 ELSE slots
  /\ Goto(c, "report")
  /\ UNCHANGED <<callVars, circuitVars, gateVars, bucket>>

\* Mutant: running out of time always blames the downstream.
VerdictBlamesDeadline(c) ==
  CASE result[c] = "ok" -> "success"
    [] result[c] \in {"bad", "net", "deadline", "exhausted"} \cup Panicked -> "failure"
    [] OTHER -> "neutral"

\* Mutant: a wait that Stop cuts blames it.
VerdictBlamesStop(c) ==
  CASE result[c] = "ok" -> "success"
    [] result[c] \in {"bad", "net", "stopped"} \cup Panicked -> "failure"
    [] result[c] \in {"deadline", "exhausted"} /\ lastErr[c] # "none" -> "failure"
    [] OTHER -> "neutral"

\* Mutant: running out of time never blames it, whatever was seen before.
VerdictForgivesDeadline(c) ==
  CASE result[c] = "ok" -> "success"
    [] result[c] \in {"bad", "net"} \cup Panicked -> "failure"
    [] result[c] = "exhausted" /\ lastErr[c] = "net" -> "failure"
    [] OTHER -> "neutral"

\* classifyOutcome, with the escalation of Do: running out of time counts as a
\* failure only after a transport error.
Verdict(c) ==
  CASE result[c] = "ok" -> "success"
    [] result[c] \in {"bad", "net"} \cup Panicked -> "failure"
    [] result[c] = "exhausted" /\ lastErr[c] = "net" -> "failure"
    [] result[c] = "deadline" /\ lastErr[c] # "none" -> "failure"
    [] OTHER -> "neutral"

Report(c) ==
  /\ pc[c] = "report"
  /\ IF WithBreaker THEN Settle(c, Verdict(c)) ELSE UNCHANGED circuitVars
  /\ Goto(c, "idle")
  /\ UNCHANGED <<callVars, slots, gateVars, bucket>>

(***************************************************************************)
(* The specification                                                       *)
(***************************************************************************)

\* The steps a call takes on its own once Do has been entered.
Step(c) ==
  \/ AcquireSlot(c) \/ SlotCancelled(c)
  \/ PassGate(c) \/ SleepAtGate(c) \/ WakeAtGate(c) \/ GateStopped(c) \/ GateCancelled(c)
  \/ Unlimited(c) \/ LiveOnArrival(c) \/ TokenCancelled(c) \/ TakeToken(c) \/ NoToken(c)
  \/ TokenStopped(c)
  \/ Send(c) \/ RewindFails(c)
  \/ \E bad \in BOOLEAN : Respond(c, bad)
  \/ \E h \in Headers : Throttle(c, h)
  \/ ExtendLoad(c) \/ ExtendNotNeeded(c) \/ ExtendSwaps(c) \/ ExtendRetries(c)
  \/ \E e \in TransportErrors, retryable \in BOOLEAN : AttemptFails(c, e, retryable)
  \/ Panics(c)
  \/ NextAttempt(c) \/ BackoffCancelled(c)
  \/ Release(c) \/ Report(c)

ElapseStep == WithBreaker /\ Elapse /\ UNCHANGED <<pc, callVars, slots, gateVars, bucket>>

DoNext ==
  \/ Tick \/ Stop \/ Refill \/ RefillerExits \/ ElapseStep
  \/ \E c \in Callers :
       Enter(c) \/ FastFail(c) \/ CallerCancels(c) \/ DeadlinePasses(c) \/ Step(c)

DoSpec == DoInit /\ [][DoNext]_doVars

\* Time passes, deadlines pass, the bucket is refilled, Go serves the waiters of a
\* channel in order and prefers a context that has ended to a timer that has not
\* fired.  A request may hang on the wire for as long as its context is live:
\* nothing but the Timeout of its client bounds it otherwise
\* (circuitbreaker.go:190-192); once its context ends the transport gives up.
DoFairness ==
  /\ WF_doVars(Tick)
  /\ WF_doVars(Refill)
  /\ \A c \in Callers :
       /\ WF_doVars(DeadlinePasses(c))
       /\ WF_doVars((pc[c] # "wire" \/ Ended(c) \/ ClientTimeout) /\ Step(c))
       /\ SF_doVars(AcquireSlot(c))
       /\ SF_doVars(TakeToken(c))
       /\ SF_doVars(GateCancelled(c))

FairDoSpec == DoSpec /\ DoFairness

(***************************************************************************)
(* Properties                                                              *)
(***************************************************************************)

BoolNat(b) == IF b THEN 1 ELSE 0

Holders == {c \in Callers : pc[c] \in Holding}

\* The slots taken are those of the calls between the semaphore and its deferred
\* release, whichever way each of them leaves, and never more than maxConcurrent
\* (circuitbreaker.go:263-271).
SlotsHeld ==
  MaxConcurrent > 0 =>
    /\ slots = Cardinality(Holders)
    /\ slots <= MaxConcurrent

\* Every attempt and every wait that was cut is accounted for exactly once, at
\* every step of a call: successes and failures add up to the attempts and the
\* cancelled waits, but for the request in flight or lost to a panic, and for
\* the failure that ErrStopped counts.  A panic after the outcome of its attempt
\* was counted loses nothing (circuitbreaker.go:283-328, 340-341, 362-370).
MetricsAddUp ==
  \A c \in Callers :
    m[c].ok + m[c].failed + BoolNat(pc[c] = "wire" \/ result[c] = "panic")
      = m[c].attempts + m[c].cancels + BoolNat(result[c] = "stopped")

\* A request is sent at most MaxRetries + 1 times, every time but the first was
\* announced as a retry, and a body that cannot be rewound is sent once
\* (circuitbreaker.go:343-344, 377-379, 384-385).
AttemptsBounded ==
  \A c \in Callers :
    /\ m[c].attempts <= m[c].retries + 1
    /\ m[c].retries <= MaxRetries
    /\ kind[c] = "once" => m[c].attempts <= 1

\* A call owns its admission, and the probe slot that may come with it, exactly
\* while it is running: no way out of Do forgets to report, and none reports
\* what was not admitted (circuitbreaker.go:237-261).
AdmissionsReported ==
  WithBreaker => \A c \in Callers : role[c] # "out" <=> pc[c] # "idle"

\* The gate never opens before the end of the longest pause a response asked
\* for, up to retryAfterMax, however the extensions of concurrent calls interleave
\* and whatever the integer in the header, as long as it is one of the machine
\* (circuitbreaker.go:403-445).
PauseRemembered == gate >= asked

\* No request is sent again before the pause its response asked for and the
\* backoff of its attempt have passed, even if the response asked for no pause
\* or the gate was swapped late (circuitbreaker.go:344-362, 385-391).
RetriesSpaced == \A c \in Callers : pc[c] = "wire" => wanted[c] = 0

\* Durations survive machine arithmetic: a header asks for its own pause, up to any
\* cap, and a backoff is min(max, base * 2^n), jitter taking at most half of it,
\* although a product or a doubling may leave the range of a Duration
\* (circuitbreaker.go:410-421, options.go:150-168).  Ceilings above half the range are
\* left out: WithExponentialBackoff accepts them, and a base below such a ceiling may
\* come back from the other end (DoAssumption).  Durations do not depend on the calls:
\* one state shows them, for all other options and the attempts that a range of this
\* size tells apart.
DurationsExact ==
  DoInit =>
    /\ \A h \in Headers : HeaderExact(h)
    /\ \A ceiling \in 1 .. MaxDuration \div 2 + 1, n \in 0 .. MaxDuration \div 2 :
         \A base \in 1..ceiling : BackoffExact(base, ceiling, n)

BeginsBackoff(c) == pc[c] # "backoff" /\ pc'[c] = "backoff"

\* A call that goes on to wait for a retry waits no less than it has to: the backoff
\* of the attempt, and the pause its response asked for; and no longer than the
\* backoff, or the cap of the pause if there was one (circuitbreaker.go:332-355,
\* 384-390, options.go:150-168).
WaitsKept ==
  [][\A c \in Callers : BeginsBackoff(c) =>
       LET most == Nominal(Base, Ceiling, attempt[c]) IN
       /\ wanted'[c] <= sleep'[c]
       /\ sleep'[c] <= IF pc[c] = "wire" THEN most ELSE Larger(most, RetryAfterMax)]_doVars

\* A call that extends the gate brings an instant no earlier than its response
\* asked for, and before it swaps has loaded one no later than the one it brings.
ExtensionsOrdered ==
  \A c \in Callers :
    /\ pc[c] \in {"extend", "cas"} => wanted[c] <= sleep[c]
    /\ pc[c] = "cas" => loaded[c] <= sleep[c]

\* What makes the three invariants on slots, admissions and the gate inductive.
DoInv ==
  /\ pc \in [Callers -> Points]
  /\ role \in [Callers -> Roles]
  /\ slots \in Nat
  /\ sleep \in [Callers -> Nat]
  /\ wanted \in [Callers -> Nat]
  /\ loaded \in [Callers -> Nat]
  /\ gate \in Nat
  /\ asked \in Nat
  /\ SlotsHeld
  /\ AdmissionsReported
  /\ PauseRemembered
  /\ ExtensionsOrdered

Finishes(c) == pc[c] = "report" /\ pc'[c] = "idle"

\* What a report did to the circuit.
Blamed == fails' > fails \/ (circuit' = "open" /\ circuit # "open")

Praised == fails' < fails \/ (circuit' = "closed" /\ circuit # "closed")

SawFailure(c) ==
  \/ "net" \in seen[c]
  \/ "bad" \in seen[c] /\ StatusFails
  \/ result[c] \in Panicked

SawSuccess(c) == "ok" \in seen[c] \/ ("bad" \in seen[c] /\ ~StatusFails)

\* The call ends on a failure, or the time of one that has failed runs out.
OwesFailure(c) ==
  /\ WithBreaker
  /\ \/ result[c] \in {"bad"} \cup Panicked
     \/ /\ "net" \in seen[c]
        /\ result[c] \in {"net", "exhausted", "deadline"}
        /\ ctx[c] # "canceled"

\* The circuit learns what the attempts of a call have shown, and nothing else: it
\* counts a failure only for a call that saw a transport error or a failing response,
\* or panicked, and success only for one that saw a good response, since waiting in
\* vain for a slot, a token, the gate or a retry says nothing about the downstream;
\* and a failure that a call ends on, or runs out of time after, is counted unless the
\* caller cancelled (state.go:72-105, circuitbreaker.go:230-260).
VerdictsFollowEvidence ==
  [][\A c \in Callers : Finishes(c) =>
       /\ Blamed => SawFailure(c)
       /\ Praised => SawSuccess(c)
       /\ Counts(c) /\ OwesFailure(c) => Blamed]_doVars

\* A call whose context has ended, or ends at a deadline, returns, even when the slot it
\* waits for is pinned by a request that hangs (circuitbreaker.go:265-269, 461-469,
\* 530-540).
LimitedCallsReturn ==
  \A c \in Callers : (pc[c] # "idle" /\ ctx[c] # "live") ~> (pc[c] = "idle")

\* "A response that blocks pauses ALL the calls until `until`"
\* (circuitbreaker.go:433-436): none goes on to send while the gate is closed.
GatePausesAll ==
  [][\A c \in Callers : pc[c] = "blocked" /\ pc'[c] = "send" => gate = 0]_doVars

\* "Classifies responses with StatusCode >= min as FAILURE in the metrics and in
\* the state machine" (options.go:44-46), and running out of time does not turn
\* the failure of a call neutral (circuitbreaker.go:230-232).
StatusFailureReachesMachine ==
  \A c \in Callers :
    (pc[c] = "report" /\ result[c] = "deadline" /\ m[c].failed > m[c].cancels)
      => Verdict(c) = "failure"
=============================================================================
