------------------------------ MODULE Breaker ------------------------------
(***************************************************************************)
(* breakerState (src/pkg/state.go): the fields behind its mutex, and the   *)
(* two steps that each call of Do takes on it.  A caller reads the clock   *)
(* (the argument of allow), later gets the lock and is admitted or         *)
(* refused, and reports its outcome when its deferred function runs; any   *)
(* number of others may come in between.                                   *)
(***************************************************************************)
EXTENDS Integers, FiniteSets

CONSTANTS
  Callers,    \* the goroutines that call Do
  Threshold,  \* threshold: consecutive failures that open the circuit
  OpenFor,    \* openFor, in ticks of the clock
  MaxProbes,  \* maxProbes: half-open slots
  MaxTime     \* bound of the clock

\* newBreakerState raises the three parameters to at least 1.
ASSUME BreakerAssumption ==
  /\ IsFiniteSet(Callers)
  /\ Threshold \in Nat \ {0}
  /\ OpenFor \in Nat \ {0}
  /\ MaxProbes \in Nat \ {0}
  /\ MaxTime \in Nat

VARIABLES
  clock,        \* what time.Now() returns
  cur,          \* the fields of breakerState
  consecFails,
  openedAt,
  probes,
  gen,
  halfOpenAt,
  phase,        \* per caller: where its call is
  now,          \* the argument of allow
  probe,        \* what allow returned to the call in flight
  probeGen

machine == <<cur, consecFails, openedAt, probes, gen, halfOpenAt>>
local == <<phase, now, probe, probeGen>>
breakerVars == <<clock, machine, local>>

Outcomes == {"neutral", "success", "failure"}

BreakerTypeOK ==
  /\ clock \in Nat
  /\ cur \in {"closed", "open", "half-open"}
  /\ consecFails \in 0..Threshold
  /\ openedAt \in Nat
  /\ probes \in Nat
  /\ gen \in Nat
  /\ halfOpenAt \in Nat
  /\ phase \in [Callers -> {"idle", "entering", "inflight"}]
  /\ now \in [Callers -> Nat]
  /\ probe \in [Callers -> BOOLEAN]
  /\ probeGen \in [Callers -> Nat]

BreakerInit ==
  /\ clock = 0
  /\ cur = "closed"
  /\ consecFails = 0
  /\ openedAt = 0
  /\ probes = 0
  /\ gen = 0
  /\ halfOpenAt = 0
  /\ phase = [c \in Callers |-> "idle"]
  /\ now = [c \in Callers |-> 0]
  /\ probe = [c \in Callers |-> FALSE]
  /\ probeGen = [c \in Callers |-> 0]

Tick ==
  /\ clock < MaxTime
  /\ clock' = clock + 1
  /\ UNCHANGED <<machine, local>>

(***************************************************************************)
(* allow                                                                   *)
(***************************************************************************)

\* time.Now() is evaluated before allow gets the lock.
ReadNow(c) ==
  /\ phase[c] = "idle"
  /\ phase' = [phase EXCEPT ![c] = "entering"]
  /\ now' = [now EXCEPT ![c] = clock]
  /\ UNCHANGED <<clock, machine, probe, probeGen>>

\* allow returns (p, g, nil).
Admitted(c, p, g) ==
  /\ phase[c] = "entering"
  /\ phase' = [phase EXCEPT ![c] = "inflight"]
  /\ probe' = [probe EXCEPT ![c] = p]
  /\ probeGen' = [probeGen EXCEPT ![c] = g]
  /\ UNCHANGED <<clock, now>>

\* Has openFor passed since t, as far as caller c knows?
CooledDown(c, t) == now[c] - t >= OpenFor

SlotsTaken == probes >= MaxProbes

AllowClosed(c) ==
  /\ cur = "closed"
  /\ Admitted(c, FALSE, 0)
  /\ UNCHANGED machine

AllowProbe(c) ==
  /\ cur = "half-open"
  /\ ~SlotsTaken
  /\ probes' = probes + 1
  /\ Admitted(c, TRUE, gen)
  /\ UNCHANGED <<cur, consecFails, openedAt, gen, halfOpenAt>>

\* Mutant: the new generation inherits the start of the old one.
EnterHalfOpenKeepsStart(c) ==
  /\ cur' = "half-open"
  /\ probes' = 1
  /\ gen' = gen + 1
  /\ Admitted(c, TRUE, gen + 1)
  /\ UNCHANGED <<consecFails, openedAt, halfOpenAt>>

\* enterHalfOpen followed by probes++.
EnterHalfOpen(c) ==
  /\ cur' = "half-open"
  /\ probes' = 1
  /\ gen' = gen + 1
  /\ halfOpenAt' = now[c]
  /\ Admitted(c, TRUE, gen + 1)
  /\ UNCHANGED <<consecFails, openedAt>>

AllowAfterCoolDown(c) ==
  /\ cur = "open"
  /\ CooledDown(c, openedAt)
  /\ EnterHalfOpen(c)

AllowExpired(c) ==
  /\ cur = "half-open"
  /\ SlotsTaken
  /\ CooledDown(c, halfOpenAt)
  /\ EnterHalfOpen(c)

\* ErrCircuitOpen: Do returns without touching anything else.
Refuse(c) ==
  /\ phase[c] = "entering"
  /\ \/ cur = "open" /\ ~CooledDown(c, openedAt)
     \/ cur = "half-open" /\ SlotsTaken /\ ~CooledDown(c, halfOpenAt)
  /\ phase' = [phase EXCEPT ![c] = "idle"]
  /\ UNCHANGED <<clock, machine, now, probe, probeGen>>

Allow(c) ==
  \/ AllowClosed(c)
  \/ AllowProbe(c)
  \/ AllowAfterCoolDown(c)
  \/ AllowExpired(c)

(***************************************************************************)
(* report                                                                  *)
(***************************************************************************)

\* Mutant: no generation check.
DisownedNever(c) == FALSE

\* A probe of an earlier generation.
Disowned(c) == probe[c] /\ probeGen[c] # gen

\* Mutant: a late failure is heard while open.
HeardWhileOpen(c) ==
  /\ ~Disowned(c)
  /\ cur = "half-open" => probe[c]

\* Mutant: a call admitted while closed is heard while half-open.
HeardPlain(c) ==
  /\ ~Disowned(c)
  /\ cur # "open"

\* Does the switch of report reach a case that looks at the outcome of c?
Heard(c) ==
  /\ ~Disowned(c)
  /\ \/ cur = "closed"
     \/ cur = "half-open" /\ probe[c]

Done(c) ==
  /\ phase[c] = "inflight"
  /\ phase' = [phase EXCEPT ![c] = "idle"]
  /\ UNCHANGED <<clock, now, probe, probeGen>>

ReportIgnored(c) ==
  /\ ~Heard(c)
  /\ Done(c)
  /\ UNCHANGED machine

ReportSuccess(c) ==
  /\ Heard(c)
  /\ Done(c)
  /\ cur' = "closed"
  /\ consecFails' = 0
  /\ UNCHANGED <<openedAt, probes, gen, halfOpenAt>>

Open ==
  /\ cur' = "open"
  /\ openedAt' = clock

ReportFailure(c) ==
  /\ Heard(c)
  /\ Done(c)
  /\ IF cur = "closed"
       THEN /\ consecFails' = consecFails + 1
            /\ IF consecFails + 1 >= Threshold THEN Open ELSE UNCHANGED <<cur, openedAt>>
       ELSE Open /\ UNCHANGED consecFails
  /\ UNCHANGED <<probes, gen, halfOpenAt>>

\* A local cancellation gives the slot of a probe back and changes nothing else.
ReportNeutral(c) ==
  /\ Heard(c)
  /\ Done(c)
  /\ probes' = IF cur = "half-open" THEN probes - 1 ELSE probes
  /\ UNCHANGED <<cur, consecFails, openedAt, gen, halfOpenAt>>

BreakerNext ==
  \/ Tick
  \/ \E c \in Callers :
       \/ ReadNow(c)
       \/ AllowClosed(c)
       \/ AllowProbe(c)
       \/ AllowAfterCoolDown(c)
       \/ AllowExpired(c)
       \/ Refuse(c)
       \/ ReportIgnored(c)
       \/ ReportSuccess(c)
       \/ ReportFailure(c)
       \/ ReportNeutral(c)

BreakerSpec == BreakerInit /\ [][BreakerNext]_breakerVars

(***************************************************************************)
(* Properties                                                              *)
(***************************************************************************)

InFlight == {c \in Callers : phase[c] = "inflight"}

\* The probes in flight that the current generation admitted.
CurrentProbes == {c \in InFlight : probe[c] /\ probeGen[c] = gen}

\* While half-open the counter of slots is exactly the number of probes of the
\* current generation in flight, and never exceeds maxProbes: late reports of
\* older generations neither free a slot nor drive it negative
\* (state.go:177-179, 187-196).
SlotsExact ==
  cur = "half-open" => /\ probes = Cardinality(CurrentProbes)
                       /\ probes <= MaxProbes

\* What makes the invariant above inductive, and the two properties below true:
\* instants lie in the past, no call holds a generation that has not begun, the
\* threshold is not yet reached while closed, and an open circuit opened no earlier
\* than its last generation began.
BreakerInv ==
  /\ BreakerTypeOK
  /\ openedAt <= clock
  /\ halfOpenAt <= clock
  /\ \A c \in Callers : now[c] <= clock /\ probeGen[c] <= gen
  /\ cur = "closed" => consecFails < Threshold
  /\ cur = "open" => halfOpenAt <= openedAt
  /\ SlotsExact

\* The clock readings with which two generations in a row begin are at least openFor
\* apart, and lie in the past, whether the circuit expires the first one or closes
\* and opens any number of times between them.  What the code keeps apart are these
\* readings: a caller that got the lock late began its generation later than its
\* reading says, so in real time the next one may follow sooner, by as much as that
\* caller was late (state.go:152-156, 165-168).
GenerationsSpaced ==
  [][gen' # gen =>
       /\ gen' = gen + 1
       /\ halfOpenAt' <= clock
       /\ gen > 0 => halfOpenAt' >= halfOpenAt + OpenFor]_breakerVars

\* From the failure that opens the circuit nobody is admitted before openFor has
\* passed, and calls that were already in flight neither restart nor cut the wait
\* when they report (state.go:152-156, 224-226).
CoolDownKept ==
  [][cur = "open" =>
       \/ cur' = "open" /\ openedAt' = openedAt /\ InFlight' \subseteq InFlight
       \/ cur' = "half-open" /\ clock - openedAt >= OpenFor]_breakerVars

(***************************************************************************)
(* Refinement                                                              *)
(***************************************************************************)

RoleOf(c) ==
  IF phase[c] # "inflight" THEN "out"
  ELSE IF ~probe[c] THEN "plain"
  ELSE IF probeGen[c] = gen THEN "probe" ELSE "stale"

\* What Circuit calls elapsed: openFor has passed, on the real clock.
Elapsed ==
  \/ cur = "open" /\ clock - openedAt >= OpenFor
  \/ cur = "half-open" /\ clock - halfOpenAt >= OpenFor

Abstract == INSTANCE Circuit WITH
  circuit <- cur,
  fails <- consecFails,
  elapsed <- Elapsed,
  role <- [c \in Callers |-> RoleOf(c)]

\* The machine of state.go implements the abstract circuit.
ImplementsCircuit == Abstract!CircuitSpec
=============================================================================
