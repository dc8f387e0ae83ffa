------------------------------ MODULE Circuit ------------------------------
(***************************************************************************)
(* What the closed / open / half-open machine of src/pkg/state.go promises *)
(* to the calls of Do, without timestamps, generation numbers or counters  *)
(* of slots: time is one Boolean, and what matters of a call in flight is  *)
(* the role in which it was admitted.  Breaker.tla, which keeps the fields *)
(* of breakerState, implements this specification; Do.tla builds the whole *)
(* call on top of it.                                                      *)
(***************************************************************************)
EXTENDS Naturals, FiniteSets

CONSTANTS
  Callers,    \* the goroutines that call Do
  Threshold,  \* consecutive failures that open the circuit
  MaxProbes   \* probes admitted at once while half-open

\* newBreakerState raises both numbers to at least 1 (state.go:132-140).
ASSUME CircuitAssumption ==
  /\ IsFiniteSet(Callers)
  /\ Threshold \in Nat \ {0}
  /\ MaxProbes \in Nat \ {0}

VARIABLES
  circuit,  \* the state of the machine
  fails,    \* consecutive failures counted while closed
  elapsed,  \* has openFor passed since the circuit opened, or since the
            \* current half-open generation began?
  role      \* per caller: not in flight, or how it was admitted

circuitVars == <<circuit, fails, elapsed, role>>

Outcomes == {"neutral", "success", "failure"}

\* "plain": admitted while closed.  "probe": admitted by the latest half-open
\* generation.  "stale": a probe whose generation has been superseded.
Roles == {"out", "plain", "probe", "stale"}

CircuitTypeOK ==
  /\ circuit \in {"closed", "open", "half-open"}
  /\ fails \in 0..Threshold
  /\ elapsed \in BOOLEAN
  /\ role \in [Callers -> Roles]

Probing == {c \in Callers : role[c] = "probe"}

SlotsFull == Cardinality(Probing) >= MaxProbes

CircuitInit ==
  /\ circuit = "closed"
  /\ fails = 0
  /\ elapsed = FALSE
  /\ role = [c \in Callers |-> "out"]

(***************************************************************************)
(* allow                                                                   *)
(***************************************************************************)

AdmitClosed(c) ==
  /\ role[c] = "out"
  /\ circuit = "closed"
  /\ role' = [role EXCEPT ![c] = "plain"]
  /\ UNCHANGED <<circuit, fails, elapsed>>

AdmitProbe(c) ==
  /\ role[c] = "out"
  /\ circuit = "half-open"
  /\ ~SlotsFull
  /\ role' = [role EXCEPT ![c] = "probe"]
  /\ UNCHANGED <<circuit, fails, elapsed>>

\* Mutant: a generation whose slots are all taken never expires.
NewGenerationNoExpiry(c) ==
  /\ role[c] = "out"
  /\ circuit = "open"
  /\ elapsed
  /\ circuit' = "half-open"
  /\ elapsed' \in BOOLEAN
  /\ role' = [role EXCEPT ![c] = "probe"]
  /\ UNCHANGED fails

\* Mutant: a new generation leaves the probes of the old one in their slots.
NewGenerationKeepsOld(c) ==
  /\ role[c] = "out"
  /\ circuit # "closed"
  /\ elapsed
  /\ circuit' = "half-open"
  /\ elapsed' \in BOOLEAN
  /\ role' = [role EXCEPT ![c] = "probe"]
  /\ UNCHANGED fails

\* The first probe after the cool-down, or the first one after the slots of a
\* generation have been taken for too long: a new generation disowns every
\* probe of the earlier ones.  The instant it counts from is the one its caller
\* read before it got the lock, so it may be born old.
NewGeneration(c) ==
  /\ role[c] = "out"
  /\ \/ circuit = "open"
     \/ circuit = "half-open" /\ SlotsFull
  /\ elapsed
  /\ circuit' = "half-open"
  /\ elapsed' \in BOOLEAN
  /\ role' = [d \in Callers |->
                IF d = c THEN "probe"
                ELSE IF role[d] = "probe" THEN "stale" ELSE role[d]]
  /\ UNCHANGED fails

Admit(c) == AdmitClosed(c) \/ AdmitProbe(c) \/ NewGeneration(c)

\* ErrCircuitOpen.  A call may be refused although openFor has passed: it read
\* the clock before that.
Refuse(c) ==
  /\ role[c] = "out"
  /\ \/ circuit = "open"
     \/ circuit = "half-open" /\ SlotsFull
  /\ UNCHANGED circuitVars

(***************************************************************************)
(* report                                                                  *)
(***************************************************************************)

\* The calls whose outcome the machine listens to.
Counts(c) ==
  \/ circuit = "closed" /\ role[c] \in {"plain", "probe"}
  \/ circuit = "half-open" /\ role[c] = "probe"

Left(c) == role' = [role EXCEPT ![c] = "out"]

\* A neutral outcome, or any outcome of a call the machine does not listen to.
Leave(c) ==
  /\ role[c] # "out"
  /\ Left(c)
  /\ UNCHANGED <<circuit, fails, elapsed>>

Succeed(c) ==
  /\ Counts(c)
  /\ Left(c)
  /\ circuit' = "closed"
  /\ fails' = 0
  /\ elapsed' = FALSE

\* Mutant: counting does not stop at the threshold.
CountFailureForever(c) ==
  /\ Counts(c)
  /\ circuit = "closed"
  /\ Left(c)
  /\ fails' = fails + 1
  /\ UNCHANGED <<circuit, elapsed>>

CountFailure(c) ==
  /\ Counts(c)
  /\ circuit = "closed"
  /\ fails + 1 < Threshold
  /\ Left(c)
  /\ fails' = fails + 1
  /\ UNCHANGED <<circuit, elapsed>>

Trip(c) ==
  /\ Counts(c)
  /\ circuit = "closed" => fails + 1 >= Threshold
  /\ Left(c)
  /\ circuit' = "open"
  /\ fails' = IF circuit = "closed" THEN fails + 1 ELSE fails
  /\ elapsed' = FALSE

Fail(c) == CountFailure(c) \/ Trip(c)

\* The whole report of a call with outcome o.
Settle(c, o) ==
  \/ (o = "neutral" \/ ~Counts(c)) /\ Leave(c)
  \/ o = "success" /\ Succeed(c)
  \/ o = "failure" /\ Fail(c)

Elapse ==
  /\ circuit # "closed"
  /\ ~elapsed
  /\ elapsed' = TRUE
  /\ UNCHANGED <<circuit, fails, role>>

CircuitNext ==
  \/ Elapse
  \/ \E c \in Callers :
       \/ AdmitClosed(c)
       \/ AdmitProbe(c)
       \/ NewGeneration(c)
       \/ \E o \in Outcomes : Settle(c, o)

CircuitSpec == CircuitInit /\ [][CircuitNext]_circuitVars

(***************************************************************************)
(* Properties                                                              *)
(***************************************************************************)

\* Never more than MaxProbes probes own the current half-open generation,
\* whatever became of the probes of earlier generations (state.go:177-179).
ProbesBounded == Cardinality(Probing) <= MaxProbes
=============================================================================
