---------------------------- MODULE CircuitProofs ----------------------------
(***************************************************************************)
(* Proofs about Circuit and those who use it: for any callers, threshold   *)
(* and number of probes it keeps its types and never has more probes than  *)
(* it admits; and however many calls of Do run at once, what they do to    *)
(* the circuit is what Circuit allows and what they do to the bucket is    *)
(* what Limiter allows.  So Do keeps what is shown about both, and may run *)
(* on Breaker and on TokenBucket, which implement them.                    *)
(***************************************************************************)
EXTENDS Do, FiniteSetTheorems, TLAPS

\* The threshold is reached only by opening.
CircuitInv ==
  /\ CircuitTypeOK
  /\ circuit = "closed" => fails < Threshold
  /\ ProbesBounded

LEMMA ProbingFinite == IsFiniteSet(Probing) /\ Cardinality(Probing) \in Nat
<1>1. IsFiniteSet(Probing)
  BY FS_Subset, CircuitAssumption DEF Probing, CircuitAssumption
<1>2. QED
  BY <1>1, FS_CardinalityType

\* A set of probes that loses some is not larger.
LEMMA FewerProbes ==
  ASSUME CircuitInv, Probing' \subseteq Probing
  PROVE  ProbesBounded'
<1>1. Cardinality(Probing') <= Cardinality(Probing) /\ Cardinality(Probing') \in Nat
  BY ProbingFinite, FS_Subset, FS_CardinalityType
<1>2. QED
  BY <1>1, ProbingFinite, CircuitAssumption DEF CircuitInv, ProbesBounded, CircuitAssumption

LEMMA AdmitKeepsInv ==
  ASSUME CircuitInv, NEW c \in Callers, Admit(c)
  PROVE  CircuitInv'
<1> USE DEF CircuitInv, CircuitTypeOK
<1>1. CASE AdmitClosed(c)
  <2>1. Probing' = Probing
    BY <1>1 DEF AdmitClosed, Probing
  <2>2. QED
    BY <1>1, <2>1 DEF AdmitClosed, ProbesBounded, Roles
<1>2. CASE AdmitProbe(c)
  <2>1. Probing' = Probing \cup {c} /\ c \notin Probing
    BY <1>2 DEF AdmitProbe, Probing
  <2>2. Cardinality(Probing') = Cardinality(Probing) + 1
    BY <2>1, ProbingFinite, FS_AddElement
  <2>3. Cardinality(Probing) < MaxProbes
    BY <1>2, ProbingFinite, CircuitAssumption DEF AdmitProbe, SlotsFull, CircuitAssumption
  <2>4. ProbesBounded'
    BY <2>2, <2>3, ProbingFinite, CircuitAssumption DEF ProbesBounded, CircuitAssumption
  <2>5. QED
    BY <1>2, <2>4 DEF AdmitProbe, Roles
<1>3. CASE NewGeneration(c)
  <2>1. Probing' = {c}
    BY <1>3 DEF NewGeneration, Probing
  <2>2. Cardinality(Probing') = 1
    BY <2>1, FS_Singleton
  <2>3. ProbesBounded'
    BY <2>2, CircuitAssumption DEF ProbesBounded, CircuitAssumption
  <2>4. role' \in [Callers -> Roles] /\ circuit' = "half-open" /\ elapsed' \in BOOLEAN /\ fails' = fails
    BY <1>3 DEF NewGeneration, Roles
  <2>5. QED
    BY <2>3, <2>4
<1>4. QED
  BY <1>1, <1>2, <1>3 DEF Admit

LEMMA SettleKeepsInv ==
  ASSUME CircuitInv, NEW c \in Callers, NEW o, Settle(c, o)
  PROVE  CircuitInv'
<1>1. role' = [role EXCEPT ![c] = "out"]
  BY DEF Settle, Leave, Succeed, Fail, CountFailure, Trip, Left
<1>2. ProbesBounded'
  <2>1. Probing' \subseteq Probing
    BY <1>1 DEF Probing, CircuitInv, CircuitTypeOK
  <2>2. QED
    BY <2>1, FewerProbes
<1>3. /\ circuit' \in {"closed", "open", "half-open"}
      /\ elapsed' \in BOOLEAN
      /\ role' \in [Callers -> Roles]
  BY <1>1 DEF CircuitInv, CircuitTypeOK, Roles, Settle, Leave, Succeed, Fail, CountFailure, Trip
<1>4. fails \in 0..Threshold /\ (circuit = "closed" => fails < Threshold) /\ Threshold \in Nat \ {0}
  BY CircuitAssumption DEF CircuitInv, CircuitTypeOK, CircuitAssumption
<1>5. fails' \in 0..Threshold /\ (circuit' = "closed" => fails' < Threshold)
  <2>1. CASE Leave(c)
    BY <1>4, <2>1 DEF Leave
  <2>2. CASE Succeed(c)
    BY <1>4, <2>2 DEF Succeed
  <2>3. CASE CountFailure(c)
    BY <1>4, <2>3 DEF CountFailure
  <2>4. CASE Trip(c)
    BY <1>4, <2>4 DEF Trip
  <2>5. QED
    BY <2>1, <2>2, <2>3, <2>4 DEF Settle, Fail
<1>6. QED
  BY <1>2, <1>3, <1>5 DEF CircuitInv, CircuitTypeOK

LEMMA CircuitNextKeepsInv ==
  ASSUME CircuitInv, [CircuitNext]_circuitVars
  PROVE  CircuitInv'
<1>1. ASSUME NEW c \in Callers, AdmitClosed(c) \/ AdmitProbe(c) \/ NewGeneration(c)
      PROVE  CircuitInv'
  BY <1>1, AdmitKeepsInv DEF Admit
<1>2. ASSUME NEW c \in Callers, NEW o \in Outcomes, Settle(c, o) PROVE CircuitInv'
  BY <1>2, SettleKeepsInv
<1>3. CASE Elapse
  BY <1>3 DEF Elapse, CircuitInv, CircuitTypeOK, ProbesBounded, Probing
<1>4. CASE UNCHANGED circuitVars
  BY <1>4 DEF circuitVars, CircuitInv, CircuitTypeOK, ProbesBounded, Probing
<1>5. QED
  BY <1>1, <1>2, <1>3, <1>4 DEF CircuitNext

LEMMA CircuitInitHasInv == CircuitInit => CircuitInv
<1> SUFFICES ASSUME CircuitInit PROVE CircuitInv
  OBVIOUS
<1>1. Probing = {}
  BY DEF CircuitInit, Probing
<1>2. ProbesBounded
  <2>1. Cardinality(Probing) = 0
    BY <1>1, FS_EmptySet
  <2>2. 0 <= MaxProbes
    BY CircuitAssumption DEF CircuitAssumption
  <2>3. QED
    BY <2>1, <2>2 DEF ProbesBounded
<1>3. fails \in 0..Threshold /\ fails < Threshold
  BY CircuitAssumption DEF CircuitInit, CircuitAssumption
<1>4. /\ circuit \in {"closed", "open", "half-open"}
      /\ elapsed \in BOOLEAN
      /\ role \in [Callers -> Roles]
  BY DEF CircuitInit, Roles
<1>5. QED
  BY <1>2, <1>3, <1>4 DEF CircuitInv, CircuitTypeOK

(***************************************************************************)
(* Theorems                                                                *)
(***************************************************************************)

\* The inductive invariant of the abstract circuit (state.go:147-227).
THEOREM CircuitInvariant == CircuitSpec => []CircuitInv
BY CircuitInitHasInv, CircuitNextKeepsInv, PTL DEF CircuitSpec

\* The count of failures never exceeds the threshold, whatever calls report in
\* whatever order (state.go:203-210).
THEOREM CircuitTypeCorrect == CircuitSpec => []CircuitTypeOK
<1>1. CircuitInv => CircuitTypeOK
  BY DEF CircuitInv
<1>2. QED
  BY <1>1, CircuitInvariant, PTL

\* Never more than MaxProbes probes of the current generation (state.go:158-171).
THEOREM ProbesAlwaysBounded == CircuitSpec => []ProbesBounded
<1>1. CircuitInv => ProbesBounded
  BY DEF CircuitInv
<1>2. QED
  BY <1>1, CircuitInvariant, PTL

(***************************************************************************)
(* Steps of Do                                                             *)
(***************************************************************************)

\* What a call does between admission and report.
Inside(c) == Step(c) /\ ~Report(c)

LEMMA InsideLeavesCircuit ==
  ASSUME NEW c \in Callers, Inside(c)
  PROVE  UNCHANGED circuitVars
<1> USE DEF shared, circuitVars
<1>1. CASE AcquireSlot(c) \/ SlotCancelled(c)
  BY <1>1 DEF AcquireSlot, SlotCancelled, LeaveQueue
<1>2. CASE PassGate(c) \/ SleepAtGate(c) \/ WakeAtGate(c) \/ GateStopped(c) \/ GateCancelled(c)
  BY <1>2 DEF PassGate, SleepAtGate, WakeAtGate, GateStopped, WaitStopped, CutByStop,
              GateCancelled, WaitCancelled
<1>3. CASE Unlimited(c) \/ LiveOnArrival(c) \/ TokenCancelled(c) \/ TakeToken(c) \/ NoToken(c)
  BY <1>3 DEF Unlimited, LiveOnArrival, TokenCancelled, WaitCancelled, TakeToken, NoToken
<1>4. CASE TokenStopped(c) \/ Send(c) \/ RewindFails(c)
  BY <1>4 DEF TokenStopped, WaitStopped, CutByStop, Send, RewindFails, FailToRewind
<1>5. CASE \/ \E bad \in BOOLEAN : Respond(c, bad)
           \/ \E h \in Headers : Throttle(c, h)
           \/ \E e \in TransportErrors, retryable \in BOOLEAN : AttemptFails(c, e, retryable)
           \/ Panics(c)
  BY <1>5 DEF Respond, Throttle, AttemptFails, Panics
<1>6. CASE ExtendLoad(c) \/ ExtendNotNeeded(c) \/ ExtendSwaps(c) \/ ExtendRetries(c)
  BY <1>6 DEF ExtendLoad, ExtendNotNeeded, ExtendSwaps, ExtendRetries
<1>7. CASE NextAttempt(c) \/ BackoffCancelled(c) \/ Release(c)
  BY <1>7 DEF NextAttempt, BackoffCancelled, Release
<1>8. QED
  BY <1>1, <1>2, <1>3, <1>4, <1>5, <1>6, <1>7 DEF Inside, Step

LEMMA VerdictIsOutcome ==
  ASSUME NEW c \in Callers
  PROVE  Verdict(c) \in Outcomes
BY DEF Verdict, Outcomes

LEMMA NextUsesCircuit ==
  ASSUME [DoNext]_doVars
  PROVE  [CircuitNext]_circuitVars
<1>1. CASE UNCHANGED doVars
  BY <1>1 DEF doVars, shared
<1>2. CASE Tick
  BY <1>2 DEF Tick
<1>3. CASE Stop \/ Refill \/ RefillerExits
  BY <1>3 DEF Stop, Refill, RefillerExits, BesideBucket
<1>4. CASE ElapseStep
  BY <1>4 DEF ElapseStep, CircuitNext
<1>5. ASSUME NEW c \in Callers, Enter(c)
      PROVE  [CircuitNext]_circuitVars
  BY <1>5 DEF Enter, Admit, CircuitNext
<1>6. ASSUME NEW c \in Callers, FastFail(c)
      PROVE  [CircuitNext]_circuitVars
  BY <1>6 DEF FastFail, Refuse
<1>7. ASSUME NEW c \in Callers, CallerCancels(c) \/ DeadlinePasses(c)
      PROVE  [CircuitNext]_circuitVars
  BY <1>7 DEF CallerCancels, DeadlinePasses, ContextEnds, shared
<1>8. ASSUME NEW c \in Callers, Report(c)
      PROVE  [CircuitNext]_circuitVars
  BY <1>8, VerdictIsOutcome DEF Report, CircuitNext
<1>9. ASSUME NEW c \in Callers, Step(c)
      PROVE  [CircuitNext]_circuitVars
  BY <1>8, <1>9, InsideLeavesCircuit DEF Inside
<1>10. QED
  BY <1>1, <1>2, <1>3, <1>4, <1>5, <1>6, <1>7, <1>9 DEF DoNext

\* Only TakeToken touches the bucket.
LEMMA StepUsesBucket ==
  ASSUME NEW c \in Callers, Step(c)
  PROVE  [LimiterNext]_bucket
<1> USE DEF shared, bucket
<1>1. CASE AcquireSlot(c) \/ SlotCancelled(c)
  BY <1>1 DEF AcquireSlot, SlotCancelled, LeaveQueue
<1>2. CASE PassGate(c) \/ SleepAtGate(c) \/ WakeAtGate(c) \/ GateStopped(c) \/ GateCancelled(c)
  BY <1>2 DEF PassGate, SleepAtGate, WakeAtGate, GateStopped, WaitStopped, CutByStop,
              GateCancelled, WaitCancelled
<1>3. CASE Unlimited(c) \/ LiveOnArrival(c) \/ TokenCancelled(c) \/ NoToken(c)
  BY <1>3 DEF Unlimited, LiveOnArrival, TokenCancelled, WaitCancelled, NoToken
<1>4. CASE TakeToken(c)
  BY <1>4 DEF TakeToken, LimiterNext
<1>5. CASE TokenStopped(c) \/ Send(c) \/ RewindFails(c)
  BY <1>5 DEF TokenStopped, WaitStopped, CutByStop, Send, RewindFails, FailToRewind
<1>6. CASE \/ \E bad \in BOOLEAN : Respond(c, bad)
           \/ \E h \in Headers : Throttle(c, h)
           \/ \E e \in TransportErrors, retryable \in BOOLEAN : AttemptFails(c, e, retryable)
           \/ Panics(c)
  BY <1>6 DEF Respond, Throttle, AttemptFails, Panics
<1>7. CASE ExtendLoad(c) \/ ExtendNotNeeded(c) \/ ExtendSwaps(c) \/ ExtendRetries(c)
  BY <1>7 DEF ExtendLoad, ExtendNotNeeded, ExtendSwaps, ExtendRetries
<1>8. CASE NextAttempt(c) \/ BackoffCancelled(c) \/ Release(c) \/ Report(c)
  BY <1>8 DEF NextAttempt, BackoffCancelled, Release, Report
<1>9. QED
  BY <1>1, <1>2, <1>3, <1>4, <1>5, <1>6, <1>7, <1>8 DEF Step

LEMMA NextUsesBucket ==
  ASSUME [DoNext]_doVars
  PROVE  [LimiterNext]_bucket
<1>1. CASE UNCHANGED doVars
  BY <1>1 DEF doVars, shared
<1>2. CASE Tick
  BY <1>2 DEF Tick
<1>3. CASE Stop \/ Refill \/ RefillerExits
  BY <1>3 DEF Stop, Refill, RefillerExits, LimiterNext
<1>4. CASE ElapseStep
  BY <1>4 DEF ElapseStep
<1>5. ASSUME NEW c \in Callers,
             Enter(c) \/ FastFail(c) \/ CallerCancels(c) \/ DeadlinePasses(c)
      PROVE  [LimiterNext]_bucket
  BY <1>5 DEF Enter, FastFail, NewCall, CallerCancels, DeadlinePasses, ContextEnds, shared
<1>6. QED
  BY <1>1, <1>2, <1>3, <1>4, <1>5, StepUsesBucket DEF DoNext

(***************************************************************************)
(* Theorems about Do and its layers                                        *)
(***************************************************************************)

\* Calls enter, leave and report to the circuit only as Circuit allows, whatever
\* happens to them in between (circuitbreaker.go:235-261).
THEOREM DoUsesCircuit == DoSpec => CircuitSpec
<1>1. DoInit => CircuitInit
  BY DEF DoInit
<1>2. QED
  BY <1>1, NextUsesCircuit, PTL DEF DoSpec, CircuitSpec

\* Calls take from the bucket, and Stop closes it, only as Limiter allows
\* (circuitbreaker.go:283-300, 497-541).
THEOREM DoUsesLimiter == DoSpec => LimiterSpec
<1>1. DoInit => LimiterInit
  BY DEF DoInit
<1>2. QED
  BY <1>1, NextUsesBucket, PTL DEF DoSpec, LimiterSpec

\* With retries, panics and every other way out of Do, no more than MaxProbes calls
\* are probes of the current generation (circuitbreaker.go:235-261, state.go:158-171).
THEOREM DoBoundsProbes == DoSpec => []ProbesBounded
BY DoUsesCircuit, ProbesAlwaysBounded, PTL
=============================================================================
