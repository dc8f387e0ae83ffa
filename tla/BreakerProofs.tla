--------------------------- MODULE BreakerProofs ---------------------------
(***************************************************************************)
(* Proofs about Breaker: the inductive invariant BreakerInv, what follows  *)
(* from it for every number of callers, threshold, cool-down and number of *)
(* probes, and that the machine of state.go implements Circuit.            *)
(***************************************************************************)
EXTENDS Breaker, FiniteSetTheorems, TLAPS

\* The callers are finitely many, so every set of calls in flight is finite.
LEMMA CurrentProbesFinite ==
  /\ IsFiniteSet(CurrentProbes)
  /\ Cardinality(CurrentProbes) \in Nat
<1>1. CurrentProbes \subseteq Callers
  BY DEF CurrentProbes, InFlight
<1>2. IsFiniteSet(CurrentProbes)
  BY <1>1, FS_Subset, BreakerAssumption DEF BreakerAssumption
<1>3. QED
  BY <1>2, FS_CardinalityType

LEMMA InitEstablishesInv == BreakerInit => BreakerInv
<1> SUFFICES ASSUME BreakerInit PROVE BreakerInv
  OBVIOUS
<1>1. BreakerTypeOK
  BY BreakerAssumption DEF BreakerInit, BreakerTypeOK, BreakerAssumption
<1>2. QED
  BY <1>1, BreakerAssumption DEF BreakerInit, BreakerInv, SlotsExact, BreakerAssumption

\* Reports: the machine stays typed, opens no later than at the threshold and
\* never takes back a slot it has not given.
LEMMA TypeStep == BreakerInv /\ [BreakerNext]_breakerVars => BreakerTypeOK'
<1> SUFFICES ASSUME BreakerInv, [BreakerNext]_breakerVars PROVE BreakerTypeOK'
  OBVIOUS
<1> USE BreakerAssumption DEF BreakerAssumption, BreakerTypeOK, BreakerInv, machine, local
<1>1. CASE Tick
  BY <1>1 DEF Tick
<1>2. ASSUME NEW c \in Callers, ReadNow(c) PROVE BreakerTypeOK'
  BY <1>2 DEF ReadNow
<1>3. ASSUME NEW c \in Callers, AllowClosed(c) PROVE BreakerTypeOK'
  BY <1>3 DEF AllowClosed, Admitted
<1>4. ASSUME NEW c \in Callers, AllowProbe(c) PROVE BreakerTypeOK'
  BY <1>4 DEF AllowProbe, Admitted
<1>5. ASSUME NEW c \in Callers, EnterHalfOpen(c) PROVE BreakerTypeOK'
  BY <1>5 DEF EnterHalfOpen, Admitted
<1>6. ASSUME NEW c \in Callers, Refuse(c) PROVE BreakerTypeOK'
  BY <1>6 DEF Refuse
<1>7. ASSUME NEW c \in Callers, ReportIgnored(c) PROVE BreakerTypeOK'
  BY <1>7 DEF ReportIgnored, Done
<1>8. ASSUME NEW c \in Callers, ReportSuccess(c) PROVE BreakerTypeOK'
  BY <1>8 DEF ReportSuccess, Done
<1>9. ASSUME NEW c \in Callers, ReportFailure(c) PROVE BreakerTypeOK'
  BY <1>9 DEF ReportFailure, Done, Open
<1>10. ASSUME NEW c \in Callers, ReportNeutral(c) PROVE BreakerTypeOK'
  <2>1. CASE cur = "half-open"
    <3>1. c \in CurrentProbes
      BY <1>10, <2>1 DEF ReportNeutral, Heard, Disowned, Done, CurrentProbes, InFlight
    <3>2. Cardinality(CurrentProbes) # 0
      BY <3>1, CurrentProbesFinite, FS_EmptySet
    <3>3. probes \in Nat /\ probes # 0
      BY <2>1, <3>2 DEF SlotsExact
    <3>4. probes' \in Nat
      BY <1>10, <2>1, <3>3 DEF ReportNeutral
    <3>5. QED
      BY <1>10, <3>4 DEF ReportNeutral, Done
  <2>2. CASE cur # "half-open"
    BY <1>10, <2>2 DEF ReportNeutral, Done
  <2>3. QED
    BY <2>1, <2>2
<1>11. CASE UNCHANGED breakerVars
  BY <1>11 DEF breakerVars
<1>12. QED
  BY <1>1, <1>2, <1>3, <1>4, <1>5, <1>6, <1>7, <1>8, <1>9, <1>10, <1>11
  DEF BreakerNext, AllowAfterCoolDown, AllowExpired

\* Every step keeps the slots exact: only a half-open circuit has a promise to
\* keep, and a step either begins a generation, or moves one probe in or out, or
\* leaves the probes of the current generation as they are.
LEMMA SlotsStep == BreakerInv /\ [BreakerNext]_breakerVars => SlotsExact'
<1> SUFFICES ASSUME BreakerInv, [BreakerNext]_breakerVars, cur' = "half-open"
             PROVE  /\ probes' = Cardinality(CurrentProbes')
                    /\ probes' <= MaxProbes
  BY DEF SlotsExact
<1> USE BreakerAssumption DEF BreakerAssumption, BreakerTypeOK, BreakerInv
<1> DEFINE Kept == cur = "half-open" /\ probes' = probes /\ CurrentProbes' = CurrentProbes
           Goal == probes' = Cardinality(CurrentProbes') /\ probes' <= MaxProbes
<1>0. ASSUME Kept PROVE Goal
  BY <1>0 DEF SlotsExact
<1> HIDE DEF Goal
<1>1. ASSUME Tick PROVE Goal
  BY <1>0, <1>1 DEF Tick, machine, local, CurrentProbes, InFlight
<1>2. ASSUME NEW c \in Callers, ReadNow(c) PROVE Goal
  <2>1. CurrentProbes' = CurrentProbes
    BY <1>2 DEF ReadNow, machine, CurrentProbes, InFlight
  <2>2. QED
    BY <1>0, <1>2, <2>1 DEF ReadNow, machine
<1>3. ASSUME NEW c \in Callers, AllowClosed(c) PROVE Goal
  BY <1>3 DEF AllowClosed, machine
<1>4. ASSUME NEW c \in Callers, AllowProbe(c) PROVE Goal
  <2>1. c \notin CurrentProbes
    BY <1>4 DEF AllowProbe, Admitted, CurrentProbes, InFlight
  <2>2. CurrentProbes' = CurrentProbes \cup {c}
    BY <1>4 DEF AllowProbe, Admitted, CurrentProbes, InFlight
  <2>3. Cardinality(CurrentProbes') = Cardinality(CurrentProbes) + 1
    BY <2>1, <2>2, CurrentProbesFinite, FS_AddElement
  <2>4. QED
    BY <1>4, <2>3 DEF AllowProbe, SlotsTaken, SlotsExact, Goal
<1>5. ASSUME NEW c \in Callers, EnterHalfOpen(c) PROVE Goal
  <2>1. \A d \in Callers : probeGen[d] # gen + 1
    OBVIOUS
  <2>2. CurrentProbes' = {c}
    BY <1>5, <2>1 DEF EnterHalfOpen, Admitted, CurrentProbes, InFlight
  <2>3. Cardinality(CurrentProbes') = 1
    BY <2>2, FS_Singleton
  <2>4. QED
    BY <1>5, <2>3 DEF EnterHalfOpen, Goal
<1>6. ASSUME NEW c \in Callers, Refuse(c) PROVE Goal
  <2>1. CurrentProbes' = CurrentProbes
    BY <1>6 DEF Refuse, machine, CurrentProbes, InFlight
  <2>2. QED
    BY <1>0, <1>6, <2>1 DEF Refuse, machine
<1>7. ASSUME NEW c \in Callers, ReportIgnored(c) PROVE Goal
  <2>1. c \notin CurrentProbes
    BY <1>7 DEF ReportIgnored, Heard, Disowned, machine, CurrentProbes
  <2>2. CurrentProbes' = CurrentProbes
    BY <1>7, <2>1 DEF ReportIgnored, Done, machine, CurrentProbes, InFlight
  <2>3. QED
    BY <1>0, <1>7, <2>2 DEF ReportIgnored, machine
<1>8. ASSUME NEW c \in Callers, ReportSuccess(c) PROVE Goal
  BY <1>8 DEF ReportSuccess
<1>9. ASSUME NEW c \in Callers, ReportFailure(c) PROVE Goal
  BY <1>9 DEF ReportFailure, Open
<1>10. ASSUME NEW c \in Callers, ReportNeutral(c) PROVE Goal
  <2>1. cur = "half-open"
    BY <1>10 DEF ReportNeutral
  <2>2. c \in CurrentProbes
    BY <1>10, <2>1 DEF ReportNeutral, Heard, Disowned, Done, CurrentProbes, InFlight
  <2>3. CurrentProbes' = CurrentProbes \ {c}
    BY <1>10 DEF ReportNeutral, Done, CurrentProbes, InFlight
  <2>4. Cardinality(CurrentProbes') = Cardinality(CurrentProbes) - 1
    BY <2>2, <2>3, CurrentProbesFinite, FS_RemoveElement
  <2>5. QED
    BY <1>10, <2>1, <2>4 DEF ReportNeutral, SlotsExact, Goal
<1>11. ASSUME UNCHANGED breakerVars PROVE Goal
  BY <1>0, <1>11 DEF breakerVars, machine, local, CurrentProbes, InFlight
<1>12. QED
  BY <1>1, <1>2, <1>3, <1>4, <1>5, <1>6, <1>7, <1>8, <1>9, <1>10, <1>11
  DEF BreakerNext, AllowAfterCoolDown, AllowExpired, Goal

\* Instants stay in the past, generations in flight have begun, and a closed
\* circuit is below its threshold.
LEMMA PastStep ==
  BreakerInv /\ [BreakerNext]_breakerVars
    => /\ openedAt' <= clock'
       /\ halfOpenAt' <= clock'
       /\ \A c \in Callers : now'[c] <= clock' /\ probeGen'[c] <= gen'
       /\ cur' = "closed" => consecFails' < Threshold
       /\ cur' = "open" => halfOpenAt' <= openedAt'
<1> DEFINE Past == /\ openedAt' <= clock'
                   /\ halfOpenAt' <= clock'
                   /\ \A c \in Callers : now'[c] <= clock' /\ probeGen'[c] <= gen'
                   /\ cur' = "closed" => consecFails' < Threshold
                   /\ cur' = "open" => halfOpenAt' <= openedAt'
<1> SUFFICES ASSUME BreakerInv, [BreakerNext]_breakerVars PROVE Past
  OBVIOUS
<1> USE BreakerAssumption DEF BreakerAssumption, BreakerTypeOK, BreakerInv, machine, local
<1>1. ASSUME Tick PROVE Past
  BY <1>1 DEF Tick
<1>2. ASSUME NEW c \in Callers, ReadNow(c) PROVE Past
  BY <1>2 DEF ReadNow
<1>3. ASSUME NEW c \in Callers, AllowClosed(c) PROVE Past
  BY <1>3 DEF AllowClosed, Admitted
<1>4. ASSUME NEW c \in Callers, AllowProbe(c) PROVE Past
  BY <1>4 DEF AllowProbe, Admitted
<1>5. ASSUME NEW c \in Callers, EnterHalfOpen(c) PROVE Past
  BY <1>5 DEF EnterHalfOpen, Admitted
<1>6. ASSUME NEW c \in Callers, Refuse(c) PROVE Past
  BY <1>6 DEF Refuse
<1>7. ASSUME NEW c \in Callers, ReportIgnored(c) PROVE Past
  BY <1>7 DEF ReportIgnored, Done
<1>8. ASSUME NEW c \in Callers, ReportSuccess(c) PROVE Past
  BY <1>8 DEF ReportSuccess, Done
<1>9. ASSUME NEW c \in Callers, ReportFailure(c) PROVE Past
  BY <1>9 DEF ReportFailure, Done, Open
<1>10. ASSUME NEW c \in Callers, ReportNeutral(c) PROVE Past
  BY <1>10 DEF ReportNeutral, Done
<1>11. ASSUME UNCHANGED breakerVars PROVE Past
  BY <1>11 DEF breakerVars
<1> HIDE DEF Past
<1>12. QED
  BY <1>1, <1>2, <1>3, <1>4, <1>5, <1>6, <1>7, <1>8, <1>9, <1>10, <1>11
  DEF BreakerNext, AllowAfterCoolDown, AllowExpired

LEMMA InvStep == BreakerInv /\ [BreakerNext]_breakerVars => BreakerInv'
  BY TypeStep, SlotsStep, PastStep DEF BreakerInv

\* The inductive invariant holds of every behaviour of the breaker.
THEOREM BreakerInvariant == BreakerSpec => []BreakerInv
<1>1. QED
  BY InitEstablishesInv, InvStep, PTL DEF BreakerSpec

\* Type correctness for every number of callers and all parameters: in particular
\* the counter of slots never goes negative (state.go:126, 222).
THEOREM BreakerTypeCorrect == BreakerSpec => []BreakerTypeOK
<1>1. BreakerInv => BreakerTypeOK
  BY DEF BreakerInv
<1>2. QED
  BY <1>1, BreakerInvariant, PTL

\* Slots are exact and at most maxProbes probes own the half-open circuit.
THEOREM SlotsAlwaysExact == BreakerSpec => []SlotsExact
<1>1. BreakerInv => SlotsExact
  BY DEF BreakerInv
<1>2. QED
  BY <1>1, BreakerInvariant, PTL

\* Only the two ways into half-open begin a generation.
LEMMA SpacingStep ==
  ASSUME BreakerInv, [BreakerNext]_breakerVars, gen' # gen
  PROVE  /\ gen' = gen + 1
         /\ halfOpenAt' <= clock
         /\ gen > 0 => halfOpenAt' >= halfOpenAt + OpenFor
<1> USE BreakerAssumption DEF BreakerAssumption, BreakerTypeOK, BreakerInv, machine, local
<1>1. \E c \in Callers : AllowAfterCoolDown(c) \/ AllowExpired(c)
  <2>1. ~Tick /\ ~UNCHANGED breakerVars
    BY DEF Tick, breakerVars
  <2>2. ASSUME NEW c \in Callers,
               \/ ReadNow(c) \/ AllowClosed(c) \/ AllowProbe(c) \/ Refuse(c)
               \/ ReportIgnored(c) \/ ReportSuccess(c) \/ ReportFailure(c) \/ ReportNeutral(c)
        PROVE  FALSE
    BY <2>2 DEF ReadNow, AllowClosed, AllowProbe, Refuse, ReportIgnored, ReportSuccess,
                ReportFailure, ReportNeutral
  <2>3. QED
    BY <2>1, <2>2 DEF BreakerNext
<1>2. PICK c \in Callers : AllowAfterCoolDown(c) \/ AllowExpired(c)
  BY <1>1
<1>3. gen' = gen + 1 /\ halfOpenAt' = now[c]
  BY <1>2 DEF AllowAfterCoolDown, AllowExpired, EnterHalfOpen
\* The circuit has been open since after the last generation began, or is still in it.
<1>4. now[c] >= halfOpenAt + OpenFor
  BY <1>2 DEF AllowAfterCoolDown, AllowExpired, CooledDown
<1>5. QED
  BY <1>3, <1>4

\* Generations begin with readings of the clock that are at least OpenFor apart, for
\* all parameters and any number of callers (state.go:152-156, 165-168).
THEOREM GenerationsAlwaysSpaced == BreakerSpec => GenerationsSpaced
<1>1. BreakerInv /\ [BreakerNext]_breakerVars
        => [gen' # gen =>
              /\ gen' = gen + 1
              /\ halfOpenAt' <= clock
              /\ gen > 0 => halfOpenAt' >= halfOpenAt + OpenFor]_breakerVars
  BY SpacingStep
<1>2. QED
  BY <1>1, BreakerInvariant, PTL DEF BreakerSpec, GenerationsSpaced

LEMMA CoolDownStep ==
  ASSUME BreakerInv, [BreakerNext]_breakerVars, cur = "open"
  PROVE  \/ cur' = "open" /\ openedAt' = openedAt /\ InFlight' \subseteq InFlight
         \/ cur' = "half-open" /\ clock - openedAt >= OpenFor
<1> DEFINE Still == cur' = "open" /\ openedAt' = openedAt /\ InFlight' \subseteq InFlight
           Over == cur' = "half-open" /\ clock - openedAt >= OpenFor
<1> USE BreakerAssumption DEF BreakerAssumption, BreakerTypeOK, BreakerInv, machine, local
<1>1. Tick \/ UNCHANGED breakerVars => Still
  BY DEF Tick, breakerVars, InFlight
<1>2. ASSUME NEW c \in Callers, ReadNow(c) PROVE Still
  BY <1>2 DEF ReadNow, InFlight
<1>3. ASSUME NEW c \in Callers, AllowAfterCoolDown(c) PROVE Over
  BY <1>3 DEF AllowAfterCoolDown, CooledDown, EnterHalfOpen
<1>4. ASSUME NEW c \in Callers, Refuse(c) PROVE Still
  BY <1>4 DEF Refuse, InFlight
<1>5. ASSUME NEW c \in Callers, ReportIgnored(c) PROVE Still
  BY <1>5 DEF ReportIgnored, Done, InFlight
<1>6. ASSUME NEW c \in Callers,
             \/ AllowClosed(c) \/ AllowProbe(c) \/ AllowExpired(c)
             \/ ReportSuccess(c) \/ ReportFailure(c) \/ ReportNeutral(c)
      PROVE  FALSE
  BY <1>6 DEF AllowClosed, AllowProbe, AllowExpired, ReportSuccess, ReportFailure,
              ReportNeutral, Heard
<1> HIDE DEF Still, Over
<1>7. Still \/ Over
  BY <1>1, <1>2, <1>3, <1>4, <1>5, <1>6 DEF BreakerNext
<1>8. QED
  BY <1>7 DEF Still, Over

\* Nobody gets through an open circuit before its cool-down is over.
THEOREM CoolDownAlwaysKept == BreakerSpec => CoolDownKept
<1>1. BreakerInv /\ [BreakerNext]_breakerVars
        => [cur = "open" =>
              \/ cur' = "open" /\ openedAt' = openedAt /\ InFlight' \subseteq InFlight
              \/ cur' = "half-open" /\ clock - openedAt >= OpenFor]_breakerVars
  BY CoolDownStep
<1>2. QED
  BY <1>1, BreakerInvariant, PTL DEF BreakerSpec, CoolDownKept

(***************************************************************************)
(* Refinement                                                              *)
(***************************************************************************)

Role == [c \in Callers |-> RoleOf(c)]

\* The probes of the abstract circuit are those of the current generation, so
\* the slots of a half-open circuit are full in both or in neither.
LEMMA SlotsAgree ==
  ASSUME BreakerInv, cur = "half-open"
  PROVE  Abstract!SlotsFull <=> SlotsTaken
<1>1. Abstract!Probing = CurrentProbes
  BY DEF Abstract!Probing, CurrentProbes, InFlight, RoleOf
<1>2. Abstract!Cardinality(CurrentProbes) = Cardinality(CurrentProbes)
  BY DEF Abstract!Cardinality, Cardinality
<1>3. QED
  BY <1>1, <1>2, BreakerAssumption
  DEF BreakerInv, SlotsExact, Abstract!SlotsFull, SlotsTaken

\* A call that reports leaves, and no other call changes its role.
LEMMA DoneLeaves ==
  ASSUME NEW c \in Callers, BreakerTypeOK, Done(c), gen' = gen
  PROVE  /\ Role[c] # "out"
         /\ Abstract!Left(c)
<1>1. \A d \in Callers : Role'[d] = [Role EXCEPT ![c] = "out"][d]
  BY DEF Done, Role, RoleOf, BreakerTypeOK
<1>2. Role' = [Role EXCEPT ![c] = "out"]
  BY <1>1 DEF Role
<1>3. QED
  BY <1>2 DEF Abstract!Left, Done, Role, RoleOf

\* The machine hears exactly the calls that count for the abstract circuit.
LEMMA HeardCounts ==
  ASSUME NEW c \in Callers, BreakerTypeOK, phase[c] = "inflight"
  PROVE  Heard(c) <=> Abstract!Counts(c)
  BY DEF Heard, Disowned, Abstract!Counts, RoleOf, BreakerTypeOK

LEMMA AdmissionRefines ==
  ASSUME NEW c \in Callers, BreakerInv, Allow(c)
  PROVE  \/ Abstract!AdmitClosed(c)
         \/ Abstract!AdmitProbe(c)
         \/ Abstract!NewGeneration(c)
<1> USE BreakerAssumption DEF BreakerAssumption, BreakerTypeOK, BreakerInv
<1>1. Role[c] = "out"
  BY DEF Allow, AllowClosed, AllowProbe, AllowAfterCoolDown, AllowExpired, EnterHalfOpen,
         Admitted, Role, RoleOf
<1>2. CASE AllowClosed(c)
  <2>1. \A d \in Callers : Role'[d] = [Role EXCEPT ![c] = "plain"][d]
    BY <1>2 DEF AllowClosed, Admitted, machine, Role, RoleOf
  <2>2. Role' = [Role EXCEPT ![c] = "plain"]
    BY <2>1 DEF Role
  <2>3. QED
    BY <1>1, <1>2, <2>2 DEF AllowClosed, Admitted, machine, Elapsed, Role, Abstract!AdmitClosed
<1>3. CASE AllowProbe(c)
  <2>1. \A d \in Callers : Role'[d] = [Role EXCEPT ![c] = "probe"][d]
    BY <1>3 DEF AllowProbe, Admitted, Role, RoleOf
  <2>2. Role' = [Role EXCEPT ![c] = "probe"]
    BY <2>1 DEF Role
  <2>3. ~Abstract!SlotsFull
    BY <1>3, SlotsAgree DEF AllowProbe
  <2>4. UNCHANGED <<cur, consecFails, Elapsed>>
    BY <1>3 DEF AllowProbe, Admitted, Elapsed
  <2>5. QED
    BY <1>1, <1>3, <2>2, <2>3, <2>4 DEF AllowProbe, Role, Abstract!AdmitProbe
<1>4. ASSUME EnterHalfOpen(c),
             \/ cur = "open" /\ CooledDown(c, openedAt)
             \/ cur = "half-open" /\ SlotsTaken /\ CooledDown(c, halfOpenAt)
      PROVE  Abstract!NewGeneration(c)
  <2>1. \A d \in Callers :
          Role'[d] = IF d = c THEN "probe"
                     ELSE IF Role[d] = "probe" THEN "stale" ELSE Role[d]
    <3>1. \A d \in Callers : probeGen[d] # gen + 1
      OBVIOUS
    <3>2. QED
      BY <1>4, <3>1 DEF EnterHalfOpen, Admitted, Role, RoleOf
  <2>2. Role' = [d \in Callers |-> IF d = c THEN "probe"
                                   ELSE IF Role[d] = "probe" THEN "stale" ELSE Role[d]]
    BY <2>1 DEF Role
  <2>3. \/ cur = "open"
        \/ cur = "half-open" /\ Abstract!SlotsFull
    BY <1>4, SlotsAgree
  <2>4. Elapsed
    BY <1>4 DEF CooledDown, Elapsed
  <2>5. Elapsed' \in BOOLEAN
    BY DEF Elapsed
  <2>6. QED
    BY <1>1, <1>4, <2>2, <2>3, <2>4, <2>5 DEF EnterHalfOpen, Role, Abstract!NewGeneration
<1>5. QED
  BY <1>2, <1>3, <1>4 DEF Allow, AllowAfterCoolDown, AllowExpired

LEMMA ReportRefines ==
  ASSUME NEW c \in Callers, BreakerInv,
         \/ ReportIgnored(c) \/ ReportSuccess(c) \/ ReportFailure(c) \/ ReportNeutral(c)
  PROVE  \E o \in Outcomes : Abstract!Settle(c, o)
<1> USE BreakerAssumption DEF BreakerAssumption, BreakerTypeOK, BreakerInv
<1>1. Done(c) /\ gen' = gen
  BY DEF ReportIgnored, ReportSuccess, ReportFailure, ReportNeutral, machine
<1>2. Role[c] # "out" /\ Abstract!Left(c)
  BY <1>1, DoneLeaves
<1>3. Heard(c) <=> Abstract!Counts(c)
  BY <1>1, HeardCounts DEF Done
<1>4. CASE ReportIgnored(c)
  <2>1. UNCHANGED <<cur, consecFails, Elapsed>>
    BY <1>4 DEF ReportIgnored, Done, machine, Elapsed
  <2>2. Abstract!Leave(c)
    BY <1>2, <2>1 DEF Role, Abstract!Leave
  <2>3. QED
    BY <1>3, <1>4, <2>2 DEF ReportIgnored, Outcomes, Abstract!Settle
<1>5. CASE ReportSuccess(c)
  <2>1. Elapsed' = FALSE
    BY <1>5 DEF ReportSuccess, Elapsed
  <2>2. Abstract!Succeed(c)
    BY <1>2, <1>3, <1>5, <2>1 DEF ReportSuccess, Abstract!Succeed
  <2>3. QED
    BY <2>2 DEF Outcomes, Abstract!Settle
<1>6. CASE ReportFailure(c)
  <2>1. CASE cur = "closed" /\ consecFails + 1 < Threshold
    <3>1. Elapsed' = Elapsed
      BY <1>6, <2>1 DEF ReportFailure, Elapsed
    <3>2. Abstract!CountFailure(c)
      BY <1>2, <1>3, <1>6, <2>1, <3>1 DEF ReportFailure, Abstract!CountFailure
    <3>3. QED
      BY <3>2 DEF Outcomes, Abstract!Settle, Abstract!Fail
  <2>2. CASE ~(cur = "closed" /\ consecFails + 1 < Threshold)
    <3>1. cur' = "open" /\ openedAt' = clock
      BY <1>6, <2>2 DEF ReportFailure, Open
    <3>2. Elapsed' = FALSE
      BY <1>6, <3>1 DEF ReportFailure, Done, Elapsed
    <3>3. Abstract!Trip(c)
      BY <1>2, <1>3, <1>6, <2>2, <3>1, <3>2 DEF ReportFailure, Abstract!Trip
    <3>4. QED
      BY <3>3 DEF Outcomes, Abstract!Settle, Abstract!Fail
  <2>3. QED
    BY <2>1, <2>2
<1>7. CASE ReportNeutral(c)
  <2>1. UNCHANGED <<cur, consecFails, Elapsed>>
    BY <1>7 DEF ReportNeutral, Done, Elapsed
  <2>2. Abstract!Leave(c)
    BY <1>2, <2>1 DEF Role, Abstract!Leave
  <2>3. QED
    BY <2>2 DEF Outcomes, Abstract!Settle
<1>8. QED
  BY <1>4, <1>5, <1>6, <1>7

LEMMA StepRefines ==
  BreakerInv /\ [BreakerNext]_breakerVars => [Abstract!CircuitNext]_(Abstract!circuitVars)
<1> DEFINE Goal == [Abstract!CircuitNext]_(Abstract!circuitVars)
<1> SUFFICES ASSUME BreakerInv, [BreakerNext]_breakerVars PROVE Goal
  OBVIOUS
<1> USE BreakerAssumption DEF BreakerAssumption, BreakerTypeOK, BreakerInv, machine, local
<1>1. ASSUME UNCHANGED <<cur, consecFails, Elapsed, Role>> PROVE Goal
  BY <1>1 DEF Role, Abstract!circuitVars
<1>2. ASSUME Tick PROVE Goal
  <2>1. UNCHANGED <<cur, consecFails, Role>>
    BY <1>2 DEF Tick, Role, RoleOf
  <2>2. CASE Elapsed' = Elapsed
    BY <1>1, <2>1, <2>2
  <2>3. CASE Elapsed' # Elapsed
    <3>1. cur # "closed" /\ ~Elapsed /\ Elapsed' = TRUE
      BY <1>2, <2>3 DEF Tick, Elapsed
    <3>2. Abstract!Elapse
      BY <2>1, <3>1 DEF Role, Abstract!Elapse
    <3>3. QED
      BY <3>2 DEF Abstract!CircuitNext
  <2>4. QED
    BY <2>2, <2>3
<1>3. ASSUME NEW c \in Callers, ReadNow(c) \/ Refuse(c) PROVE Goal
  <2>1. \A d \in Callers : Role'[d] = Role[d]
    BY <1>3 DEF ReadNow, Refuse, Role, RoleOf
  <2>2. Role' = Role
    BY <2>1 DEF Role
  <2>3. QED
    BY <1>1, <1>3, <2>2 DEF ReadNow, Refuse, Elapsed
<1>4. ASSUME NEW c \in Callers, Allow(c) PROVE Goal
  BY <1>4, AdmissionRefines DEF Abstract!CircuitNext
<1>5. ASSUME NEW c \in Callers,
             \/ ReportIgnored(c) \/ ReportSuccess(c) \/ ReportFailure(c) \/ ReportNeutral(c)
      PROVE  Goal
  BY <1>5, ReportRefines DEF Abstract!CircuitNext, Outcomes, Abstract!Outcomes
<1>6. ASSUME UNCHANGED breakerVars PROVE Goal
  BY <1>1, <1>6 DEF breakerVars, Elapsed, Role, RoleOf
<1> HIDE DEF Goal
<1>7. QED
  BY <1>2, <1>3, <1>4, <1>5, <1>6 DEF BreakerNext, Allow

\* state.go implements the abstract circuit, for all parameters.
THEOREM BreakerImplementsCircuit == BreakerSpec => ImplementsCircuit
<1>1. BreakerInit => Abstract!CircuitInit
  BY DEF BreakerInit, Elapsed, RoleOf, Abstract!CircuitInit
<1>2. QED
  BY <1>1, StepRefines, BreakerInvariant, PTL
  DEF BreakerSpec, ImplementsCircuit, Abstract!CircuitSpec
=============================================================================
