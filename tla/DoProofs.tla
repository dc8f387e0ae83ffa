------------------------------ MODULE DoProofs ------------------------------
(***************************************************************************)
(* Proofs about Do: for every number of callers and all limits, the        *)
(* counters of a call account for all its attempts, the circuit is told    *)
(* only what they bear out, slots are given back, admissions are reported, *)
(* no pause is shortened and no request is sent again too early.           *)
(***************************************************************************)
EXTENDS CircuitProofs, WaitsProofs

(***************************************************************************)
(* The counters of a call.  None of this depends on what other calls do:   *)
(* the invariant speaks of what a call keeps to itself.                    *)
(***************************************************************************)

CountTypes ==
  /\ pc \in [Callers -> Points]
  /\ ctx \in [Callers -> Contexts]
  /\ kind \in [Callers -> {"replay", "once"}]
  /\ attempt \in [Callers -> Nat]
  /\ lastErr \in [Callers -> {"none"} \cup TransportErrors]
  /\ seen \in [Callers -> SUBSET (Responses \cup TransportErrors)]
  /\ result \in [Callers -> Results]
  /\ m \in [Callers -> [Counters -> Nat]]
  /\ fails \in Nat

Before == {"sem", "gate", "asleep", "token", "fast", "blocked", "send"}
Answered == {"extend", "cas"}
Over == {"idle", "release", "report"}

\* What the place a call is at says of its attempts and retries.
Progress(c) ==
  /\ attempt[c] <= MaxRetries
  /\ m[c].attempts <= m[c].retries + 1
  /\ m[c].retries <= MaxRetries
  /\ kind[c] = "once" => m[c].attempts <= 1
  /\ kind[c] = "once" /\ pc[c] \notin Over => attempt[c] = 0
  /\ pc[c] \in Before => m[c].attempts = attempt[c] /\ m[c].retries = attempt[c]
  /\ pc[c] \in {"wire"} \cup Answered =>
       m[c].attempts = attempt[c] + 1 /\ m[c].retries = attempt[c]
  /\ pc[c] = "backoff" =>
       /\ m[c].attempts = attempt[c] + 1
       /\ m[c].retries = attempt[c] + 1
       /\ attempt[c] < MaxRetries
       /\ kind[c] = "replay"

Balanced(c) ==
  m[c].ok + m[c].failed + BoolNat(pc[c] = "wire" \/ result[c] = "panic")
    = m[c].attempts + m[c].cancels + BoolNat(result[c] = "stopped")

\* What a call has seen of the downstream is in its last error and its result.
Evidence(c) ==
  /\ pc[c] \notin Over => result[c] = "none"
  /\ pc[c] \in Answered => "bad" \in seen[c]
  /\ lastErr[c] = "net" => "net" \in seen[c]
  /\ lastErr[c] = "netCanceled" => ctx[c] = "canceled"
  /\ "net" \in seen[c] => lastErr[c] # "none"
  /\ result[c] = "ok" => SawSuccess(c)
  /\ result[c] = "bad" => "bad" \in seen[c] /\ StatusFails
  /\ result[c] = "net" => "net" \in seen[c]
  /\ result[c] = "deadline" => ctx[c] = "deadline"

Account(c) == Progress(c) /\ Balanced(c) /\ Evidence(c)

CountInv == CountTypes /\ \A c \in Callers : Account(c)

\* A step of c leaves the others alone.
Own(c) ==
  \A d \in Callers \ {c} :
    UNCHANGED <<pc[d], ctx[d], kind[d], attempt[d], lastErr[d], seen[d], result[d], m[d]>>

(***************************************************************************)
(* Facts about data                                                        *)
(***************************************************************************)

\* Counting adds one to the counters that are named, of the caller only.
LEMMA CountAdds ==
  ASSUME m \in [Callers -> [Counters -> Nat]], NEW c \in Callers, NEW ks, Count(c, ks)
  PROVE  /\ m' \in [Callers -> [Counters -> Nat]]
         /\ \A d \in Callers \ {c} : m'[d] = m[d]
         /\ \A k \in Counters : m'[c][k] = IF k \in ks THEN m[c][k] + 1 ELSE m[c][k]
BY DEF Count

\* The same, one counter at a time.
LEMMA CountsEach ==
  ASSUME m \in [Callers -> [Counters -> Nat]], NEW c \in Callers, NEW ks, Count(c, ks)
  PROVE  /\ m' \in [Callers -> [Counters -> Nat]]
         /\ \A d \in Callers \ {c} : m'[d] = m[d]
         /\ m[c] \in [Counters -> Nat]
         /\ m'[c].attempts = IF "attempts" \in ks THEN m[c].attempts + 1 ELSE m[c].attempts
         /\ m'[c].ok = IF "ok" \in ks THEN m[c].ok + 1 ELSE m[c].ok
         /\ m'[c].failed = IF "failed" \in ks THEN m[c].failed + 1 ELSE m[c].failed
         /\ m'[c].cancels = IF "cancels" \in ks THEN m[c].cancels + 1 ELSE m[c].cancels
         /\ m'[c].retries = IF "retries" \in ks THEN m[c].retries + 1 ELSE m[c].retries
<1>1. /\ m' \in [Callers -> [Counters -> Nat]]
      /\ \A d \in Callers \ {c} : m'[d] = m[d]
      /\ \A k \in Counters : m'[c][k] = IF k \in ks THEN m[c][k] + 1 ELSE m[c][k]
  BY CountAdds
<1>2. QED
  BY <1>1 DEF Counters

LEMMA CountsTwo ==
  ASSUME m \in [Callers -> [Counters -> Nat]], NEW c \in Callers,
         NEW i \in Counters, NEW j \in Counters, Count(c, {i, j})
  PROVE  /\ m' \in [Callers -> [Counters -> Nat]]
         /\ \A d \in Callers \ {c} : m'[d] = m[d]
         /\ \A k \in Counters : m'[c][k] = IF k = i \/ k = j THEN m[c][k] + 1 ELSE m[c][k]
BY DEF Count

(***************************************************************************)
(* Steps that count nothing                                                *)
(***************************************************************************)

\* A call that moves on keeps its account.
LEMMA MovesKeepAccount ==
  ASSUME CountInv, NEW c \in Callers, NEW p \in Points,
         pc' = [pc EXCEPT ![c] = p],
         \/ pc[c] \in Before /\ p \in Before
         \/ pc[c] \in Answered /\ p \in Answered
         \/ pc[c] \in Over /\ p \in Over,
         UNCHANGED <<ctx, kind, attempt, lastErr, seen, result, m>>,
         fails' \in Nat
  PROVE  CountInv'
<1> USE DEF CountInv, CountTypes
<1>1. CountTypes'
  OBVIOUS
<1>2. pc'[c] = p /\ \A d \in Callers \ {c} : pc'[d] = pc[d]
  OBVIOUS
<1>3. ASSUME NEW d \in Callers PROVE Progress(d)'
  <2>1. Progress(d)
    BY DEF Account
  <2>2. QED
    BY <1>2, <2>1 DEF Progress, Before, Answered, Over
<1>4. ASSUME NEW d \in Callers PROVE Balanced(d)'
  <2>1. Balanced(d) /\ (pc'[d] = "wire" <=> pc[d] = "wire")
    BY <1>2 DEF Account, Before, Answered, Over
  <2>2. QED
    BY <2>1 DEF Balanced
<1>5. ASSUME NEW d \in Callers PROVE Evidence(d)'
  <2>1. Evidence(d)
    BY DEF Account
  <2>2. QED
    BY <1>2, <2>1 DEF Evidence, SawSuccess, Before, Answered, Over
<1>6. QED
  BY <1>1, <1>3, <1>4, <1>5 DEF Account

\* The steps of a call that change none of its counters and return nothing.
LEMMA SilentSteps ==
  ASSUME CountInv, NEW c \in Callers,
         \/ AcquireSlot(c) \/ PassGate(c) \/ SleepAtGate(c) \/ WakeAtGate(c)
         \/ Unlimited(c) \/ LiveOnArrival(c) \/ TakeToken(c) \/ NoToken(c)
         \/ ExtendLoad(c) \/ ExtendRetries(c) \/ Release(c)
  PROVE  CountInv'
<1> DEFINE Moves(P, Q) ==
             /\ pc[c] \in P /\ \E p \in Q : pc' = [pc EXCEPT ![c] = p]
             /\ UNCHANGED <<ctx, kind, attempt, lastErr, seen, result, m, fails>>
<1>1. Moves(Before, Before) \/ Moves(Answered, Answered) \/ Moves(Over, Over)
  <2> USE DEF Before, Answered, Over, Goto, callVars, shared, circuitVars, gateVars
  <2>1. CASE AcquireSlot(c)
    BY <2>1 DEF AcquireSlot
  <2>2. CASE PassGate(c) \/ SleepAtGate(c) \/ WakeAtGate(c)
    BY <2>2 DEF PassGate, SleepAtGate, WakeAtGate
  <2>3. CASE Unlimited(c) \/ LiveOnArrival(c) \/ TakeToken(c) \/ NoToken(c)
    BY <2>3 DEF Unlimited, LiveOnArrival, TakeToken, NoToken
  <2>4. CASE ExtendLoad(c) \/ ExtendRetries(c)
    BY <2>4 DEF ExtendLoad, ExtendRetries
  <2>5. CASE Release(c)
    BY <2>5 DEF Release
  <2>6. QED
    BY <2>1, <2>2, <2>3, <2>4, <2>5
<1>2. Before \subseteq Points /\ Answered \subseteq Points /\ Over \subseteq Points
  BY DEF Before, Answered, Over, Points
<1>3. fails' \in Nat /\ UNCHANGED <<ctx, kind, attempt, lastErr, seen, result, m>>
  BY <1>1 DEF CountInv, CountTypes
<1>4. QED
  BY <1>1, <1>2, <1>3, MovesKeepAccount

(***************************************************************************)
(* Steps that count or return                                              *)
(***************************************************************************)

LEMMA OwnStepKeepsInv ==
  ASSUME CountInv, NEW c \in Callers, CountTypes', Own(c), Account(c)'
  PROVE  CountInv'
<1>1. ASSUME NEW d \in Callers \ {c} PROVE Account(d)'
  <2>1. /\ Account(d)
        /\ UNCHANGED <<pc[d], ctx[d], kind[d], attempt[d], lastErr[d], seen[d], result[d], m[d]>>
    BY DEF CountInv, Own
  <2>2. QED
    BY <2>1 DEF Account, Progress, Balanced, Evidence, SawSuccess
<1>2. QED
  BY <1>1 DEF CountInv

\* A call that goes on to its deferred functions, having counted ks.
Ends(c, ks, r) ==
  /\ pc' = [pc EXCEPT ![c] = "release"]
  /\ result' = [result EXCEPT ![c] = r]
  /\ Count(c, ks)
  /\ UNCHANGED <<ctx, kind, attempt>>

LEMMA EndingStep ==
  ASSUME CountInv, NEW c \in Callers, NEW ks \in SUBSET Counters, NEW r \in Results,
         Ends(c, ks, r), pc[c] \notin Over,
         lastErr' \in [Callers -> {"none"} \cup TransportErrors],
         seen' \in [Callers -> SUBSET (Responses \cup TransportErrors)],
         fails' \in Nat,
         \A d \in Callers \ {c} : lastErr'[d] = lastErr[d] /\ seen'[d] = seen[d],
         Progress(c)', Balanced(c)', Evidence(c)'
  PROVE  CountInv'
<1>1. /\ m' \in [Callers -> [Counters -> Nat]]
      /\ \A d \in Callers \ {c} : m'[d] = m[d]
  <2>1. m \in [Callers -> [Counters -> Nat]] /\ Count(c, ks)
    BY DEF CountInv, CountTypes, Ends
  <2>2. QED
    BY <2>1, CountsEach
<1>2. /\ pc' \in [Callers -> Points] /\ result' \in [Callers -> Results]
      /\ \A d \in Callers \ {c} : pc'[d] = pc[d] /\ result'[d] = result[d]
      /\ UNCHANGED <<ctx, kind, attempt>>
  BY DEF Ends, CountInv, CountTypes, Points
<1>3. CountTypes'
  BY <1>1, <1>2 DEF CountInv, CountTypes
<1>4. Own(c)
  BY <1>1, <1>2 DEF Own
<1>5. QED
  BY <1>3, <1>4, OwnStepKeepsInv DEF Account

\* Both waits of an attempt, when they are cut.
LEMMA CutWaits ==
  ASSUME CountInv, NEW c \in Callers,
         GateStopped(c) \/ GateCancelled(c) \/ TokenCancelled(c) \/ TokenStopped(c)
  PROVE  CountInv'
<1> USE DEF CountInv, CountTypes, Before, Over
<1>1. pc[c] \in Before /\ UNCHANGED <<ctx, kind, attempt, lastErr, seen, fails>>
  BY DEF GateStopped, GateCancelled, TokenCancelled, TokenStopped, WaitStopped, WaitCancelled,
         CutByStop, shared, circuitVars
<1>2. CASE GateCancelled(c) \/ TokenCancelled(c)
  <2>1. Ends(c, {"failed", "cancels"}, ctx[c]) /\ ctx[c] \in {"canceled", "deadline"}
    BY <1>2 DEF GateCancelled, TokenCancelled, WaitCancelled, Ends, Returns, Goto, Ended
  <2>2. /\ m'[c].failed = m[c].failed + 1 /\ m'[c].cancels = m[c].cancels + 1
        /\ m'[c].ok = m[c].ok /\ m'[c].attempts = m[c].attempts /\ m'[c].retries = m[c].retries
    <3>1. m \in [Callers -> [Counters -> Nat]] /\ Count(c, {"failed", "cancels"})
      BY <2>1 DEF Ends
    <3>2. \A k \in Counters :
            m'[c][k] = IF k = "failed" \/ k = "cancels" THEN m[c][k] + 1 ELSE m[c][k]
      BY <3>1, CountsTwo DEF Counters
    <3>3. QED
      BY <3>2 DEF Counters
  <2>3. pc'[c] = "release" /\ result'[c] = ctx[c] /\ Account(c) /\ m[c] \in [Counters -> Nat]
    BY <2>1 DEF Ends
  <2>4. Progress(c)'
    BY <1>1, <2>2, <2>3 DEF Account, Progress, Answered, Counters
  <2>5. Balanced(c)'
    BY <1>1, <2>1, <2>2, <2>3 DEF Account, Balanced, BoolNat, Evidence, Counters
  <2>6. Evidence(c)'
    BY <1>1, <2>1, <2>2, <2>3 DEF Account, Evidence, SawSuccess, Answered, Counters
  <2>7. QED
    BY <1>1, <2>1, <2>4, <2>5, <2>6, EndingStep DEF Counters, Results
<1>3. CASE GateStopped(c) \/ TokenStopped(c)
  <2>1. Ends(c, {"failed"}, "stopped")
    BY <1>3 DEF GateStopped, TokenStopped, WaitStopped, CutByStop, Ends, Returns, Goto
  <2>2. /\ m'[c].failed = m[c].failed + 1 /\ m'[c].cancels = m[c].cancels
        /\ m'[c].ok = m[c].ok /\ m'[c].attempts = m[c].attempts /\ m'[c].retries = m[c].retries
    BY <2>1, CountsEach DEF Ends
  <2>3. pc'[c] = "release" /\ result'[c] = "stopped" /\ Account(c) /\ m[c] \in [Counters -> Nat]
    BY <2>1 DEF Ends
  <2>4. Progress(c)'
    BY <1>1, <2>2, <2>3 DEF Account, Progress, Answered, Counters
  <2>5. Balanced(c)'
    BY <1>1, <2>2, <2>3 DEF Account, Balanced, BoolNat, Evidence, Counters
  <2>6. Evidence(c)'
    BY <1>1, <2>2, <2>3 DEF Account, Evidence, SawSuccess, Answered, Counters
  <2>7. QED
    BY <1>1, <2>1, <2>4, <2>5, <2>6, EndingStep DEF Counters, Results
<1>4. QED
  BY <1>2, <1>3

\* A request is sent, and what the transport answers but for an error.
LEMMA AttemptIsCounted ==
  ASSUME CountInv, NEW c \in Callers, Send(c)
  PROVE  CountInv'
<1> USE DEF CountInv, CountTypes
<1>1. /\ pc[c] = "send" /\ pc' = [pc EXCEPT ![c] = "wire"] /\ Count(c, {"attempts"})
      /\ UNCHANGED <<ctx, kind, attempt, lastErr, seen, result, fails>>
  BY DEF Send, Goto, shared, circuitVars
<1>2. /\ m'[c].attempts = m[c].attempts + 1 /\ m'[c].failed = m[c].failed
      /\ m'[c].cancels = m[c].cancels /\ m'[c].ok = m[c].ok /\ m'[c].retries = m[c].retries
  BY <1>1, CountsEach
<1>3. CountTypes' /\ Own(c)
  <2>1. m' \in [Callers -> [Counters -> Nat]] /\ \A d \in Callers \ {c} : m'[d] = m[d]
    BY <1>1, CountsEach
  <2>2. QED
    BY <1>1, <2>1 DEF Own, Points, Responses
<1>4. Account(c) /\ m[c] \in [Counters -> Nat] /\ pc'[c] = "wire"
  BY <1>1
<1>5. Progress(c)'
  BY <1>1, <1>2, <1>4 DEF Account, Progress, Before, Answered, Over, Counters
<1>6. Balanced(c)'
  BY <1>1, <1>2, <1>4 DEF Account, Balanced, BoolNat, Evidence, Over, Counters
<1>7. Evidence(c)'
  BY <1>1, <1>2, <1>4 DEF Account, Evidence, SawSuccess, Answered, Over, Counters
<1>8. QED
  BY <1>3, <1>5, <1>6, <1>7, OwnStepKeepsInv DEF Account

LEMMA RewindIsCounted ==
  ASSUME CountInv, NEW c \in Callers, RewindFails(c)
  PROVE  CountInv'
<1> USE DEF CountInv, CountTypes
<1>1. /\ pc[c] = "send" /\ attempt[c] > 0 /\ UNCHANGED <<ctx, lastErr, seen, fails>>
      /\ Ends(c, {"attempts", "failed"}, "local")
  BY DEF RewindFails, FailToRewind, Ends, Returns, Goto, shared, circuitVars
<1>2. /\ m'[c].attempts = m[c].attempts + 1 /\ m'[c].failed = m[c].failed + 1
      /\ m'[c].cancels = m[c].cancels /\ m'[c].ok = m[c].ok /\ m'[c].retries = m[c].retries
  <2>1. m \in [Callers -> [Counters -> Nat]] /\ Count(c, {"attempts", "failed"})
    BY <1>1 DEF Ends
  <2>2. \A k \in Counters :
          m'[c][k] = IF k = "attempts" \/ k = "failed" THEN m[c][k] + 1 ELSE m[c][k]
    BY <2>1, CountsTwo DEF Counters
  <2>3. QED
    BY <2>2 DEF Counters
<1>3. /\ Account(c) /\ m[c] \in [Counters -> Nat] /\ UNCHANGED <<kind, attempt>>
      /\ pc'[c] = "release" /\ result'[c] = "local"
  BY <1>1 DEF Ends
<1>4. Progress(c)'
  BY <1>1, <1>2, <1>3 DEF Account, Progress, Before, Answered, Over, Counters
<1>5. Balanced(c)'
  <2>1. m[c].ok + m[c].failed = m[c].attempts + m[c].cancels
    BY <1>1, <1>3 DEF Account, Balanced, BoolNat, Evidence, Over, Counters
  <2>2. m[c].ok \in Nat /\ m[c].failed \in Nat /\ m[c].attempts \in Nat /\ m[c].cancels \in Nat
    BY <1>3 DEF Counters
  <2>3. m'[c].ok + m'[c].failed = m'[c].attempts + m'[c].cancels
    <3> HIDE DEF CountInv, CountTypes
    <3>1. QED
      BY <1>2, <2>1, <2>2
  <2>4. QED
    BY <1>3, <2>3 DEF Balanced, BoolNat
<1>6. Evidence(c)'
  BY <1>1, <1>2, <1>3 DEF Account, Evidence, SawSuccess, Answered, Over, Counters
<1>7. QED
  BY <1>1, <1>4, <1>5, <1>6, EndingStep DEF Counters, Results, Over

LEMMA ResponseIsCounted ==
  ASSUME CountInv, NEW c \in Callers, NEW bad \in BOOLEAN, Respond(c, bad)
  PROVE  CountInv'
<1> USE DEF CountInv, CountTypes
<1>1. /\ pc[c] = "wire" /\ UNCHANGED <<ctx, lastErr, fails>>
      /\ \E x \in Responses : /\ seen' = [seen EXCEPT ![c] = seen[c] \cup {x}]
                              /\ IF x = "bad" /\ StatusFails THEN Ends(c, {"failed"}, "bad")
                                                             ELSE Ends(c, {"ok"}, "ok")
  BY DEF Respond, See, Responses, StatusCounter, StatusClass, Ends, Returns, Goto, shared,
         circuitVars
<1>2. PICK x \in Responses : /\ seen' = [seen EXCEPT ![c] = seen[c] \cup {x}]
                            /\ IF x = "bad" /\ StatusFails THEN Ends(c, {"failed"}, "bad")
                                                           ELSE Ends(c, {"ok"}, "ok")
  BY <1>1
<1>3. /\ Account(c) /\ m[c] \in [Counters -> Nat] /\ pc'[c] = "release"
      /\ seen' \in [Callers -> SUBSET (Responses \cup TransportErrors)]
      /\ \A d \in Callers \ {c} : seen'[d] = seen[d]
      /\ seen'[c] = seen[c] \cup {x} /\ x \in {"ok", "bad"}
  BY <1>2 DEF Ends, Responses
<1>4. CASE x = "bad" /\ StatusFails
  <2>1. /\ m'[c].attempts = m[c].attempts /\ m'[c].failed = m[c].failed + 1
        /\ m'[c].cancels = m[c].cancels /\ m'[c].ok = m[c].ok /\ m'[c].retries = m[c].retries
        /\ UNCHANGED <<kind, attempt>> /\ result'[c] = "bad"
    BY <1>2, <1>4, CountsEach DEF Ends
  <2>2. Progress(c)'
    BY <1>1, <1>3, <2>1 DEF Account, Progress, Before, Answered, Over, Counters
  <2>3. Balanced(c)'
    BY <1>1, <1>3, <2>1 DEF Account, Balanced, BoolNat, Evidence, Over, Counters
  <2>4. Evidence(c)'
    BY <1>1, <1>3, <1>4, <2>1 DEF Account, Evidence, SawSuccess, Answered, Over
  <2>5. QED
    BY <1>1, <1>2, <1>3, <1>4, <2>2, <2>3, <2>4, EndingStep DEF Counters, Results, Over
<1>5. CASE ~(x = "bad" /\ StatusFails)
  <2>1. /\ m'[c].attempts = m[c].attempts /\ m'[c].failed = m[c].failed
        /\ m'[c].cancels = m[c].cancels /\ m'[c].ok = m[c].ok + 1 /\ m'[c].retries = m[c].retries
        /\ UNCHANGED <<kind, attempt>> /\ result'[c] = "ok"
    BY <1>2, <1>5, CountsEach DEF Ends
  <2>2. Progress(c)'
    BY <1>1, <1>3, <2>1 DEF Account, Progress, Before, Answered, Over, Counters
  <2>3. Balanced(c)'
    BY <1>1, <1>3, <2>1 DEF Account, Balanced, BoolNat, Evidence, Over, Counters
  <2>4. Evidence(c)'
    BY <1>1, <1>3, <1>5, <2>1 DEF Account, Evidence, SawSuccess, Answered, Over
  <2>5. QED
    BY <1>1, <1>2, <1>3, <1>5, <2>2, <2>3, <2>4, EndingStep DEF Counters, Results, Over
<1>6. QED
  BY <1>4, <1>5

\* A response that closes the gate is counted before it does.
LEMMA ThrottleIsCounted ==
  ASSUME CountInv, NEW c \in Callers, NEW h, Throttle(c, h)
  PROVE  CountInv'
<1> USE DEF CountInv, CountTypes
<1>1. /\ pc[c] = "wire" /\ pc' = [pc EXCEPT ![c] = "extend"]
      /\ Count(c, {IF StatusFails THEN "failed" ELSE "ok"})
      /\ seen' = [seen EXCEPT ![c] = @ \cup {"bad"}]
      /\ UNCHANGED <<ctx, kind, attempt, lastErr, result, fails>>
  BY DEF Throttle, See, StatusCounter, StatusClass, Goto, shared, circuitVars
<1>2. /\ m'[c].attempts = m[c].attempts /\ m'[c].cancels = m[c].cancels
      /\ m'[c].retries = m[c].retries
      /\ IF StatusFails THEN m'[c].failed = m[c].failed + 1 /\ m'[c].ok = m[c].ok
                        ELSE m'[c].failed = m[c].failed /\ m'[c].ok = m[c].ok + 1
  BY <1>1, CountsEach
<1>3. CountTypes' /\ Own(c)
  <2>1. m' \in [Callers -> [Counters -> Nat]] /\ \A d \in Callers \ {c} : m'[d] = m[d]
    BY <1>1, CountsEach
  <2>2. QED
    BY <1>1, <2>1 DEF Own, Points, Responses
<1>4. Account(c) /\ m[c] \in [Counters -> Nat] /\ pc'[c] = "extend"
  BY <1>1
<1>5. Progress(c)'
  BY <1>1, <1>2, <1>4 DEF Account, Progress, Before, Answered, Over, Counters
<1>6. Balanced(c)'
  BY <1>1, <1>2, <1>4 DEF Account, Balanced, BoolNat, Evidence, Over, Counters
<1>7. Evidence(c)'
  BY <1>1, <1>2, <1>4 DEF Account, Evidence, SawSuccess, Answered, Over, Counters
<1>8. QED
  BY <1>3, <1>5, <1>6, <1>7, OwnStepKeepsInv DEF Account

\* A call that is to try again announces it.
Retries(c, ks) ==
  /\ CanRetry(c)
  /\ pc' = [pc EXCEPT ![c] = "backoff"]
  /\ Count(c, ks)
  /\ UNCHANGED <<ctx, kind, attempt, result>>

LEMMA ThrottledCallGoesOn ==
  ASSUME CountInv, NEW c \in Callers, ExtendNotNeeded(c) \/ ExtendSwaps(c)
  PROVE  CountInv'
<1> USE DEF CountInv, CountTypes
<1>1. /\ pc[c] \in Answered /\ UNCHANGED <<ctx, kind, attempt, lastErr, seen, fails>>
      /\ AfterThrottle(c)
  BY DEF ExtendNotNeeded, ExtendSwaps, Answered, circuitVars
<1>2. Account(c) /\ m[c] \in [Counters -> Nat]
  OBVIOUS
<1>3. CASE Retries(c, {"retries"})
  <2>1. CanRetry(c) /\ Count(c, {"retries"}) /\ pc' = [pc EXCEPT ![c] = "backoff"]
    BY <1>3 DEF Retries
  <2>2. /\ m'[c].attempts = m[c].attempts /\ m'[c].failed = m[c].failed
        /\ m'[c].cancels = m[c].cancels /\ m'[c].ok = m[c].ok /\ m'[c].retries = m[c].retries + 1
    BY <2>1, CountsEach
  <2>3. /\ CountTypes' /\ Own(c) /\ pc'[c] = "backoff"
        /\ UNCHANGED <<kind, attempt, lastErr, result>>
    BY <1>1, <1>3, <2>1, CountsEach DEF Own, Points, Retries
  <2>4. Progress(c)'
    BY <1>1, <1>2, <2>1, <2>2, <2>3, DoAssumption
    DEF Account, Progress, CanRetry, Before, Answered, Over, Counters, DoAssumption
  <2>5. Balanced(c)'
    BY <1>1, <1>2, <2>2, <2>3 DEF Account, Balanced, BoolNat, Answered, Counters
  <2>6. Evidence(c)'
    BY <1>1, <1>2, <2>2, <2>3 DEF Account, Evidence, SawSuccess, Answered, Over, Counters
  <2>7. QED
    BY <2>3, <2>4, <2>5, <2>6, OwnStepKeepsInv DEF Account
<1>4. ASSUME NEW r \in {StatusClass(TRUE), "latePanic"}, pc' = [pc EXCEPT ![c] = "release"],
             result' = [result EXCEPT ![c] = r], m' = m
      PROVE  CountInv'
  <2>1. r \in {IF StatusFails THEN "bad" ELSE "ok", "latePanic"}
    BY <1>4 DEF StatusClass
  <2>2. CountTypes' /\ Own(c) /\ pc'[c] = "release" /\ result'[c] = r
    BY <1>1, <1>4, <2>1 DEF Own, Points, Results, Panicked
  <2>3. Progress(c)'
    BY <1>1, <1>2, <1>4, <2>2 DEF Account, Progress, Before, Answered, Over, Counters
  <2>4. Balanced(c)'
    BY <1>1, <1>2, <1>4, <2>1, <2>2 DEF Account, Balanced, BoolNat, Evidence, Answered, Over
  <2>5. Evidence(c)'
    BY <1>1, <1>2, <1>4, <2>1, <2>2 DEF Account, Evidence, SawSuccess, Answered, Over
  <2>6. QED
    BY <2>2, <2>3, <2>4, <2>5, OwnStepKeepsInv DEF Account
<1>5. QED
  BY <1>1, <1>3, <1>4 DEF AfterThrottle, Retries, Returns, Goto

\* An error of the transport counts a failure, and a retry or an end.
LEMMA ErrorIsCounted ==
  ASSUME CountInv, NEW c \in Callers, NEW e \in TransportErrors, NEW retryable \in BOOLEAN,
         AttemptFails(c, e, retryable)
  PROVE  CountInv'
<1> USE DEF CountInv, CountTypes
<1>1. /\ pc[c] = "wire" /\ UNCHANGED <<ctx, kind, attempt, fails>>
      /\ lastErr' = [lastErr EXCEPT ![c] = e]
      /\ seen' = [seen EXCEPT ![c] = seen[c] \cup {e}]
      /\ e = "netCanceled" => ctx[c] = "canceled"
      /\ \/ Retries(c, {"failed", "retries"})
         \/ \E r \in {e, "exhausted", "latePanic"} : Ends(c, {"failed"}, r)
  BY DEF AttemptFails, See, Ends, Returns, Retries, Goto, shared, circuitVars
<1>2. /\ Account(c) /\ m[c] \in [Counters -> Nat] /\ e \in {"net", "netCanceled"}
      /\ seen' \in [Callers -> SUBSET (Responses \cup TransportErrors)]
      /\ \A d \in Callers \ {c} : seen'[d] = seen[d] /\ lastErr'[d] = lastErr[d]
      /\ seen'[c] = seen[c] \cup {e} /\ lastErr'[c] = e
  BY <1>1 DEF TransportErrors
<1>3. CASE Retries(c, {"failed", "retries"})
  <2>1. CanRetry(c) /\ Count(c, {"failed", "retries"}) /\ pc' = [pc EXCEPT ![c] = "backoff"]
    BY <1>3 DEF Retries
  <2>2. /\ m'[c].attempts = m[c].attempts /\ m'[c].failed = m[c].failed + 1
        /\ m'[c].cancels = m[c].cancels /\ m'[c].ok = m[c].ok /\ m'[c].retries = m[c].retries + 1
    <3>1. m \in [Callers -> [Counters -> Nat]] /\ Count(c, {"failed", "retries"})
      BY <2>1
    <3>2. \A k \in Counters :
            m'[c][k] = IF k = "failed" \/ k = "retries" THEN m[c][k] + 1 ELSE m[c][k]
      BY <3>1, CountsTwo DEF Counters
    <3>3. QED
      BY <3>2 DEF Counters
  <2>3. CountTypes' /\ Own(c) /\ pc'[c] = "backoff" /\ UNCHANGED <<kind, attempt, result>>
    BY <1>1, <1>3, <2>1, CountsEach DEF Own, Points, Retries
  <2>4. Progress(c)'
    BY <1>1, <1>2, <2>1, <2>2, <2>3, DoAssumption
    DEF Account, Progress, CanRetry, Before, Answered, Over, Counters, DoAssumption
  <2>5. Balanced(c)'
    BY <1>1, <1>2, <2>2, <2>3 DEF Account, Balanced, BoolNat, Evidence, Over, Counters
  <2>6. Evidence(c)'
    BY <1>1, <1>2, <2>2, <2>3 DEF Account, Evidence, SawSuccess, Answered, Over, Counters
  <2>7. QED
    BY <2>3, <2>4, <2>5, <2>6, OwnStepKeepsInv DEF Account
<1>4. ASSUME NEW r \in {e, "exhausted", "latePanic"}, Ends(c, {"failed"}, r)
      PROVE  CountInv'
  <2>1. Count(c, {"failed"})
    BY <1>4 DEF Ends
  <2>2. /\ m'[c].attempts = m[c].attempts /\ m'[c].failed = m[c].failed + 1
        /\ m'[c].cancels = m[c].cancels /\ m'[c].ok = m[c].ok /\ m'[c].retries = m[c].retries
    BY <2>1, CountsEach
  <2>3. /\ pc'[c] = "release" /\ result'[c] = r /\ UNCHANGED <<kind, attempt>>
        /\ r \in {e, "exhausted", "latePanic"}
    BY <1>4 DEF Ends, TransportErrors
  <2>4. Progress(c)'
    BY <1>1, <1>2, <2>2, <2>3 DEF Account, Progress, Before, Answered, Over, Counters
  <2>5. Balanced(c)'
    BY <1>1, <1>2, <2>2, <2>3 DEF Account, Balanced, BoolNat, Evidence, Over, Counters
  <2>6. Evidence(c)'
    BY <1>1, <1>2, <2>2, <2>3 DEF Account, Evidence, SawSuccess, Answered, Over, Counters
  <2>7. r \in Results /\ pc[c] \notin Over /\ {"failed"} \in SUBSET Counters
    BY <1>1, <2>3 DEF Results, Panicked, Over, Counters, TransportErrors
  <2>8. QED
    BY <1>1, <1>2, <1>4, <2>4, <2>5, <2>6, <2>7, EndingStep
<1>5. QED
  BY <1>1, <1>3, <1>4

\* A panic loses the outcome of an attempt that was counted before, or is now.
LEMMA PanicIsCounted ==
  ASSUME CountInv, NEW c \in Callers, Panics(c)
  PROVE  CountInv'
<1> USE DEF CountInv, CountTypes
<1>1. /\ UNCHANGED <<ctx, kind, attempt, lastErr, seen, fails>>
      /\ pc' = [pc EXCEPT ![c] = "release"] /\ result' = [result EXCEPT ![c] = "panic"]
      /\ \/ pc[c] = "wire" /\ m' = m
         \/ pc[c] = "send" /\ Count(c, {"attempts"})
  BY DEF Panics, Returns, Goto, shared, circuitVars
<1>2. /\ m' \in [Callers -> [Counters -> Nat]]
      /\ \A d \in Callers \ {c} : m'[d] = m[d]
      /\ m'[c].attempts = m[c].attempts + IF pc[c] = "wire" THEN 0 ELSE 1
      /\ m'[c].failed = m[c].failed /\ m'[c].cancels = m[c].cancels
      /\ m'[c].ok = m[c].ok /\ m'[c].retries = m[c].retries
  <2>1. CASE pc[c] = "wire" /\ m' = m
    BY <2>1 DEF Counters
  <2>2. CASE pc[c] = "send" /\ Count(c, {"attempts"})
    BY <2>2, CountsEach
  <2>3. QED
    BY <1>1, <2>1, <2>2
<1>3. /\ Account(c) /\ m[c] \in [Counters -> Nat] /\ pc'[c] = "release"
      /\ result'[c] = "panic" /\ UNCHANGED <<kind[c], attempt[c]>>
  BY <1>1
<1>4. CountTypes' /\ Own(c)
  BY <1>1, <1>2 DEF Own, Points, Results, Panicked
<1>5. Progress(c)'
  BY <1>1, <1>2, <1>3 DEF Account, Progress, Before, Answered, Over, Counters
<1>6. Balanced(c)'
  BY SMTT(30), <1>1, <1>2, <1>3 DEF Account, Balanced, BoolNat, Evidence, Over, Counters
<1>7. Evidence(c)'
  BY <1>1, <1>3 DEF Account, Evidence, SawSuccess, Answered, Over
<1>8. QED
  BY <1>4, <1>5, <1>6, <1>7, OwnStepKeepsInv DEF Account

\* A backoff that is cut, and a wait for a slot that is cut, count nothing.
LEMMA UncountedEnds ==
  ASSUME CountInv, NEW c \in Callers, BackoffCancelled(c) \/ SlotCancelled(c)
  PROVE  CountInv'
<1> USE DEF CountInv, CountTypes
<1>1. /\ UNCHANGED <<ctx, kind, attempt, lastErr, seen, m, fails>>
      /\ \E p \in {"release", "report"} : pc' = [pc EXCEPT ![c] = p]
      /\ pc[c] \in {"backoff", "sem"} /\ ctx[c] \in {"canceled", "deadline"}
      /\ result' = [result EXCEPT ![c] = ctx[c]]
  BY DEF BackoffCancelled, SlotCancelled, LeaveQueue, Ended, Returns, Goto, shared, circuitVars
<1>2. Account(c) /\ m[c] \in [Counters -> Nat] /\ pc'[c] \in {"release", "report"}
  BY <1>1
<1>3. CountTypes' /\ Own(c)
  BY <1>1 DEF Own, Points, Results
<1>4. Progress(c)'
  BY <1>1, <1>2 DEF Account, Progress, Before, Answered, Over, Counters
<1>5. Balanced(c)'
  BY <1>1, <1>2 DEF Account, Balanced, BoolNat, Evidence, Over, Counters
<1>6. Evidence(c)'
  BY <1>1, <1>2 DEF Account, Evidence, SawSuccess, Answered, Over
<1>7. QED
  BY <1>3, <1>4, <1>5, <1>6, OwnStepKeepsInv DEF Account

\* The loop variable follows the retries.
LEMMA AttemptsAdvance ==
  ASSUME CountInv, NEW c \in Callers, NextAttempt(c)
  PROVE  CountInv'
<1> USE DEF CountInv, CountTypes
<1>1. /\ UNCHANGED <<ctx, kind, lastErr, seen, result, m, fails>>
      /\ pc[c] = "backoff" /\ pc' = [pc EXCEPT ![c] = "gate"]
      /\ attempt' = [attempt EXCEPT ![c] = attempt[c] + 1]
  BY DEF NextAttempt, Goto, shared, circuitVars
<1>2. /\ Account(c) /\ m[c] \in [Counters -> Nat] /\ pc'[c] = "gate"
      /\ attempt'[c] = attempt[c] + 1
  BY <1>1
<1>3. CountTypes' /\ Own(c)
  BY <1>1 DEF Own, Points
<1>4. Progress(c)'
  BY <1>1, <1>2, DoAssumption DEF Account, Progress, Before, Answered, Over, Counters, DoAssumption
<1>5. Balanced(c)'
  BY <1>1, <1>2 DEF Account, Balanced, BoolNat, Evidence, Over, Counters
<1>6. Evidence(c)'
  BY <1>1, <1>2 DEF Account, Evidence, SawSuccess, Answered, Over, Counters
<1>7. QED
  BY <1>3, <1>4, <1>5, <1>6, OwnStepKeepsInv DEF Account

(***************************************************************************)
(* A call begins and ends                                                  *)
(***************************************************************************)

\* A new call has counted nothing; one that is refused is over at once.
LEMMA NewCallCountsNothing ==
  ASSUME CountInv, NEW c \in Callers, Enter(c) \/ FastFail(c)
  PROVE  CountInv'
<1> USE DEF CountInv, CountTypes
<1>1. /\ m' = [m EXCEPT ![c] = NoCounts]
      /\ attempt' = [attempt EXCEPT ![c] = 0]
      /\ lastErr' = [lastErr EXCEPT ![c] = "none"]
      /\ seen' = [seen EXCEPT ![c] = {}]
      /\ \E x \in Contexts : ctx' = [ctx EXCEPT ![c] = x]
      /\ \E k \in {"replay", "once"} : kind' = [kind EXCEPT ![c] = k]
  BY DEF Enter, FastFail, NewCall, Bounded, Contexts
<1>2. \/ pc'[c] = "sem" /\ result'[c] = "none"
      \/ pc'[c] = "idle" /\ result'[c] = "open"
  BY DEF Enter, FastFail, NewCall, Goto
<1>3. /\ pc' \in [Callers -> Points] /\ result' \in [Callers -> Results]
      /\ \A d \in Callers \ {c} : pc'[d] = pc[d] /\ result'[d] = result[d]
  BY DEF Enter, FastFail, NewCall, Goto, Points, Results
<1>4. fails' = fails
  BY DEF Enter, FastFail, Admit, AdmitClosed, AdmitProbe, NewGeneration, Refuse, circuitVars
<1>5. NoCounts \in [Counters -> Nat]
  BY DEF NoCounts
<1>6. CountTypes' /\ Own(c)
  <2>1. /\ m' \in [Callers -> [Counters -> Nat]]
        /\ \A d \in Callers \ {c} : m'[d] = m[d]
    BY <1>1, <1>5
  <2>2. /\ attempt' \in [Callers -> Nat]
        /\ lastErr' \in [Callers -> {"none"} \cup TransportErrors]
        /\ seen' \in [Callers -> SUBSET (Responses \cup TransportErrors)]
        /\ \A d \in Callers \ {c} :
             attempt'[d] = attempt[d] /\ lastErr'[d] = lastErr[d] /\ seen'[d] = seen[d]
    BY <1>1
  <2>3. /\ ctx' \in [Callers -> Contexts]
        /\ kind' \in [Callers -> {"replay", "once"}]
        /\ \A d \in Callers \ {c} : ctx'[d] = ctx[d] /\ kind'[d] = kind[d]
    BY <1>1
  <2>4. CountTypes'
    BY <1>3, <1>4, <2>1, <2>2, <2>3
  <2>5. QED
    BY <1>3, <2>1, <2>2, <2>3, <2>4 DEF Own
<1>7. /\ m'[c].attempts = 0 /\ m'[c].failed = 0 /\ m'[c].cancels = 0 /\ m'[c].ok = 0
      /\ m'[c].retries = 0 /\ attempt'[c] = 0 /\ lastErr'[c] = "none"
      /\ seen'[c] = {}
  BY <1>1 DEF NoCounts, Counters
<1>8. Progress(c)'
  BY <1>2, <1>7, DoAssumption DEF Progress, Before, Answered, Over, DoAssumption
<1>9. Balanced(c)'
  BY <1>2, <1>7 DEF Balanced, BoolNat
<1>10. Evidence(c)'
  BY <1>2, <1>7 DEF Evidence, SawSuccess, Answered, Over
<1>11. QED
  BY <1>6, <1>8, <1>9, <1>10, OwnStepKeepsInv DEF Account

\* The circuit keeps counting from zero.
LEMMA FailsCounted ==
  ASSUME fails \in Nat, NEW c \in Callers, NEW o, Settle(c, o)
  PROVE  fails' \in Nat
BY DEF Settle, Leave, Succeed, Fail, CountFailure, Trip

\* What a call has counted outlives it.
LEMMA ReportKeepsAccount ==
  ASSUME CountInv, NEW c \in Callers, Report(c)
  PROVE  CountInv'
<1>1. /\ pc[c] = "report" /\ pc' = [pc EXCEPT ![c] = "idle"]
      /\ UNCHANGED <<ctx, kind, attempt, lastErr, seen, result, m>>
  BY DEF Report, Goto, callVars
<1>2. fails' \in Nat
  BY FailsCounted DEF Report, CountInv, CountTypes, circuitVars
<1>3. QED
  BY <1>1, <1>2, MovesKeepAccount DEF Over, Points

\* Steps of the environment.
LEMMA OthersKeepAccount ==
  ASSUME CountInv, UNCHANGED <<pc, ctx, kind, attempt, lastErr, seen, result, m, fails>>
  PROVE  CountInv'
BY DEF CountInv, CountTypes, Account, Progress, Balanced, Evidence, SawSuccess

\* A context that ends had not ended: no error of the call can have been due to it.
LEMMA ContextEndsKeepsAccount ==
  ASSUME CountInv, NEW c \in Callers, CallerCancels(c) \/ DeadlinePasses(c)
  PROVE  CountInv'
<1> USE DEF CountInv, CountTypes
<1>1. /\ pc[c] \notin Over /\ ctx[c] \notin {"canceled", "deadline"}
      /\ UNCHANGED <<pc, kind, attempt, lastErr, seen, result, m, fails>>
      /\ \E x \in {"canceled", "deadline"} : ctx' = [ctx EXCEPT ![c] = x]
  BY DEF CallerCancels, DeadlinePasses, ContextEnds, Ended, Over, shared, circuitVars
<1>2. CountTypes' /\ Own(c)
  BY <1>1 DEF Own, Contexts
<1>3. Account(c)
  OBVIOUS
<1>4. Progress(c)' /\ Balanced(c)'
  BY <1>1, <1>3 DEF Account, Progress, Balanced
<1>5. Evidence(c)'
  BY <1>1, <1>3 DEF Account, Evidence, SawSuccess
<1>6. QED
  BY <1>2, <1>4, <1>5, OwnStepKeepsInv DEF Account

LEMMA StepKeepsAccount ==
  ASSUME CountInv, NEW c \in Callers, Step(c)
  PROVE  CountInv'
<1>1. CASE \/ AcquireSlot(c) \/ PassGate(c) \/ SleepAtGate(c) \/ WakeAtGate(c)
           \/ Unlimited(c) \/ LiveOnArrival(c) \/ TakeToken(c) \/ NoToken(c)
           \/ ExtendLoad(c) \/ ExtendRetries(c) \/ Release(c)
  BY <1>1, SilentSteps
<1>2. CASE GateStopped(c) \/ GateCancelled(c) \/ TokenCancelled(c) \/ TokenStopped(c)
  BY <1>2, CutWaits
<1>3. CASE Send(c) \/ RewindFails(c) \/ NextAttempt(c)
  BY <1>3, AttemptIsCounted, RewindIsCounted, AttemptsAdvance
<1>4. CASE \/ \E bad \in BOOLEAN : Respond(c, bad)
           \/ \E h \in Headers : Throttle(c, h)
           \/ \E e \in TransportErrors, retryable \in BOOLEAN : AttemptFails(c, e, retryable)
  BY <1>4, ResponseIsCounted, ThrottleIsCounted, ErrorIsCounted
<1>5. CASE ExtendNotNeeded(c) \/ ExtendSwaps(c)
  BY <1>5, ThrottledCallGoesOn
<1>6. CASE Panics(c) \/ BackoffCancelled(c) \/ SlotCancelled(c)
  BY <1>6, PanicIsCounted, UncountedEnds
<1>7. CASE Report(c)
  BY <1>7, ReportKeepsAccount
<1>8. QED
  BY <1>1, <1>2, <1>3, <1>4, <1>5, <1>6, <1>7 DEF Step

LEMMA NextKeepsAccount ==
  ASSUME CountInv, [DoNext]_doVars
  PROVE  CountInv'
<1> USE DEF shared, callVars, circuitVars
<1>1. ASSUME NEW c \in Callers, Enter(c) \/ FastFail(c) \/ Step(c) PROVE CountInv'
  BY <1>1, NewCallCountsNothing, StepKeepsAccount
<1>2. ASSUME NEW c \in Callers, CallerCancels(c) \/ DeadlinePasses(c) PROVE CountInv'
  BY <1>2, ContextEndsKeepsAccount
<1>3. CASE Tick \/ Stop \/ Refill \/ RefillerExits \/ ElapseStep
  BY <1>3, OthersKeepAccount
  DEF Tick, Stop, Refill, RefillerExits, BesideBucket, ElapseStep, Elapse
<1>4. CASE UNCHANGED doVars
  BY <1>4, OthersKeepAccount DEF doVars
<1>5. QED
  BY <1>1, <1>2, <1>3, <1>4 DEF DoNext

LEMMA InitCountsNothing == DoInit => CountInv
<1> SUFFICES ASSUME DoInit PROVE CountInv
  OBVIOUS
<1>1. CountTypes
  BY DEF DoInit, CircuitInit, CountTypes, Points, Results, Contexts, NoCounts
<1>2. ASSUME NEW c \in Callers PROVE Account(c)
  <2>1. /\ m[c].attempts = 0 /\ m[c].failed = 0 /\ m[c].cancels = 0 /\ m[c].ok = 0
        /\ m[c].retries = 0 /\ attempt[c] = 0 /\ lastErr[c] = "none" /\ seen[c] = {}
        /\ pc[c] = "idle" /\ result[c] = "none"
    BY DEF DoInit, NoCounts, Counters
  <2>2. Progress(c)
    BY <2>1, DoAssumption DEF Progress, Before, Answered, Over, DoAssumption
  <2>3. Balanced(c)
    BY <2>1 DEF Balanced, BoolNat
  <2>4. Evidence(c)
    BY <2>1 DEF Evidence, Answered, Over
  <2>5. QED
    BY <2>2, <2>3, <2>4 DEF Account
<1>3. QED
  BY <1>1, <1>2 DEF CountInv

(***************************************************************************)
(* What the circuit is told                                                *)
(***************************************************************************)

\* A step of a call moves that call only.
LEMMA StepMovesOne ==
  ASSUME NEW c \in Callers, Step(c)
  PROVE  \E p : pc' = [pc EXCEPT ![c] = p]
<1> USE DEF Goto, Returns, WaitStopped, WaitCancelled, CutByStop, AfterThrottle
<1>1. CASE AcquireSlot(c) \/ SlotCancelled(c) \/ Release(c) \/ Report(c)
  BY <1>1 DEF AcquireSlot, SlotCancelled, LeaveQueue, Release, Report
<1>2. CASE PassGate(c) \/ SleepAtGate(c) \/ WakeAtGate(c) \/ GateStopped(c) \/ GateCancelled(c)
  BY <1>2 DEF PassGate, SleepAtGate, WakeAtGate, GateStopped, GateCancelled
<1>3. CASE \/ Unlimited(c) \/ LiveOnArrival(c) \/ TokenCancelled(c) \/ TakeToken(c) \/ NoToken(c)
           \/ TokenStopped(c)
  BY <1>3 DEF Unlimited, LiveOnArrival, TokenCancelled, TakeToken, NoToken, TokenStopped
<1>4. CASE Send(c) \/ RewindFails(c) \/ Panics(c) \/ NextAttempt(c) \/ BackoffCancelled(c)
  BY <1>4 DEF Send, RewindFails, FailToRewind, Panics, NextAttempt, BackoffCancelled
<1>5. CASE \E bad \in BOOLEAN : Respond(c, bad)
  BY <1>5 DEF Respond
<1>6. CASE \E h \in Headers : Throttle(c, h)
  BY <1>6 DEF Throttle
<1>7. CASE ExtendLoad(c) \/ ExtendNotNeeded(c) \/ ExtendSwaps(c) \/ ExtendRetries(c)
  BY <1>7 DEF ExtendLoad, ExtendNotNeeded, ExtendSwaps, ExtendRetries
<1>8. CASE \E e \in TransportErrors, retryable \in BOOLEAN : AttemptFails(c, e, retryable)
  BY <1>8 DEF AttemptFails
<1>9. QED
  BY <1>1, <1>2, <1>3, <1>4, <1>5, <1>6, <1>7, <1>8 DEF Step

\* A call that is about to report has nothing else to do.
LEMMA ReportsNext ==
  ASSUME NEW c \in Callers, Step(c), pc[c] = "report"
  PROVE  Report(c)
BY DEF Step, AcquireSlot, SlotCancelled, LeaveQueue, Release, PassGate, SleepAtGate, WakeAtGate,
       GateStopped, GateCancelled, Unlimited, LiveOnArrival, TokenCancelled, TakeToken, NoToken,
       TokenStopped, Send, RewindFails, FailToRewind, Panics, NextAttempt, BackoffCancelled,
       Respond, Throttle, ExtendLoad, ExtendNotNeeded, ExtendSwaps, ExtendRetries, AttemptFails

LEMMA OnlyReportFinishes ==
  ASSUME CountInv, [DoNext]_doVars, NEW c \in Callers, Finishes(c)
  PROVE  Report(c)
<1> USE DEF Finishes, CountInv, CountTypes
<1>1. ASSUME NEW d \in Callers, Step(d) PROVE Report(c)
  <2>1. PICK p : pc' = [pc EXCEPT ![d] = p]
    BY <1>1, StepMovesOne
  <2>2. d = c
    BY <2>1
  <2>3. QED
    BY <1>1, <2>2, ReportsNext
<1>2. ASSUME NEW d \in Callers, Enter(d) \/ FastFail(d) \/ CallerCancels(d) \/ DeadlinePasses(d)
      PROVE  FALSE
  BY <1>2 DEF Enter, FastFail, CallerCancels, DeadlinePasses, ContextEnds, NewCall, Goto
<1>3. CASE Tick \/ Stop \/ Refill \/ RefillerExits \/ ElapseStep \/ UNCHANGED doVars
  BY <1>3 DEF Tick, Stop, Refill, RefillerExits, BesideBucket, ElapseStep, doVars
<1>4. QED
  BY <1>1, <1>2, <1>3 DEF DoNext

\* What each verdict does to the circuit.
LEMMA VerdictsMoveCircuit ==
  ASSUME fails \in Nat, NEW c \in Callers, NEW o \in Outcomes, Settle(c, o)
  PROVE  /\ Blamed => o = "failure"
         /\ Praised => o = "success"
         /\ o = "failure" /\ Counts(c) => Blamed
<1> USE DEF Blamed, Praised
<1>1. CASE (o = "neutral" \/ ~Counts(c)) /\ Leave(c)
  BY <1>1 DEF Leave
<1>2. CASE o = "success" /\ Succeed(c)
  BY <1>2 DEF Succeed
<1>3. CASE o = "failure" /\ Fail(c)
  BY <1>3 DEF Fail, CountFailure, Trip, Counts
<1>4. QED
  BY <1>1, <1>2, <1>3 DEF Settle

\* A verdict is what the call has seen.
LEMMA VerdictsBorneOut ==
  ASSUME CountInv, NEW c \in Callers
  PROVE  /\ Verdict(c) \in Outcomes
         /\ Verdict(c) = "failure" => SawFailure(c)
         /\ Verdict(c) = "success" => SawSuccess(c)
         /\ OwesFailure(c) => Verdict(c) = "failure"
<1>1. Evidence(c) /\ lastErr[c] \in {"none", "net", "netCanceled"}
  BY DEF CountInv, CountTypes, Account, TransportErrors
<1>2. Verdict(c) \in Outcomes
  BY DEF Verdict, Outcomes
<1>3. Verdict(c) = "success" => result[c] = "ok"
  BY DEF Verdict
<1>4. Verdict(c) = "failure" => SawFailure(c)
  <2>1. \/ result[c] \in {"bad", "net"} \cup Panicked
        \/ result[c] = "exhausted" /\ lastErr[c] = "net"
        \/ result[c] = "deadline" /\ lastErr[c] # "none"
        \/ Verdict(c) # "failure"
    BY DEF Verdict
  <2>2. QED
    BY <1>1, <2>1 DEF Evidence, SawFailure
<1>5. OwesFailure(c) => Verdict(c) = "failure"
  <2> SUFFICES ASSUME OwesFailure(c) PROVE Verdict(c) = "failure"
    OBVIOUS
  <2>1. CASE result[c] \in {"bad"} \cup Panicked
    BY <2>1 DEF Verdict, Panicked
  <2>2. CASE "net" \in seen[c] /\ result[c] \in {"net", "exhausted", "deadline"} /\ ctx[c] # "canceled"
    <3>1. lastErr[c] = "net"
      BY <1>1, <2>2 DEF Evidence
    <3>2. QED
      BY <2>2, <3>1 DEF Verdict
  <2>3. QED
    BY <2>1, <2>2 DEF OwesFailure
<1>6. QED
  BY <1>1, <1>2, <1>3, <1>4, <1>5 DEF Evidence

(***************************************************************************)
(* Theorems                                                                *)
(***************************************************************************)

\* The inductive invariant on the account of a call (circuitbreaker.go:279-397).
THEOREM CountInvariant == DoSpec => []CountInv
BY InitCountsNothing, NextKeepsAccount, PTL DEF DoSpec

\* Every attempt and every wait that was cut is counted once, on every way through
\* Do and out of it (circuitbreaker.go:283-396).
THEOREM MetricsAlwaysAddUp == DoSpec => []MetricsAddUp
<1>1. CountInv => MetricsAddUp
  BY DEF CountInv, Account, Balanced, MetricsAddUp
<1>2. QED
  BY <1>1, CountInvariant, PTL

\* No request is sent more than MaxRetries + 1 times, and none twice whose body
\* cannot be rewound (circuitbreaker.go:343, 374-391).
THEOREM AttemptsAlwaysBounded == DoSpec => []AttemptsBounded
<1>1. CountInv => AttemptsBounded
  BY DEF CountInv, Account, Progress, AttemptsBounded
<1>2. QED
  BY <1>1, CountInvariant, PTL

\* The circuit counts a failure or a success only if the call has seen one, and every
\* failure it ends on (state.go:83-105, circuitbreaker.go:230-260).
THEOREM VerdictsAlwaysEvident == DoSpec => VerdictsFollowEvidence
<1> DEFINE Evident(c) == /\ Blamed => SawFailure(c)
                         /\ Praised => SawSuccess(c)
                         /\ Counts(c) /\ OwesFailure(c) => Blamed
<1>1. ASSUME CountInv, [DoNext]_doVars, NEW c \in Callers, Finishes(c)
      PROVE  Evident(c)
  <2>1. Report(c) /\ fails \in Nat
    BY <1>1, OnlyReportFinishes DEF CountInv, CountTypes
  <2>2. CASE WithBreaker
    <3>1. Settle(c, Verdict(c))
      BY <2>1, <2>2 DEF Report
    <3>2. QED
      BY <1>1, <2>1, <3>1, VerdictsBorneOut, VerdictsMoveCircuit
  <2>3. CASE ~WithBreaker
    BY <2>1, <2>3 DEF Report, circuitVars, Blamed, Praised, OwesFailure
  <2>4. QED
    BY <2>2, <2>3
<1>2. CountInv /\ [DoNext]_doVars => [\A c \in Callers : Finishes(c) => Evident(c)]_doVars
  BY <1>1
<1>3. QED
  BY <1>2, CountInvariant, PTL DEF DoSpec, VerdictsFollowEvidence

(***************************************************************************)
(* Facts about data                                                        *)
(***************************************************************************)

\* Time passes alike for all instants: the earlier stays the earlier.
LEMMA LessFacts ==
  \A x, y \in Nat : Less(x) \in Nat /\ (x <= y => Less(x) <= Less(y))
BY DEF Less

\* The later of two instants is their least upper bound.
LEMMA LargerFacts ==
  \A x, y \in Nat : /\ Larger(x, y) \in Nat
                    /\ Larger(x, y) >= x /\ Larger(x, y) >= y
                    /\ \A z \in Nat : x <= z /\ y <= z => Larger(x, y) <= z
BY DEF Larger

\* Whatever the header says, the delay that is read from it is the one it asks for,
\* up to retryAfterMax (circuitbreaker.go:410-421).
LEMMA HeadersAreRead ==
  ASSUME NEW h \in Headers
  PROVE  /\ Smaller(h.read, RetryAfterMax) \in Nat
         /\ Smaller(h.read, RetryAfterMax) <= RetryAfterMax
         /\ Smaller(h.asks, RetryAfterMax) = Smaller(h.read, RetryAfterMax)
<1>1. RetryAfterMax \in 0..MaxDuration /\ MaxDuration \in Nat
  BY DoAssumption, WaitsAssumption DEF DoAssumption, WaitsAssumption
<1>2. h.read \in Nat /\ Smaller(h.read, RetryAfterMax) = Smaller(h.asks, RetryAfterMax)
  BY <1>1, HeadersExact DEF HeaderExact
<1>3. QED
  BY <1>1, <1>2 DEF Smaller

\* A backoff is no shorter than it may be, and no longer than is promised.
LEMMA BackoffsBounded ==
  ASSUME NEW c \in Callers, attempt[c] \in Nat
  PROVE  /\ MinBackoff(c) \in Nat /\ Nominal(Base, Ceiling, attempt[c]) \in Nat
         /\ \A b \in Backoffs(c) :
              b \in Nat /\ MinBackoff(c) <= b /\ b <= Nominal(Base, Ceiling, attempt[c])
<1> DEFINE d == Nominal(Base, Ceiling, attempt[c])
<1>1. Ceiling \in 1 .. MaxDuration \div 2 + 1 /\ Base \in 1..Ceiling /\ Jitter \in BOOLEAN
  BY DoAssumption DEF DoAssumption
<1>2. Backoffs(c) \subseteq MinBackoff(c) .. d
  BY <1>1, BackoffsExact DEF BackoffExact, Backoffs, MinBackoff
<1>3. d \in Nat
  <2>1. PowerOfTwo[attempt[c]] \in Nat /\ Base \in Nat /\ Ceiling \in Nat
    BY <1>1, PowersOfTwo, WaitsAssumption DEF WaitsAssumption
  <2>2. Base * PowerOfTwo[attempt[c]] \in Nat
    BY <2>1
  <2>3. QED
    BY <2>1, <2>2 DEF Nominal, Smaller
<1>4. MinBackoff(c) \in Nat
  BY <1>3 DEF MinBackoff, LeastBackoff
<1>5. QED
  BY <1>2, <1>3, <1>4

LEMMA BackoffsTyped ==
  ASSUME CountInv, NEW c \in Callers
  PROVE  MinBackoff(c) \in Nat /\ \A b \in Backoffs(c) : b \in Nat
BY BackoffsBounded DEF CountInv, CountTypes

\* Holders can be counted, because callers can.
LEMMA HoldersFinite == IsFiniteSet(Holders) /\ Cardinality(Holders) \in Nat
<1>1. IsFiniteSet(Holders)
  BY FS_Subset, CircuitAssumption DEF Holders, CircuitAssumption
<1>2. QED
  BY <1>1, FS_CardinalityType

(***************************************************************************)
(* Most steps of a call stay between the semaphore and the release, and    *)
(* touch neither the gate nor the circuit.                                 *)
(***************************************************************************)

Beside == <<circuitVars, slots, gate, asked, loaded>>

Timed(c) ==
  \/ UNCHANGED timers
  \/ \E d \in Nat, w \in Nat :
       sleep' = [sleep EXCEPT ![c] = d] /\ wanted' = [wanted EXCEPT ![c] = w]

Advances(c) ==
  /\ pc[c] \in Holding
  /\ \E p \in Holding \ {"extend", "cas"} : pc' = [pc EXCEPT ![c] = p]
  /\ Timed(c)
  /\ UNCHANGED Beside

\* The waits of an attempt, the way into the next one, and every way they are cut.
LEMMA WaitsAdvance ==
  ASSUME DoInv, NEW c \in Callers,
         \/ PassGate(c) \/ SleepAtGate(c) \/ WakeAtGate(c) \/ GateStopped(c) \/ GateCancelled(c)
         \/ Unlimited(c) \/ LiveOnArrival(c) \/ TokenCancelled(c) \/ TakeToken(c) \/ NoToken(c)
         \/ TokenStopped(c) \/ NextAttempt(c) \/ BackoffCancelled(c)
  PROVE  Advances(c)
<1> USE DEF DoInv, Advances, Timed, Beside, timers, Holding, Points, shared, callVars, gateVars,
            circuitVars, Goto, Sleep, Returns, WaitStopped, CutByStop, WaitCancelled
<1>1. CASE PassGate(c)
  BY <1>1 DEF PassGate
<1>2. CASE SleepAtGate(c)
  BY <1>2 DEF SleepAtGate
<1>3. CASE WakeAtGate(c)
  BY <1>3 DEF WakeAtGate
<1>4. CASE GateStopped(c)
  BY <1>4 DEF GateStopped
<1>5. CASE GateCancelled(c)
  BY <1>5 DEF GateCancelled
<1>6. CASE Unlimited(c)
  BY <1>6 DEF Unlimited
<1>7. CASE LiveOnArrival(c)
  BY <1>7 DEF LiveOnArrival
<1>8. CASE TokenCancelled(c)
  BY <1>8 DEF TokenCancelled
<1>9. CASE TakeToken(c)
  BY <1>9 DEF TakeToken
<1>10. CASE NoToken(c)
  BY <1>10 DEF NoToken
<1>11. CASE TokenStopped(c)
  BY <1>11 DEF TokenStopped
<1>12. CASE NextAttempt(c)
  BY <1>12 DEF NextAttempt
<1>13. CASE BackoffCancelled(c)
  BY <1>13 DEF BackoffCancelled
<1>14. QED
  BY <1>1, <1>2, <1>3, <1>4, <1>5, <1>6, <1>7, <1>8, <1>9, <1>10, <1>11, <1>12, <1>13

\* What happens to a request on the wire, but for a response that closes the gate.
LEMMA AttemptsMoveOn ==
  ASSUME DoInv, CountInv, NEW c \in Callers,
         \/ Send(c) \/ RewindFails(c) \/ Panics(c)
         \/ \E bad \in BOOLEAN : Respond(c, bad)
         \/ \E e \in TransportErrors, retryable \in BOOLEAN : AttemptFails(c, e, retryable)
  PROVE  Advances(c)
<1> USE DEF DoInv, Advances, Timed, Beside, timers, Holding, Points, shared, callVars, gateVars,
            circuitVars, Goto, Sleep, Returns
<1>1. CASE Send(c)
  BY <1>1 DEF Send
<1>2. CASE RewindFails(c)
  BY <1>2 DEF RewindFails, FailToRewind
<1>3. CASE Panics(c)
  BY <1>3 DEF Panics
<1>4. ASSUME NEW bad \in BOOLEAN, Respond(c, bad) PROVE Advances(c)
  BY <1>4 DEF Respond
<1>5. ASSUME NEW e \in TransportErrors, NEW retryable \in BOOLEAN, AttemptFails(c, e, retryable)
      PROVE  Advances(c)
  <2>1. pc[c] = "wire" /\ UNCHANGED Beside
    BY <1>5 DEF AttemptFails
  <2>2. PICK p \in {"backoff", "release"} : pc' = [pc EXCEPT ![c] = p]
    BY <1>5 DEF AttemptFails
  <2>3. Timed(c)
    BY <1>5, BackoffsTyped DEF AttemptFails
  <2>4. QED
    BY <2>1, <2>2, <2>3
<1>6. QED
  BY <1>1, <1>2, <1>3, <1>4, <1>5

\* A call that stays between the semaphore and its release keeps the invariant,
\* if it leaves the gate in order.
LEMMA InsideKeepsInv ==
  ASSUME DoInv, NEW c \in Callers, NEW p \in Holding,
         pc[c] \in Holding,
         pc' = [pc EXCEPT ![c] = p],
         UNCHANGED <<circuitVars, slots>>,
         sleep' \in [Callers -> Nat], wanted' \in [Callers -> Nat],
         loaded' \in [Callers -> Nat],
         gate' \in Nat, asked' \in Nat, gate' >= asked',
         ExtensionsOrdered'
  PROVE  DoInv'
<1> USE DEF DoInv, Holding, Points
<1>1. Holders' = Holders
  BY DEF Holders
<1>2. SlotsHeld'
  BY <1>1 DEF SlotsHeld
<1>3. AdmissionsReported'
  BY DEF AdmissionsReported, circuitVars
<1>4. PauseRemembered'
  BY DEF PauseRemembered
<1>5. pc' \in [Callers -> Points] /\ role' = role /\ slots' = slots
  BY DEF circuitVars
<1>6. QED
  BY <1>2, <1>3, <1>4, <1>5

\* None of these steps disturbs what the invariant is about.
LEMMA AdvancesKeepsInv ==
  ASSUME DoInv, NEW c \in Callers, Advances(c)
  PROVE  DoInv'
<1>1. PICK p \in Holding \ {"extend", "cas"} : pc' = [pc EXCEPT ![c] = p]
  BY DEF Advances
<1>2. /\ sleep' \in [Callers -> Nat] /\ wanted' \in [Callers -> Nat]
      /\ \A d \in Callers \ {c} : sleep'[d] = sleep[d] /\ wanted'[d] = wanted[d]
  BY DEF Advances, Timed, timers, DoInv
<1>3. gate' = gate /\ asked' = asked /\ loaded' = loaded
  BY DEF Advances, Beside
<1>4. \A d \in Callers : pc'[d] \in {"extend", "cas"} => d # c /\ pc[d] = pc'[d]
  BY <1>1 DEF DoInv
<1>5. ExtensionsOrdered'
  BY <1>2, <1>3, <1>4 DEF DoInv, ExtensionsOrdered
<1>6. gate' \in Nat /\ asked' \in Nat /\ gate' >= asked' /\ loaded' \in [Callers -> Nat]
  BY <1>3 DEF DoInv, PauseRemembered
<1>7. UNCHANGED <<circuitVars, slots>> /\ pc[c] \in Holding
  BY DEF Advances, Beside
<1>8. QED
  BY <1>1, <1>2, <1>5, <1>6, <1>7, InsideKeepsInv

\* A call that begins to extend the gate, or begins again.
LEMMA ExtensionBegins ==
  ASSUME DoInv, NEW c \in Callers,
         ExtendRetries(c) \/ \E h \in Headers : Throttle(c, h)
  PROVE  DoInv'
<1>1. /\ pc[c] \in {"wire", "cas"} /\ pc' = [pc EXCEPT ![c] = "extend"]
      /\ UNCHANGED Beside
  BY DEF ExtendRetries, Throttle, Goto, Beside, shared, callVars, gateVars
<1> DEFINE Moved == /\ sleep' \in [Callers -> Nat] /\ wanted' \in [Callers -> Nat]
                    /\ \A d \in Callers \ {c} : sleep'[d] = sleep[d] /\ wanted'[d] = wanted[d]
                    /\ wanted'[c] <= sleep'[c]
<1>2. Moved
  <2>1. CASE ExtendRetries(c)
    BY <2>1 DEF ExtendRetries, callVars, timers, DoInv, ExtensionsOrdered
  <2>2. ASSUME NEW h \in Headers, Throttle(c, h) PROVE Moved
    <3> DEFINE pause == Smaller(h.read, RetryAfterMax)
    <3>1. pause \in Nat /\ Smaller(h.asks, RetryAfterMax) = pause
      BY HeadersAreRead
    <3>2. /\ sleep' = [sleep EXCEPT ![c] = pause]
          /\ wanted' = [wanted EXCEPT ![c] = pause]
      BY <2>2, <3>1 DEF Throttle, Sleep
    <3> HIDE DEF pause
    <3>3. QED
      BY <3>1, <3>2 DEF DoInv
  <2>3. QED
    BY <2>1, <2>2
<1>3. ExtensionsOrdered'
  <2>1. \A d \in Callers : d # c => pc'[d] = pc[d] /\ loaded'[d] = loaded[d]
    BY <1>1 DEF DoInv, Beside
  <2>2. pc'[c] = "extend"
    BY <1>1 DEF DoInv
  <2>3. QED
    BY <1>2, <2>1, <2>2 DEF DoInv, ExtensionsOrdered
<1>4. /\ UNCHANGED <<circuitVars, slots>> /\ loaded' \in [Callers -> Nat]
      /\ gate' \in Nat /\ asked' \in Nat /\ gate' >= asked'
  BY <1>1 DEF Beside, DoInv, PauseRemembered
<1>5. "extend" \in Holding /\ pc[c] \in Holding
  BY <1>1 DEF Holding, Points
<1>6. QED
  BY <1>1, <1>2, <1>3, <1>4, <1>5, InsideKeepsInv

\* The gate is swapped only for an instant that is no earlier than the one it held
\* when it was loaded, or left alone when it is late enough already.
LEMMA ExtensionsKeepInv ==
  ASSUME DoInv, CountInv, NEW c \in Callers, ExtendLoad(c) \/ ExtendNotNeeded(c) \/ ExtendSwaps(c)
  PROVE  DoInv'
<1>1. CASE ExtendLoad(c)
  <2>1. pc[c] = "extend" /\ pc' = [pc EXCEPT ![c] = "cas"] /\ gate < sleep[c]
    BY <1>1 DEF ExtendLoad, Goto
  <2>2. UNCHANGED <<circuitVars, slots, gate, asked, sleep, wanted>>
    BY <1>1 DEF ExtendLoad, shared, gateVars, timers
  <2>3. loaded' = [loaded EXCEPT ![c] = gate]
    BY <1>1 DEF ExtendLoad
  <2>4. ExtensionsOrdered'
    <3>1. SUFFICES ASSUME NEW d \in Callers
                   PROVE  /\ pc'[d] \in {"extend", "cas"} => wanted'[d] <= sleep'[d]
                          /\ pc'[d] = "cas" => loaded'[d] <= sleep'[d]
      BY DEF ExtensionsOrdered
    <3>2. sleep' = sleep /\ wanted' = wanted
      BY <2>2
    <3>3. CASE d = c
      BY <2>1, <2>3, <3>2, <3>3 DEF DoInv, ExtensionsOrdered
    <3>4. CASE d # c
      BY <2>1, <2>3, <3>2, <3>4 DEF DoInv, ExtensionsOrdered
    <3>5. QED
      BY <3>3, <3>4
  <2>5. "cas" \in Holding /\ "extend" \in Holding
    BY DEF Holding, Points
  <2>6. /\ sleep' \in [Callers -> Nat] /\ wanted' \in [Callers -> Nat]
        /\ loaded' \in [Callers -> Nat]
        /\ gate' \in Nat /\ asked' \in Nat /\ gate' >= asked'
    BY <2>2, <2>3 DEF DoInv, PauseRemembered
  <2>7. QED
    BY <2>1, <2>2, <2>4, <2>5, <2>6, InsideKeepsInv
<1>2. CASE ExtendNotNeeded(c) \/ ExtendSwaps(c)
  <2>1. pc[c] \in {"extend", "cas"} /\ AfterThrottle(c) /\ UNCHANGED <<circuitVars, slots, loaded>>
    BY <1>2 DEF ExtendNotNeeded, ExtendSwaps
  <2>2. PICK p \in {"backoff", "release"} : pc' = [pc EXCEPT ![c] = p]
    BY <2>1 DEF AfterThrottle, Goto, Returns
  <2>3. /\ sleep[c] \in Nat /\ wanted[c] \in Nat /\ wanted[c] <= sleep[c]
        /\ gate \in Nat /\ asked \in Nat /\ asked <= gate
    BY <2>1 DEF DoInv, PauseRemembered, ExtensionsOrdered
  <2>4. PICK e \in Nat, w \in Nat : /\ sleep' = [sleep EXCEPT ![c] = e]
                                    /\ wanted' = [wanted EXCEPT ![c] = w]
    <3>1. Larger(wanted[c], MinBackoff(c)) \in Nat
      BY <2>3, LargerFacts, BackoffsTyped
    <3>2. \A b \in Backoffs(c) : WaitAfterThrottle(c, b) \in Nat
      BY <2>3, LargerFacts, BackoffsTyped DEF WaitAfterThrottle
    <3>3. QED
      BY <2>1, <3>1, <3>2 DEF AfterThrottle, Sleep, Returns
  <2>5. \E g \in Nat, a \in Nat : gate' = g /\ asked' = a /\ g >= a
    <3> DEFINE a == Larger(asked, wanted[c])
    <3>1. a \in Nat /\ asked' = a /\ \A z \in Nat : asked <= z /\ wanted[c] <= z => a <= z
      BY <1>2, <2>3, LargerFacts DEF ExtendNotNeeded, ExtendSwaps
    <3> HIDE DEF a
    <3>2. CASE ExtendNotNeeded(c)
      <4>1. gate' = gate /\ gate >= sleep[c]
        BY <3>2 DEF ExtendNotNeeded
      <4>2. a <= gate
        BY <2>3, <3>1, <4>1
      <4>3. QED
        BY <2>3, <3>1, <4>1, <4>2
    <3>3. CASE ExtendSwaps(c)
      <4>1. gate' = sleep[c] /\ gate = loaded[c] /\ pc[c] = "cas"
        BY <3>3 DEF ExtendSwaps
      <4>2. gate <= sleep[c]
        BY <4>1 DEF DoInv, ExtensionsOrdered
      <4>3. a <= sleep[c]
        BY <2>3, <3>1, <4>2
      <4>4. QED
        BY <2>3, <3>1, <4>1, <4>3
    <3>4. QED
      BY <1>2, <3>2, <3>3
  <2>6. ExtensionsOrdered'
    <3>1. SUFFICES ASSUME NEW d \in Callers
                   PROVE  /\ pc'[d] \in {"extend", "cas"} => wanted'[d] <= sleep'[d]
                          /\ pc'[d] = "cas" => loaded'[d] <= sleep'[d]
      BY DEF ExtensionsOrdered
    <3>2. CASE d = c
      BY <2>2, <3>2 DEF DoInv
    <3>3. CASE d # c
      BY <2>1, <2>2, <2>4, <3>3 DEF DoInv, ExtensionsOrdered
    <3>4. QED
      BY <3>2, <3>3
  <2>7. /\ sleep' \in [Callers -> Nat] /\ wanted' \in [Callers -> Nat]
        /\ loaded' \in [Callers -> Nat]
    BY <2>1, <2>4 DEF DoInv
  <2>8. p \in Holding /\ pc[c] \in Holding
    BY <2>1 DEF Holding, Points
  <2>9. gate' \in Nat /\ asked' \in Nat /\ gate' >= asked'
    BY <2>5
  <2>10. QED
    BY <2>1, <2>2, <2>6, <2>7, <2>8, <2>9, InsideKeepsInv
<1>3. QED
  BY <1>1, <1>2

(***************************************************************************)
(* The steps that take and give back what a call holds                     *)
(***************************************************************************)

\* Outside the loop of extendRetryAfterGate only what a call holds can change.
LEMMA BordersKeepInv ==
  ASSUME DoInv, NEW c \in Callers, NEW p \in Points \ {"extend", "cas"},
         pc' = [pc EXCEPT ![c] = p],
         UNCHANGED <<sleep, wanted, loaded, gate, asked>>,
         role' \in [Callers -> Roles], slots' \in Nat,
         SlotsHeld', AdmissionsReported'
  PROVE  DoInv'
<1>1. pc' \in [Callers -> Points]
  BY DEF DoInv
<1>2. \A d \in Callers : pc'[d] \in {"extend", "cas"} => pc'[d] = pc[d]
  BY DEF DoInv
<1>3. ExtensionsOrdered'
  BY <1>2 DEF DoInv, ExtensionsOrdered
<1>4. QED
  BY <1>1, <1>3 DEF DoInv, PauseRemembered

\* The semaphore counts the call that enters the loop of attempts.
LEMMA SlotIsTaken ==
  ASSUME DoInv, NEW c \in Callers, AcquireSlot(c)
  PROVE  DoInv'
<1>1. /\ pc[c] = "sem" /\ pc' = [pc EXCEPT ![c] = "gate"] /\ role' = role
      /\ UNCHANGED <<sleep, wanted, loaded, gate, asked>>
  BY DEF AcquireSlot, Goto, callVars, timers, circuitVars, gateVars
<1>2. slots \in Nat /\ slots' \in Nat
  BY DEF DoInv, AcquireSlot
<1>3. SlotsHeld'
  <2> SUFFICES ASSUME MaxConcurrent > 0
               PROVE  slots' = Cardinality(Holders') /\ slots' <= MaxConcurrent
    BY DEF SlotsHeld
  <2>1. Holders' = Holders \cup {c} /\ c \notin Holders
    BY <1>1 DEF DoInv, Holders, Holding, Points
  <2>2. Cardinality(Holders') = Cardinality(Holders) + 1
    BY <2>1, HoldersFinite, FS_AddElement
  <2>3. slots < MaxConcurrent /\ slots' = slots + 1 /\ slots = Cardinality(Holders)
    BY DEF AcquireSlot, DoInv, SlotsHeld
  <2>4. QED
    BY <1>2, <2>2, <2>3, DoAssumption DEF DoAssumption
<1>4. AdmissionsReported'
  BY <1>1 DEF DoInv, AdmissionsReported
<1>5. QED
  BY <1>1, <1>2, <1>3, <1>4, BordersKeepInv DEF Points, DoInv

\* The deferred release gives back the slot the call holds.
LEMMA SlotIsReleased ==
  ASSUME DoInv, NEW c \in Callers, Release(c)
  PROVE  DoInv'
<1>1. /\ pc[c] = "release" /\ pc' = [pc EXCEPT ![c] = "report"] /\ role' = role
      /\ UNCHANGED <<sleep, wanted, loaded, gate, asked>>
  BY DEF Release, Goto, callVars, timers, circuitVars, gateVars
<1>2. /\ Holders' = Holders \ {c} /\ c \in Holders
      /\ Cardinality(Holders') = Cardinality(Holders) - 1
  <2>1. Holders' = Holders \ {c} /\ c \in Holders
    BY <1>1 DEF DoInv, Holders, Holding, Points
  <2>2. QED
    BY <2>1, HoldersFinite, FS_RemoveElement
<1>3. Cardinality(Holders) \in Nat /\ Cardinality(Holders) > 0
  BY <1>2, HoldersFinite, FS_EmptySet
<1>4. /\ SlotsHeld'
      /\ slots' \in Nat
  <2>1. CASE MaxConcurrent > 0
    <3>1. slots' = slots - 1 /\ slots = Cardinality(Holders) /\ slots <= MaxConcurrent
      BY <2>1 DEF Release, DoInv, SlotsHeld
    <3>2. QED
      BY <1>2, <1>3, <3>1, DoAssumption DEF SlotsHeld, DoAssumption
  <2>2. CASE ~(MaxConcurrent > 0)
    BY <2>2 DEF Release, DoInv, SlotsHeld
  <2>3. QED
    BY <2>1, <2>2
<1>5. AdmissionsReported'
  BY <1>1 DEF DoInv, AdmissionsReported
<1>6. QED
  BY <1>1, <1>4, <1>5, BordersKeepInv DEF Points, DoInv

\* A call that gives up waiting for a slot has none, and still reports.
LEMMA WaitForSlotIsCut ==
  ASSUME DoInv, NEW c \in Callers, SlotCancelled(c)
  PROVE  DoInv'
<1>1. /\ pc[c] = "sem" /\ pc' = [pc EXCEPT ![c] = "report"] /\ role' = role /\ slots' = slots
      /\ UNCHANGED <<sleep, wanted, loaded, gate, asked>>
  BY DEF SlotCancelled, LeaveQueue, Goto, shared, timers, circuitVars, gateVars
<1>2. Holders' = Holders
  BY <1>1 DEF DoInv, Holders, Holding, Points
<1>3. SlotsHeld'
  BY <1>1, <1>2 DEF DoInv, SlotsHeld
<1>4. AdmissionsReported'
  BY <1>1 DEF DoInv, AdmissionsReported
<1>5. QED
  BY <1>1, <1>3, <1>4, BordersKeepInv DEF Points, DoInv

\* allow changes nobody from in flight to out or back, but the caller.
LEMMA AdmissionIsOwn ==
  ASSUME role \in [Callers -> Roles], NEW c \in Callers, Admit(c)
  PROVE  /\ role' \in [Callers -> Roles]
         /\ role'[c] # "out"
         /\ \A d \in Callers \ {c} : role'[d] = "out" <=> role[d] = "out"
BY DEF Admit, AdmitClosed, AdmitProbe, NewGeneration, Roles

\* report changes nobody but the caller.
LEMMA ReportIsOwn ==
  ASSUME role \in [Callers -> Roles], NEW c \in Callers, NEW o, Settle(c, o)
  PROVE  role' = [role EXCEPT ![c] = "out"]
BY DEF Settle, Leave, Succeed, Fail, CountFailure, Trip, Left

\* An admitted call owes a report.
LEMMA CallIsAdmitted ==
  ASSUME DoInv, NEW c \in Callers, Enter(c)
  PROVE  DoInv'
<1>1. /\ pc[c] = "idle" /\ pc' = [pc EXCEPT ![c] = "sem"] /\ slots' = slots
      /\ UNCHANGED <<sleep, wanted, loaded, gate, asked>>
  BY DEF Enter, NewCall, Goto, timers, gateVars
<1>2. Holders' = Holders
  BY <1>1 DEF DoInv, Holders, Holding, Points
<1>3. SlotsHeld'
  BY <1>1, <1>2 DEF DoInv, SlotsHeld
<1>4. role' \in [Callers -> Roles] /\ AdmissionsReported'
  <2>1. CASE WithBreaker
    <3>1. Admit(c)
      BY <2>1 DEF Enter
    <3>2. QED
      BY <1>1, <2>1, <3>1, AdmissionIsOwn DEF DoInv, AdmissionsReported
  <2>2. CASE ~WithBreaker
    BY <2>2 DEF Enter, circuitVars, DoInv, AdmissionsReported
  <2>3. QED
    BY <2>1, <2>2
<1>5. QED
  BY <1>1, <1>3, <1>4, BordersKeepInv DEF Points, DoInv

\* A call that reports has nothing left.
LEMMA CallIsReported ==
  ASSUME DoInv, NEW c \in Callers, Report(c)
  PROVE  DoInv'
<1>1. /\ pc[c] = "report" /\ pc' = [pc EXCEPT ![c] = "idle"] /\ slots' = slots
      /\ UNCHANGED <<sleep, wanted, loaded, gate, asked>>
  BY DEF Report, Goto, callVars, timers, gateVars
<1>2. Holders' = Holders
  BY <1>1 DEF DoInv, Holders, Holding, Points
<1>3. SlotsHeld'
  BY <1>1, <1>2 DEF DoInv, SlotsHeld
<1>4. role' \in [Callers -> Roles] /\ AdmissionsReported'
  <2>1. CASE WithBreaker
    <3>1. role' = [role EXCEPT ![c] = "out"]
      BY <2>1, ReportIsOwn DEF Report, DoInv
    <3>2. QED
      BY <1>1, <2>1, <3>1 DEF DoInv, AdmissionsReported, Roles
  <2>2. CASE ~WithBreaker
    BY <2>2 DEF Report, circuitVars, DoInv, AdmissionsReported
  <2>3. QED
    BY <2>1, <2>2
<1>5. QED
  BY <1>1, <1>3, <1>4, BordersKeepInv DEF Points, DoInv

(***************************************************************************)
(* Everything else                                                         *)
(***************************************************************************)

\* All instants come nearer together.
LEMMA TickKeepsInv ==
  ASSUME DoInv, Tick
  PROVE  DoInv'
<1>1. pc' = pc /\ role' = role /\ slots' = slots
  BY DEF Tick, circuitVars
<1>2. \E g \in Nat, a \in Nat : gate' = g /\ asked' = a /\ g >= a
  <2>1. asked \in Nat /\ gate \in Nat /\ asked <= gate
    BY DEF DoInv, PauseRemembered
  <2>2. Less(gate) \in Nat /\ Less(asked) \in Nat /\ Less(asked) <= Less(gate)
    BY <2>1, LessFacts
  <2>3. QED
    BY <2>2 DEF Tick
<1>3. \A c \in Callers :
        /\ sleep'[c] = Less(sleep[c]) /\ loaded'[c] = Less(loaded[c])
        /\ wanted'[c] = Less(wanted[c])
        /\ pc[c] = "cas" => Less(loaded[c]) <= Less(sleep[c])
        /\ pc[c] \in {"extend", "cas"} => Less(wanted[c]) <= Less(sleep[c])
  BY LessFacts DEF Tick, DoInv, ExtensionsOrdered
<1>4. /\ sleep' \in [Callers -> Nat] /\ wanted' \in [Callers -> Nat]
      /\ loaded' \in [Callers -> Nat]
  BY LessFacts DEF Tick, DoInv
<1>5. ExtensionsOrdered'
  BY <1>1, <1>3 DEF ExtensionsOrdered
<1>6. SlotsHeld' /\ AdmissionsReported'
  BY <1>1 DEF DoInv, SlotsHeld, Holders, AdmissionsReported
<1>7. QED
  BY <1>1, <1>2, <1>4, <1>5, <1>6 DEF DoInv, PauseRemembered

\* Steps on other variables only.
LEMMA OthersKeepInv ==
  ASSUME DoInv, UNCHANGED <<pc, role, slots, sleep, wanted, loaded, gate, asked>>
  PROVE  DoInv'
BY DEF DoInv, SlotsHeld, Holders, AdmissionsReported, PauseRemembered, ExtensionsOrdered

\* Every step of a call keeps the invariant.
LEMMA StepKeepsInv ==
  ASSUME DoInv, CountInv, NEW c \in Callers, Step(c)
  PROVE  DoInv'
<1>1. CASE \/ PassGate(c) \/ SleepAtGate(c) \/ WakeAtGate(c) \/ GateStopped(c) \/ GateCancelled(c)
           \/ Unlimited(c) \/ LiveOnArrival(c) \/ TokenCancelled(c) \/ TakeToken(c) \/ NoToken(c)
           \/ TokenStopped(c) \/ NextAttempt(c) \/ BackoffCancelled(c)
  BY <1>1, WaitsAdvance, AdvancesKeepsInv
<1>2. CASE \/ Send(c) \/ RewindFails(c) \/ Panics(c)
           \/ \E bad \in BOOLEAN : Respond(c, bad)
           \/ \E e \in TransportErrors, retryable \in BOOLEAN : AttemptFails(c, e, retryable)
  BY <1>2, AttemptsMoveOn, AdvancesKeepsInv
<1>3. CASE \/ ExtendLoad(c) \/ ExtendNotNeeded(c) \/ ExtendSwaps(c) \/ ExtendRetries(c)
           \/ \E h \in Headers : Throttle(c, h)
  BY <1>3, ExtensionBegins, ExtensionsKeepInv
<1>4. CASE AcquireSlot(c) \/ SlotCancelled(c) \/ Release(c) \/ Report(c)
  BY <1>4, SlotIsTaken, WaitForSlotIsCut, SlotIsReleased, CallIsReported
<1>5. QED
  BY <1>1, <1>2, <1>3, <1>4 DEF Step

\* Every step of the system keeps the invariant.
LEMMA NextKeepsInv ==
  ASSUME DoInv, CountInv, [DoNext]_doVars
  PROVE  DoInv'
<1> USE DEF shared, callVars, timers, circuitVars, gateVars
<1>1. ASSUME NEW c \in Callers, Enter(c) \/ Step(c) PROVE DoInv'
  BY <1>1, CallIsAdmitted, StepKeepsInv
<1>2. ASSUME NEW c \in Callers, FastFail(c) \/ CallerCancels(c) \/ DeadlinePasses(c)
      PROVE  DoInv'
  BY <1>2, OthersKeepInv DEF FastFail, CallerCancels, DeadlinePasses, ContextEnds, NewCall, Refuse
<1>3. CASE Tick
  BY <1>3, TickKeepsInv
<1>4. CASE Stop \/ Refill \/ RefillerExits
  BY <1>4, OthersKeepInv DEF Stop, Refill, RefillerExits, BesideBucket
<1>5. CASE ElapseStep
  BY <1>5, OthersKeepInv DEF ElapseStep, Elapse
<1>6. CASE UNCHANGED doVars
  BY <1>6, OthersKeepInv DEF doVars
<1>7. QED
  BY <1>1, <1>2, <1>3, <1>4, <1>5, <1>6 DEF DoNext

\* A new breaker satisfies the invariant.
LEMMA InitHasInv == DoInit => DoInv
<1> SUFFICES ASSUME DoInit PROVE DoInv
  OBVIOUS
<1>1. Holders = {}
  BY DEF DoInit, Holders, Holding, Points
<1>2. SlotsHeld
  BY <1>1, FS_EmptySet, DoAssumption DEF DoInit, SlotsHeld, DoAssumption
<1>3. AdmissionsReported /\ PauseRemembered
  BY DEF DoInit, CircuitInit, AdmissionsReported, PauseRemembered
<1>4. QED
  BY <1>2, <1>3 DEF DoInit, CircuitInit, DoInv, ExtensionsOrdered, Points, Roles

(***************************************************************************)
(* How long a call waits before it sends again                             *)
(***************************************************************************)

PausesCapped == gate <= RetryAfterMax /\ asked <= RetryAfterMax

\* A call that waits for its retry waits as long as it has to; everywhere else,
\* but on the way there, it has nothing left to wait for.
Spaced(c) ==
  /\ loaded[c] <= RetryAfterMax
  /\ pc[c] \in Answered => wanted[c] <= sleep[c] /\ sleep[c] <= RetryAfterMax
  /\ pc[c] = "backoff" => wanted[c] <= sleep[c]
  /\ pc[c] \notin Answered \cup {"backoff"} => wanted[c] = 0

SpacingInv == PausesCapped /\ \A c \in Callers : Spaced(c)

\* The other callers do not notice a step of c.
LEMMA OwnWaits ==
  ASSUME SpacingInv, NEW c \in Callers, PausesCapped', Spaced(c)',
         \A d \in Callers \ {c} : UNCHANGED <<pc[d], sleep[d], wanted[d], loaded[d]>>
  PROVE  SpacingInv'
BY DEF SpacingInv, Spaced

\* Where a call neither extends the gate nor waits for a retry.
Calm == Points \ (Answered \cup {"backoff"})

\* A call that moves on among these points.
LEMMA CalmSteps ==
  ASSUME DoInv, SpacingInv, NEW c \in Callers, NEW p \in Calm, NEW s \in Nat,
         pc[c] \in Calm,
         pc' = [pc EXCEPT ![c] = p],
         sleep' = [sleep EXCEPT ![c] = s],
         UNCHANGED <<wanted, loaded, gate, asked>>
  PROVE  SpacingInv'
<1>1. wanted[c] = 0 /\ loaded[c] <= RetryAfterMax
  BY DEF SpacingInv, Spaced, Calm
<1>2. Spaced(c)'
  BY <1>1 DEF Spaced, DoInv, Calm
<1>3. PausesCapped'
  BY DEF SpacingInv, PausesCapped
<1>4. \A d \in Callers \ {c} : UNCHANGED <<pc[d], sleep[d], wanted[d], loaded[d]>>
  BY DEF DoInv
<1>5. QED
  BY <1>2, <1>3, <1>4, OwnWaits

LEMMA CalmStepsOfCall ==
  ASSUME DoInv, SpacingInv, NEW c \in Callers,
         \/ Enter(c) \/ AcquireSlot(c) \/ SlotCancelled(c)
         \/ PassGate(c) \/ SleepAtGate(c) \/ WakeAtGate(c)
         \/ Unlimited(c) \/ LiveOnArrival(c) \/ TakeToken(c) \/ NoToken(c)
         \/ Send(c) \/ Release(c) \/ Report(c)
  PROVE  SpacingInv'
<1> DEFINE Moves == /\ pc[c] \in Calm /\ \E p \in Calm : pc' = [pc EXCEPT ![c] = p]
                    /\ UNCHANGED <<wanted, loaded, gate, asked>>
<1>1. Moves
  <2> USE DEF Calm, Points, Answered, Goto, callVars, shared, timers, gateVars
  <2>1. CASE Enter(c)
    BY <2>1 DEF Enter, NewCall
  <2>2. CASE AcquireSlot(c)
    BY <2>2 DEF AcquireSlot
  <2>3. CASE SlotCancelled(c)
    BY <2>3 DEF SlotCancelled, LeaveQueue
  <2>4. CASE PassGate(c) \/ WakeAtGate(c)
    BY <2>4 DEF PassGate, WakeAtGate
  <2>5. CASE SleepAtGate(c)
    BY <2>5 DEF SleepAtGate, Sleep, DoInv
  <2>6. CASE Unlimited(c) \/ LiveOnArrival(c) \/ NoToken(c)
    BY <2>6 DEF Unlimited, LiveOnArrival, NoToken
  <2>7. CASE TakeToken(c)
    BY <2>7 DEF TakeToken
  <2>8. CASE Send(c)
    BY <2>8 DEF Send
  <2>9. CASE Release(c) \/ Report(c)
    BY <2>9 DEF Release, Report
  <2>10. QED
    BY <2>1, <2>2, <2>3, <2>4, <2>5, <2>6, <2>7, <2>8, <2>9
<1>2. PICK s \in Nat : sleep' = [sleep EXCEPT ![c] = s]
  <2>1. CASE SleepAtGate(c)
    BY <2>1 DEF SleepAtGate, Sleep, DoInv
  <2>2. CASE ~SleepAtGate(c)
    <3>1. UNCHANGED sleep
      <4> USE DEF callVars, shared, timers
      <4>1. CASE Enter(c) \/ AcquireSlot(c) \/ SlotCancelled(c)
        BY <4>1 DEF Enter, NewCall, AcquireSlot, SlotCancelled, LeaveQueue
      <4>2. CASE PassGate(c) \/ WakeAtGate(c) \/ Unlimited(c) \/ LiveOnArrival(c)
        BY <4>2 DEF PassGate, WakeAtGate, Unlimited, LiveOnArrival
      <4>3. CASE TakeToken(c) \/ NoToken(c) \/ Send(c) \/ Release(c) \/ Report(c)
        BY <4>3 DEF TakeToken, NoToken, Send, Release, Report
      <4>4. QED
        BY <2>2, <4>1, <4>2, <4>3
    <3>2. sleep[c] \in Nat /\ sleep' = [sleep EXCEPT ![c] = sleep[c]]
      BY <3>1 DEF DoInv
    <3>3. QED
      BY <3>2
  <2>3. QED
    BY <2>1, <2>2
<1>3. QED
  BY <1>1, <1>2, CalmSteps

\* A call that returns has nothing left to wait for.
LEMMA ReturnsOfCall ==
  ASSUME DoInv, SpacingInv, NEW c \in Callers,
         \/ GateStopped(c) \/ GateCancelled(c) \/ TokenCancelled(c) \/ TokenStopped(c)
         \/ RewindFails(c) \/ Panics(c) \/ BackoffCancelled(c)
         \/ \E bad \in BOOLEAN : Respond(c, bad)
  PROVE  SpacingInv'
<1>1. /\ pc' = [pc EXCEPT ![c] = "release"]
      /\ sleep' = [sleep EXCEPT ![c] = 0]
      /\ wanted' = [wanted EXCEPT ![c] = 0]
      /\ UNCHANGED <<loaded, gate, asked>>
  <2> USE DEF Returns, Goto, Sleep, shared, gateVars
  <2>1. CASE GateStopped(c) \/ TokenStopped(c)
    BY <2>1 DEF GateStopped, TokenStopped, WaitStopped, CutByStop
  <2>2. CASE GateCancelled(c) \/ TokenCancelled(c)
    BY <2>2 DEF GateCancelled, TokenCancelled, WaitCancelled
  <2>3. CASE RewindFails(c) \/ Panics(c) \/ BackoffCancelled(c)
    BY <2>3 DEF RewindFails, FailToRewind, Panics, BackoffCancelled
  <2>4. CASE \E bad \in BOOLEAN : Respond(c, bad)
    BY <2>4 DEF Respond
  <2>5. QED
    BY <2>1, <2>2, <2>3, <2>4
<1>2. Spaced(c)'
  BY <1>1 DEF SpacingInv, Spaced, DoInv, Answered
<1>3. PausesCapped'
  BY <1>1 DEF SpacingInv, PausesCapped
<1>4. \A d \in Callers \ {c} : UNCHANGED <<pc[d], sleep[d], wanted[d], loaded[d]>>
  BY <1>1 DEF DoInv
<1>5. QED
  BY <1>2, <1>3, <1>4, OwnWaits

\* A call that has been told to wait brings a pause up to the cap.
LEMMA PausesOfCall ==
  ASSUME DoInv, SpacingInv, NEW c \in Callers,
         ExtendLoad(c) \/ ExtendRetries(c) \/ \E h \in Headers : Throttle(c, h)
  PROVE  SpacingInv'
<1>1. PausesCapped'
  BY DEF SpacingInv, PausesCapped, ExtendLoad, ExtendRetries, Throttle, shared, gateVars
<1>2. CASE ExtendLoad(c) \/ ExtendRetries(c)
  <2>1. /\ wanted[c] <= sleep[c] /\ sleep[c] <= RetryAfterMax
        /\ loaded[c] <= RetryAfterMax /\ gate <= RetryAfterMax
    BY <1>2 DEF SpacingInv, PausesCapped, Spaced, ExtendLoad, ExtendRetries, Answered
  <2>2. /\ \E p \in Answered : pc' = [pc EXCEPT ![c] = p]
        /\ loaded' = loaded \/ loaded' = [loaded EXCEPT ![c] = gate]
        /\ sleep' = sleep /\ wanted' = wanted
    BY <1>2 DEF ExtendLoad, ExtendRetries, Goto, callVars, timers, Answered, DoInv
  <2>3. Spaced(c)'
    BY <2>1, <2>2 DEF Spaced, DoInv, Answered
  <2>4. \A d \in Callers \ {c} : UNCHANGED <<pc[d], sleep[d], wanted[d], loaded[d]>>
    BY <2>2 DEF DoInv
  <2>5. QED
    BY <1>1, <2>3, <2>4, OwnWaits
<1>3. ASSUME NEW h \in Headers, Throttle(c, h) PROVE SpacingInv'
  <2> DEFINE pause == Smaller(h.read, RetryAfterMax)
  <2>1. pause \in Nat /\ pause <= RetryAfterMax /\ Smaller(h.asks, RetryAfterMax) = pause
    BY HeadersAreRead
  <2>2. /\ pc' = [pc EXCEPT ![c] = "extend"] /\ loaded' = loaded
        /\ sleep' = [sleep EXCEPT ![c] = pause] /\ wanted' = [wanted EXCEPT ![c] = pause]
    BY <1>3, <2>1 DEF Throttle, Sleep, Goto
  <2> HIDE DEF pause
  <2>3. Spaced(c)'
    BY <2>1, <2>2 DEF SpacingInv, Spaced, DoInv, Answered
  <2>4. \A d \in Callers \ {c} : UNCHANGED <<pc[d], sleep[d], wanted[d], loaded[d]>>
    BY <2>2 DEF DoInv
  <2>5. QED
    BY <1>1, <2>3, <2>4, OwnWaits
<1>4. QED
  BY <1>2, <1>3

\* After the gate a call waits for the later of its pause and its backoff.
LEMMA PausesEnd ==
  ASSUME DoInv, CountInv, SpacingInv, NEW c \in Callers,
         ExtendNotNeeded(c) \/ ExtendSwaps(c)
  PROVE  SpacingInv'
<1>1. /\ AfterThrottle(c) /\ loaded' = loaded /\ pc[c] \in Answered
      /\ asked' = Larger(asked, wanted[c]) /\ (gate' = gate \/ gate' = sleep[c])
  BY DEF ExtendNotNeeded, ExtendSwaps, Answered
<1>2. /\ wanted[c] <= sleep[c] /\ sleep[c] <= RetryAfterMax /\ loaded[c] <= RetryAfterMax
      /\ gate <= RetryAfterMax /\ asked <= RetryAfterMax
      /\ gate \in Nat /\ asked \in Nat /\ sleep[c] \in Nat /\ wanted[c] \in Nat
      /\ RetryAfterMax \in Nat
  BY <1>1, DoAssumption DEF SpacingInv, PausesCapped, Spaced, DoInv, DoAssumption
<1>3. PausesCapped'
  <2>1. Larger(asked, wanted[c]) <= RetryAfterMax
    BY <1>2 DEF Larger
  <2>2. QED
    BY <1>1, <1>2, <2>1 DEF PausesCapped
<1> DEFINE Goes(p, s, w) == /\ pc' = [pc EXCEPT ![c] = p]
                            /\ sleep' = [sleep EXCEPT ![c] = s]
                            /\ wanted' = [wanted EXCEPT ![c] = w]
<1>4. CASE Goes("release", 0, 0)
  <2>1. Spaced(c)'
    BY <1>1, <1>2, <1>4 DEF Spaced, DoInv, Answered
  <2>2. \A d \in Callers \ {c} : UNCHANGED <<pc[d], sleep[d], wanted[d], loaded[d]>>
    BY <1>1, <1>4 DEF DoInv
  <2>3. QED
    BY <1>3, <2>1, <2>2, OwnWaits
<1>5. ASSUME NEW b \in Backoffs(c),
             Goes("backoff", WaitAfterThrottle(c, b), Larger(wanted[c], MinBackoff(c)))
      PROVE  SpacingInv'
  <2>1. b \in Nat /\ MinBackoff(c) \in Nat /\ MinBackoff(c) <= b
    BY BackoffsBounded DEF CountInv, CountTypes
  <2>2. Larger(wanted[c], MinBackoff(c)) <= WaitAfterThrottle(c, b)
    BY <1>2, <2>1 DEF Larger, WaitAfterThrottle
  <2>3. Spaced(c)'
    BY <1>1, <1>2, <1>5, <2>2 DEF Spaced, DoInv, Answered
  <2>4. \A d \in Callers \ {c} : UNCHANGED <<pc[d], sleep[d], wanted[d], loaded[d]>>
    BY <1>1, <1>5 DEF DoInv
  <2>5. QED
    BY <1>3, <2>3, <2>4, OwnWaits
<1>6. QED
  BY <1>1, <1>4, <1>5 DEF AfterThrottle, Returns, Sleep, Goto

\* After a transport error it waits for its backoff.
LEMMA ErrorsKeepSpacing ==
  ASSUME DoInv, CountInv, SpacingInv, NEW c \in Callers,
         NEW e \in TransportErrors, NEW retryable \in BOOLEAN, AttemptFails(c, e, retryable)
  PROVE  SpacingInv'
<1>1. PausesCapped' /\ loaded' = loaded /\ loaded[c] <= RetryAfterMax
  BY DEF AttemptFails, shared, gateVars, SpacingInv, PausesCapped, Spaced
<1> DEFINE Goes(p, s, w) == /\ pc' = [pc EXCEPT ![c] = p]
                            /\ sleep' = [sleep EXCEPT ![c] = s]
                            /\ wanted' = [wanted EXCEPT ![c] = w]
<1>2. CASE Goes("release", 0, 0)
  <2>1. Spaced(c)'
    BY <1>1, <1>2 DEF Spaced, DoInv, Answered
  <2>2. \A d \in Callers \ {c} : UNCHANGED <<pc[d], sleep[d], wanted[d], loaded[d]>>
    BY <1>1, <1>2 DEF DoInv
  <2>3. QED
    BY <1>1, <2>1, <2>2, OwnWaits
<1>3. ASSUME NEW b \in Backoffs(c), Goes("backoff", b, MinBackoff(c))
      PROVE  SpacingInv'
  <2>1. MinBackoff(c) <= b
    BY BackoffsBounded DEF CountInv, CountTypes
  <2>2. Spaced(c)'
    BY <1>1, <1>3, <2>1 DEF Spaced, DoInv, Answered
  <2>3. \A d \in Callers \ {c} : UNCHANGED <<pc[d], sleep[d], wanted[d], loaded[d]>>
    BY <1>1, <1>3 DEF DoInv
  <2>4. QED
    BY <1>1, <2>2, <2>3, OwnWaits
<1>4. QED
  BY <1>2, <1>3 DEF AttemptFails, Returns, Sleep, Goto

\* The wait is over when nothing is left to wait for.
LEMMA RetriesKeepSpacing ==
  ASSUME DoInv, SpacingInv, NEW c \in Callers, NextAttempt(c)
  PROVE  SpacingInv'
<1>1. /\ pc[c] = "backoff" /\ sleep[c] = 0 /\ pc' = [pc EXCEPT ![c] = "gate"]
      /\ UNCHANGED <<sleep, wanted, loaded, gate, asked>>
  BY DEF NextAttempt, Goto, timers, shared, gateVars
<1>2. wanted[c] = 0
  BY <1>1 DEF SpacingInv, Spaced, DoInv
<1>3. Spaced(c)'
  BY <1>1, <1>2 DEF SpacingInv, Spaced, DoInv, Answered
<1>4. PausesCapped'
  BY <1>1 DEF SpacingInv, PausesCapped
<1>5. \A d \in Callers \ {c} : UNCHANGED <<pc[d], sleep[d], wanted[d], loaded[d]>>
  BY <1>1 DEF DoInv
<1>6. QED
  BY <1>3, <1>4, <1>5, OwnWaits

\* Time passes for the waits and for what they are for.
LEMMA TickKeepsSpacing ==
  ASSUME DoInv, SpacingInv, Tick
  PROVE  SpacingInv'
<1>1. RetryAfterMax \in Nat /\ \A x \in Nat : Less(x) <= x
  BY DoAssumption, WaitsAssumption DEF DoAssumption, WaitsAssumption, Less
<1>2. PausesCapped'
  <2>1. gate \in Nat /\ asked \in Nat /\ gate <= RetryAfterMax /\ asked <= RetryAfterMax
    BY DEF DoInv, SpacingInv, PausesCapped
  <2>2. gate' = Less(gate) /\ asked' = Less(asked)
    BY DEF Tick
  <2>3. QED
    BY <1>1, <2>1, <2>2, LessFacts DEF PausesCapped
<1>3. ASSUME NEW c \in Callers PROVE Spaced(c)'
  <2>1. /\ pc' = pc /\ sleep'[c] = Less(sleep[c]) /\ wanted'[c] = Less(wanted[c])
        /\ loaded'[c] = Less(loaded[c])
    BY DEF Tick
  <2>2. sleep[c] \in Nat /\ wanted[c] \in Nat /\ loaded[c] \in Nat
    BY DEF DoInv
  <2>3. /\ Less(sleep[c]) \in Nat /\ Less(sleep[c]) <= sleep[c]
        /\ Less(loaded[c]) \in Nat /\ Less(loaded[c]) <= loaded[c]
        /\ wanted[c] <= sleep[c] => Less(wanted[c]) <= Less(sleep[c])
        /\ wanted[c] = 0 => Less(wanted[c]) = 0
    BY <1>1, <2>2, LessFacts DEF Less
  <2>4. Spaced(c)
    BY DEF SpacingInv
  <2>5. QED
    BY <1>1, <2>1, <2>2, <2>3, <2>4 DEF Spaced
<1>4. QED
  BY <1>2, <1>3 DEF SpacingInv

LEMMA NextKeepsSpacing ==
  ASSUME DoInv, CountInv, SpacingInv, [DoNext]_doVars
  PROVE  SpacingInv'
<1> USE DEF shared, callVars, timers, gateVars
<1>1. ASSUME UNCHANGED <<pc, sleep, wanted, loaded, gate, asked>> PROVE SpacingInv'
  BY <1>1 DEF SpacingInv, PausesCapped, Spaced
<1>2. ASSUME NEW c \in Callers, Enter(c) \/ Step(c) PROVE SpacingInv'
  <2>1. CASE \/ Enter(c) \/ AcquireSlot(c) \/ SlotCancelled(c)
             \/ PassGate(c) \/ SleepAtGate(c) \/ WakeAtGate(c)
             \/ Unlimited(c) \/ LiveOnArrival(c) \/ TakeToken(c) \/ NoToken(c)
             \/ Send(c) \/ Release(c) \/ Report(c)
    BY <2>1, CalmStepsOfCall
  <2>2. CASE \/ GateStopped(c) \/ GateCancelled(c) \/ TokenCancelled(c) \/ TokenStopped(c)
             \/ RewindFails(c) \/ Panics(c) \/ BackoffCancelled(c)
             \/ \E bad \in BOOLEAN : Respond(c, bad)
    BY <2>2, ReturnsOfCall
  <2>3. CASE ExtendLoad(c) \/ ExtendRetries(c) \/ \E h \in Headers : Throttle(c, h)
    BY <2>3, PausesOfCall
  <2>4. CASE ExtendNotNeeded(c) \/ ExtendSwaps(c)
    BY <2>4, PausesEnd
  <2>5. CASE \E e \in TransportErrors, retryable \in BOOLEAN : AttemptFails(c, e, retryable)
    BY <2>5, ErrorsKeepSpacing
  <2>6. CASE NextAttempt(c)
    BY <2>6, RetriesKeepSpacing
  <2>7. QED
    BY <1>2, <2>1, <2>2, <2>3, <2>4, <2>5, <2>6 DEF Step
<1>3. ASSUME NEW c \in Callers, FastFail(c) \/ CallerCancels(c) \/ DeadlinePasses(c)
      PROVE  SpacingInv'
  BY <1>1, <1>3 DEF FastFail, CallerCancels, DeadlinePasses, ContextEnds, NewCall
<1>4. CASE Tick
  BY <1>4, TickKeepsSpacing
<1>5. CASE Stop \/ Refill \/ RefillerExits \/ ElapseStep
  BY <1>1, <1>5 DEF Stop, Refill, RefillerExits, BesideBucket, ElapseStep
<1>6. CASE UNCHANGED doVars
  BY <1>1, <1>6 DEF doVars
<1>7. QED
  BY <1>2, <1>3, <1>4, <1>5, <1>6 DEF DoNext

LEMMA InitIsSpaced == DoInit => SpacingInv
<1> SUFFICES ASSUME DoInit PROVE SpacingInv
  OBVIOUS
<1>1. RetryAfterMax \in Nat
  BY DoAssumption, WaitsAssumption DEF DoAssumption, WaitsAssumption
<1>2. QED
  BY <1>1 DEF DoInit, SpacingInv, PausesCapped, Spaced, Answered

(***************************************************************************)
(* The step that begins a wait for a retry                                 *)
(***************************************************************************)

\* Only the two ways out of the gate and a failed attempt lead there.
LEMMA BackoffsNext ==
  ASSUME CountInv, NEW c \in Callers, Step(c), BeginsBackoff(c)
  PROVE  \/ ExtendNotNeeded(c) \/ ExtendSwaps(c)
         \/ \E e \in TransportErrors, retryable \in BOOLEAN : AttemptFails(c, e, retryable)
<1> USE DEF CountInv, CountTypes, BeginsBackoff, Goto, Returns, WaitStopped, WaitCancelled, CutByStop
<1>1. CASE AcquireSlot(c) \/ SlotCancelled(c) \/ Release(c) \/ Report(c)
  BY <1>1 DEF AcquireSlot, SlotCancelled, LeaveQueue, Release, Report
<1>2. CASE PassGate(c) \/ SleepAtGate(c) \/ WakeAtGate(c) \/ GateStopped(c) \/ GateCancelled(c)
  BY <1>2 DEF PassGate, SleepAtGate, WakeAtGate, GateStopped, GateCancelled
<1>3. CASE \/ Unlimited(c) \/ LiveOnArrival(c) \/ TokenCancelled(c) \/ TakeToken(c) \/ NoToken(c)
           \/ TokenStopped(c)
  BY <1>3 DEF Unlimited, LiveOnArrival, TokenCancelled, TakeToken, NoToken, TokenStopped
<1>4. CASE Send(c) \/ RewindFails(c) \/ Panics(c) \/ NextAttempt(c) \/ BackoffCancelled(c)
  BY <1>4 DEF Send, RewindFails, FailToRewind, Panics, NextAttempt, BackoffCancelled
<1>5. CASE \/ \E bad \in BOOLEAN : Respond(c, bad)
           \/ \E h \in Headers : Throttle(c, h)
  BY <1>5 DEF Respond, Throttle
<1>6. CASE ExtendLoad(c) \/ ExtendRetries(c)
  BY <1>6 DEF ExtendLoad, ExtendRetries
<1>7. QED
  BY <1>1, <1>2, <1>3, <1>4, <1>5, <1>6 DEF Step

\* Whoever begins to wait takes that step itself.
LEMMA OnlyOwnStepBegins ==
  ASSUME CountInv, [DoNext]_doVars, NEW c \in Callers, BeginsBackoff(c)
  PROVE  Step(c)
<1> USE DEF BeginsBackoff, CountInv, CountTypes
<1>1. ASSUME NEW d \in Callers, Step(d) PROVE Step(c)
  <2>1. PICK p : pc' = [pc EXCEPT ![d] = p]
    BY <1>1, StepMovesOne
  <2>2. QED
    BY <1>1, <2>1
<1>2. ASSUME NEW d \in Callers, Enter(d) \/ FastFail(d) \/ CallerCancels(d) \/ DeadlinePasses(d)
      PROVE  FALSE
  BY <1>2 DEF Enter, FastFail, CallerCancels, DeadlinePasses, ContextEnds, NewCall, Goto
<1>3. CASE Tick \/ Stop \/ Refill \/ RefillerExits \/ ElapseStep \/ UNCHANGED doVars
  BY <1>3 DEF Tick, Stop, Refill, RefillerExits, BesideBucket, ElapseStep, doVars
<1>4. QED
  BY <1>1, <1>2, <1>3 DEF DoNext

\* After the gate: the pause and the backoff bound the wait from both sides.
LEMMA WaitAfterGate ==
  ASSUME DoInv, CountInv, SpacingInv, NEW c \in Callers, BeginsBackoff(c),
         ExtendNotNeeded(c) \/ ExtendSwaps(c)
  PROVE  /\ pc[c] # "wire"
         /\ wanted'[c] <= sleep'[c]
         /\ sleep'[c] <= Larger(Nominal(Base, Ceiling, attempt[c]), RetryAfterMax)
<1>1. pc[c] \in Answered /\ AfterThrottle(c)
  BY DEF ExtendNotNeeded, ExtendSwaps, Answered
<1>2. PICK b \in Backoffs(c) :
        /\ sleep' = [sleep EXCEPT ![c] = WaitAfterThrottle(c, b)]
        /\ wanted' = [wanted EXCEPT ![c] = Larger(wanted[c], MinBackoff(c))]
  BY <1>1 DEF AfterThrottle, BeginsBackoff, Sleep, Returns, Goto, CountInv, CountTypes
<1>3. sleep'[c] = WaitAfterThrottle(c, b) /\ wanted'[c] = Larger(wanted[c], MinBackoff(c))
  BY <1>2 DEF DoInv
<1>4. /\ b \in Nat /\ MinBackoff(c) \in Nat /\ MinBackoff(c) <= b
      /\ Nominal(Base, Ceiling, attempt[c]) \in Nat /\ b <= Nominal(Base, Ceiling, attempt[c])
  BY BackoffsBounded DEF CountInv, CountTypes
<1>5. /\ wanted[c] \in Nat /\ sleep[c] \in Nat /\ RetryAfterMax \in Nat
      /\ wanted[c] <= sleep[c] /\ sleep[c] <= RetryAfterMax
  BY <1>1, DoAssumption DEF SpacingInv, Spaced, DoInv, DoAssumption
<1>6. QED
  BY <1>1, <1>3, <1>4, <1>5 DEF WaitAfterThrottle, Larger, Answered

\* After a failed attempt: the backoff, and nothing else.
LEMMA WaitAfterError ==
  ASSUME DoInv, CountInv, NEW c \in Callers, BeginsBackoff(c),
         NEW e \in TransportErrors, NEW retryable \in BOOLEAN, AttemptFails(c, e, retryable)
  PROVE  /\ pc[c] = "wire"
         /\ wanted'[c] <= sleep'[c]
         /\ sleep'[c] <= Nominal(Base, Ceiling, attempt[c])
<1>1. PICK b \in Backoffs(c) :
        /\ sleep' = [sleep EXCEPT ![c] = b]
        /\ wanted' = [wanted EXCEPT ![c] = MinBackoff(c)]
  BY DEF AttemptFails, BeginsBackoff, Sleep, Returns, Goto, CountInv, CountTypes
<1>2. sleep'[c] = b /\ wanted'[c] = MinBackoff(c)
  BY <1>1 DEF DoInv
<1>3. QED
  BY <1>2, BackoffsBounded DEF AttemptFails, CountInv, CountTypes

(***************************************************************************)
(* Theorems                                                                *)
(***************************************************************************)

\* The inductive invariant of Do (circuitbreaker.go:237-397).
THEOREM DoInvariant == DoSpec => []DoInv
BY InitHasInv, NextKeepsInv, CountInvariant, PTL DEF DoSpec

\* Every slot is given back exactly once, on every way out of Do, and there are
\* never more of them taken than maxConcurrent (circuitbreaker.go:263-271).
THEOREM SlotsAlwaysHeld == DoSpec => []SlotsHeld
<1>1. DoInv => SlotsHeld
  BY DEF DoInv
<1>2. QED
  BY <1>1, DoInvariant, PTL

\* Every admitted call reports, and only an admitted one (circuitbreaker.go:237-261).
THEOREM AdmissionsAlwaysReported == DoSpec => []AdmissionsReported
<1>1. DoInv => AdmissionsReported
  BY DEF DoInv
<1>2. QED
  BY <1>1, DoInvariant, PTL

\* No extension of the gate shortens a pause (circuitbreaker.go:437-445).
THEOREM PausesAlwaysRemembered == DoSpec => []PauseRemembered
<1>1. DoInv => PauseRemembered
  BY DEF DoInv
<1>2. QED
  BY <1>1, DoInvariant, PTL

\* The inductive invariant on the waits of a call (circuitbreaker.go:332-391).
THEOREM SpacingInvariant == DoSpec => []SpacingInv
BY InitIsSpaced, NextKeepsSpacing, DoInvariant, CountInvariant, PTL DEF DoSpec

\* No request is sent again before its pause and its backoff are over, whatever the
\* header and the backoff are and however late the gate was swapped
\* (circuitbreaker.go:344-362, 385-391).
THEOREM RetriesAlwaysSpaced == DoSpec => []RetriesSpaced
<1>1. SpacingInv => RetriesSpaced
  BY DEF SpacingInv, Spaced, RetriesSpaced, Answered
<1>2. QED
  BY <1>1, SpacingInvariant, PTL

\* For every range of durations, unit, base, ceiling, header and cap, what Do computes
\* before it waits is what is meant (circuitbreaker.go:410-421, options.go:150-168).
THEOREM DurationsAlwaysExact == DoSpec => []DurationsExact
<1>1. MaxDuration \in Nat /\ \A n \in 0 .. MaxDuration \div 2 : n \in Nat
  BY WaitsAssumption DEF WaitsAssumption
<1>2. DurationsExact
  BY <1>1, HeadersExact, BackoffsExact DEF DurationsExact
<1>3. QED
  BY <1>2, PTL

\* Every wait before a retry is at least what is asked for, and at most the larger of
\* the nominal backoff and the cap of the pause (circuitbreaker.go:332-355, 384-390).
THEOREM WaitsAlwaysKept == DoSpec => WaitsKept
<1> DEFINE Kept(c) ==
      LET most == Nominal(Base, Ceiling, attempt[c]) IN
      /\ wanted'[c] <= sleep'[c]
      /\ sleep'[c] <= IF pc[c] = "wire" THEN most ELSE Larger(most, RetryAfterMax)
<1>1. ASSUME DoInv, CountInv, SpacingInv, [DoNext]_doVars, NEW c \in Callers, BeginsBackoff(c)
      PROVE  Kept(c)
  <2>1. Step(c)
    BY <1>1, OnlyOwnStepBegins
  <2>2. CASE ExtendNotNeeded(c) \/ ExtendSwaps(c)
    BY <1>1, <2>2, WaitAfterGate
  <2>3. CASE \E e \in TransportErrors, retryable \in BOOLEAN : AttemptFails(c, e, retryable)
    BY <1>1, <2>3, WaitAfterError
  <2>4. QED
    BY <1>1, <2>1, <2>2, <2>3, BackoffsNext
<1>2. DoInv /\ CountInv /\ SpacingInv /\ [DoNext]_doVars
        => [\A c \in Callers : BeginsBackoff(c) => Kept(c)]_doVars
  BY <1>1
<1>3. QED
  BY <1>2, DoInvariant, CountInvariant, SpacingInvariant, PTL DEF DoSpec, WaitsKept

\* The types of the bucket: it never holds more tokens than there is room for.
LEMMA LimiterTypeCorrect ==
  LimiterSpec => [](tokens \in 0..Capacity /\ stopped \in BOOLEAN /\ filling \in BOOLEAN)
<1> DEFINE Room == tokens \in 0..Capacity
           Flags == stopped \in BOOLEAN /\ filling \in BOOLEAN
<1>1. LimiterInit => Room
  BY LimiterAssumption DEF LimiterInit, LimiterAssumption
<1>2. LimiterInit => Flags
  <2>1. (Capacity > 0) \in BOOLEAN
    OBVIOUS
  <2>2. QED
    BY <2>1, Zenon DEF LimiterInit
<1>3. Room /\ [LimiterNext]_bucket => Room'
  BY LimiterAssumption DEF LimiterNext, Take, Fill, Close, FillerExits, bucket, LimiterAssumption
<1>4. Flags /\ [LimiterNext]_bucket => Flags'
  BY Zenon DEF LimiterNext, Take, Fill, Close, FillerExits, bucket
<1>5. QED
  BY <1>1, <1>2, <1>3, <1>4, PTL DEF LimiterSpec

\* All variables of Do keep their types; in particular no call loops more often than
\* maxRetries allows, and no pause exceeds retryAfterMax (circuitbreaker.go:279, 415-421).
THEOREM DoTypeCorrect == DoSpec => []DoTypeOK
<1> DEFINE T == tokens \in 0..Capacity /\ stopped \in BOOLEAN /\ filling \in BOOLEAN
<1>1. DoInv /\ CountInv /\ SpacingInv /\ CircuitTypeOK /\ T => DoTypeOK
  <2> SUFFICES ASSUME DoInv, CountInv, SpacingInv, CircuitTypeOK, T PROVE DoTypeOK
    OBVIOUS
  <2>1. RetryAfterMax \in Nat /\ MaxRetries \in Nat
    BY DoAssumption DEF DoAssumption
  <2>2. attempt \in [Callers -> 0..MaxRetries]
    BY <2>1 DEF CountInv, CountTypes, Account, Progress
  <2>3. loaded \in [Callers -> 0..RetryAfterMax]
    BY <2>1 DEF DoInv, SpacingInv, Spaced
  <2>4. gate \in 0..RetryAfterMax /\ asked \in 0..RetryAfterMax
    BY <2>1 DEF DoInv, SpacingInv, PausesCapped
  <2>5. QED
    BY <2>2, <2>3, <2>4 DEF DoTypeOK, DoInv, CountInv, CountTypes
<1>2. DoSpec => []T
  BY LimiterTypeCorrect, DoUsesLimiter, PTL
<1>3. DoSpec => []CircuitTypeOK
  BY CircuitTypeCorrect, DoUsesCircuit, PTL
<1>4. QED
  BY <1>1, <1>2, <1>3, DoInvariant, CountInvariant, SpacingInvariant, PTL
=============================================================================
