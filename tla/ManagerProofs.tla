---------------------------- MODULE ManagerProofs ----------------------------
(***************************************************************************)
(* Proofs about Manager: for any number of clients, names and breakers the *)
(* two maps agree, the strict mode answers honestly, and no breaker is     *)
(* left running out of reach.                                              *)
(***************************************************************************)
EXTENDS Manager, TLAPS

ManagerInv ==
  /\ ManagerTypeOK
  /\ ConfigsMatch
  /\ NoneOrphaned
  /\ StrictAnswers

\* What creation needs and leaves: everything but the answer.
MapsInv == ManagerTypeOK /\ ConfigsMatch /\ NoneOrphaned

(***************************************************************************)
(* Creation                                                                *)
(***************************************************************************)

\* Every name of specs has a breaker afterwards, one that was there or a new one,
\* and no breaker that was built before is rebuilt.
LEMMA CreationKeepsMaps ==
  ASSUME MapsInv, NEW specs \in Specs, CreateMissing(specs)
  PROVE  /\ MapsInv'
         /\ \A n \in DOMAIN specs :
              IF n \in Registered THEN cb'[n] = cb[n] /\ built'[cb[n]] = cfg[n]
                                  ELSE built'[cb'[n]] = specs[n]
<1> DEFINE missing == DOMAIN specs \ Registered
<1> USE DEF MapsInv
<1>1. PICK S \in SUBSET Names : specs \in [S -> Configs]
  BY DEF Specs
<1>2. missing \subseteq Names /\ \A n \in missing : specs[n] \in Configs /\ cb[n] = None
  BY <1>1 DEF Registered
<1>3. PICK new \in [missing -> NotBuilt] :
        /\ \A n1, n2 \in missing : new[n1] = new[n2] => n1 = n2
        /\ cb' = [n \in Names |-> IF n \in missing THEN new[n] ELSE cb[n]]
        /\ cfg' = [n \in Names |-> IF n \in missing THEN specs[n] ELSE cfg[n]]
        /\ built' = [b \in Breakers |->
                       IF \E n \in missing : new[n] = b
                         THEN specs[CHOOSE n \in missing : new[n] = b]
                         ELSE built[b]]
        /\ UNCHANGED <<stopped, stopping>>
  BY DEF CreateMissing, Injection, IsInjective
<1> HIDE DEF missing
<1>4. \A n \in missing : new[n] \in Breakers /\ built[new[n]] = None /\ new[n] # None
  BY <1>3, ManagerAssumption DEF NotBuilt, ManagerAssumption
<1>5. \A n \in missing : built'[new[n]] = specs[n]
  <2> SUFFICES ASSUME NEW n \in missing PROVE built'[new[n]] = specs[n]
    OBVIOUS
  <2>1. (CHOOSE x \in missing : new[x] = new[n]) = n
    BY <1>3
  <2>2. QED
    BY <1>3, <1>4, <2>1
<1>6. \A b \in Breakers : (\A n \in missing : new[n] # b) => built'[b] = built[b]
  BY <1>3
<1>7. \A b \in Breakers : built[b] # None => built'[b] = built[b]
  BY <1>4, <1>6
<1>8. \A n \in Registered : /\ n \in Names /\ n \notin missing /\ cb'[n] = cb[n] /\ cfg'[n] = cfg[n]
                            /\ cb[n] \in Breakers /\ built[cb[n]] = cfg[n] /\ cfg[n] # None
                            /\ built'[cb[n]] = cfg[n]
  <2> SUFFICES ASSUME NEW n \in Registered
               PROVE  /\ n \in Names /\ n \notin missing /\ cb'[n] = cb[n] /\ cfg'[n] = cfg[n]
                      /\ cb[n] \in Breakers /\ built[cb[n]] = cfg[n] /\ cfg[n] # None
                      /\ built'[cb[n]] = cfg[n]
    OBVIOUS
  <2>1. n \in Names /\ cb[n] # None /\ n \notin missing
    BY DEF Registered, missing
  <2>2. cb'[n] = cb[n] /\ cfg'[n] = cfg[n]
    BY <1>3, <2>1
  <2>3. cb[n] \in Breakers /\ built[cb[n]] = cfg[n] /\ cfg[n] # None
    BY <2>1 DEF ManagerTypeOK, ConfigsMatch
  <2>4. QED
    BY <1>7, <2>1, <2>2, <2>3
<1>9. \A n \in Names \ Registered : n \notin missing => cb'[n] = None /\ cfg'[n] = None
  BY <1>3 DEF Registered, ConfigsMatch
<1>10. \A n \in missing : cb'[n] = new[n] /\ cfg'[n] = specs[n] /\ cfg'[n] # None
  BY <1>2, <1>3, ManagerAssumption DEF ManagerAssumption
<1>11. ManagerTypeOK'
  <2>1. cb' \in [Names -> Breakers \cup {None}]
    BY <1>3, <1>4 DEF ManagerTypeOK
  <2>2. cfg' \in [Names -> Configs \cup {None}]
    BY <1>2, <1>3 DEF ManagerTypeOK
  <2>3. built' \in [Breakers -> Configs \cup {None}]
    <3>1. \A b \in Breakers : built'[b] \in Configs \cup {None}
      BY <1>2, <1>5, <1>6 DEF ManagerTypeOK
    <3>2. QED
      BY <1>3, <3>1
  <2>4. QED
    BY <1>3, <2>1, <2>2, <2>3 DEF ManagerTypeOK
<1>12. ConfigsMatch'
  <2>1. ASSUME NEW n \in Names
        PROVE  IF cb'[n] = None THEN cfg'[n] = None
                                ELSE cfg'[n] = built'[cb'[n]] /\ cfg'[n] # None
    <3>1. CASE n \in missing
      BY <1>4, <1>5, <1>10, <3>1
    <3>2. CASE n \in Registered
      BY <1>8, <3>2, ManagerAssumption DEF ManagerAssumption
    <3>3. CASE n \notin missing /\ n \notin Registered
      BY <1>9, <3>3
    <3>4. QED
      BY <3>1, <3>2, <3>3
  <2>2. ASSUME NEW n1 \in Registered', NEW n2 \in Registered', cb'[n1] = cb'[n2]
        PROVE  n1 = n2
    <3>1. n1 \in Registered \cup missing /\ n2 \in Registered \cup missing
      BY <1>9 DEF Registered
    <3>2. \A x \in Registered, y \in missing : cb'[x] # cb'[y]
      BY <1>4, <1>8, <1>10
    <3>3. CASE n1 \in Registered /\ n2 \in Registered
      BY <1>8, <2>2, <3>3 DEF ConfigsMatch
    <3>4. CASE n1 \in missing /\ n2 \in missing
      BY <1>3, <1>10, <2>2, <3>4
    <3>5. QED
      BY <2>2, <3>1, <3>2, <3>3, <3>4
  <2>3. QED
    BY <2>1, <2>2 DEF ConfigsMatch
<1>13. NoneOrphaned'
  <2> SUFFICES ASSUME NEW b \in Breakers \ NotBuilt'
               PROVE  \/ \E n \in Names : cb'[n] = b
                      \/ b \in stopped'
                      \/ \E k \in Clients : b \in stopping'[k]
    BY DEF NoneOrphaned
  <2>1. CASE \E n \in missing : new[n] = b
    BY <1>2, <1>10, <2>1
  <2>2. CASE \A n \in missing : new[n] # b
    <3>1. b \in Breakers \ NotBuilt
      BY <1>6, <2>2 DEF NotBuilt
    <3>2. \A n \in Names : cb[n] = b => cb'[n] = b
      BY <1>8, ManagerAssumption DEF Registered, ManagerAssumption
    <3>3. QED
      BY <1>3, <3>1, <3>2 DEF NoneOrphaned
  <2>3. QED
    BY <2>1, <2>2
<1>14. ASSUME NEW n \in DOMAIN specs
       PROVE  IF n \in Registered THEN cb'[n] = cb[n] /\ built'[cb[n]] = cfg[n]
                                  ELSE built'[cb'[n]] = specs[n]
  BY <1>5, <1>8, <1>10 DEF missing
<1>15. QED
  BY <1>11, <1>12, <1>13, <1>14

\* One name is a map of one spec.
LEMMA SingleSpec ==
  ASSUME NEW n \in Names, NEW want \in Configs
  PROVE  [x \in {n} |-> want] \in Specs
<1>1. [x \in {n} |-> want] \in [{n} -> Configs] /\ {n} \in SUBSET Names
  OBVIOUS
<1>2. QED
  BY <1>1 DEF Specs

LEMMA NoAnswerHonest == answer' = NoAnswer => StrictAnswers' /\ ~Refused'
<1>1. DOMAIN << >> = {}
  OBVIOUS
<1>2. QED
  BY <1>1 DEF NoAnswer, StrictAnswers, Refused

\* An error promises nothing.
LEMMA ErrorIsHonest ==
  ASSUME NEW specs, Rejected(specs), \E n : n \in DOMAIN specs
  PROVE  StrictAnswers'
<1>1. DOMAIN << >> = {}
  OBVIOUS
<1>2. QED
  BY <1>1 DEF Rejected, StrictAnswers, Refused

\* Steps that leave maps and breakers alone.
LEMMA NothingKeepsMaps ==
  ASSUME MapsInv, Nothing
  PROVE  MapsInv'
BY DEF MapsInv, Nothing, maps, ManagerTypeOK, ConfigsMatch, Registered, NoneOrphaned, NotBuilt

\* The answer of a creation that found nothing divergent.
LEMMA AnswerIsHonest ==
  ASSUME MapsInv, NEW specs \in Specs, ~Divergent(specs), CreateMissing(specs), Answered(specs)
  PROVE  StrictAnswers'
<1>1. /\ answer'.specs = specs
      /\ \A n \in DOMAIN specs : answer'.out[n] = cb'[n]
  BY DEF Answered
<1>2. ASSUME NEW n \in DOMAIN specs PROVE built'[cb'[n]] = specs[n]
  <2>1. CASE n \in Registered
    <3>1. cb'[n] = cb[n] /\ built'[cb[n]] = cfg[n]
      BY <2>1, CreationKeepsMaps
    <3>2. cfg[n] = specs[n]
      BY <2>1 DEF Divergent
    <3>3. QED
      BY <3>1, <3>2
  <2>2. CASE n \notin Registered
    BY <2>2, CreationKeepsMaps
  <2>3. QED
    BY <2>1, <2>2
<1>3. QED
  BY <1>1, <1>2 DEF StrictAnswers

LEMMA CreationsKeepInv ==
  ASSUME ManagerInv, NEW k \in Clients,
         \/ \E n \in Names, want \in Configs :
              NewCircuitBreaker(k, n, want) \/ NewCircuitBreakerStrict(k, n, want)
         \/ \E specs \in Specs : ConfigureManager(k, specs)
  PROVE  ManagerInv'
<1>1. MapsInv
  BY DEF ManagerInv, MapsInv
<1>2. PICK specs \in Specs :
        \/ CreateMissing(specs) /\ answer' = NoAnswer
        \/ Nothing /\ Rejected(specs) /\ (Divergent(specs) \/ Inconsistent(specs))
        \/ ~Divergent(specs) /\ CreateMissing(specs) /\ Answered(specs)
  BY SingleSpec DEF NewCircuitBreaker, NewCircuitBreakerStrict, ConfigureManager
<1>3. MapsInv'
  BY <1>1, <1>2, CreationKeepsMaps, NothingKeepsMaps
<1>4. StrictAnswers'
  <2>1. Divergent(specs) \/ Inconsistent(specs) => \E n : n \in DOMAIN specs
    BY DEF Divergent, Inconsistent
  <2>2. QED
    BY <1>1, <1>2, <2>1, NoAnswerHonest, AnswerIsHonest, ErrorIsHonest
<1>5. QED
  BY <1>3, <1>4 DEF ManagerInv, MapsInv

(***************************************************************************)
(* Remove and StopAll                                                      *)
(***************************************************************************)

\* The breaker leaves the maps for the hands of the client that stops it.
LEMMA RemoveKeepsInv ==
  ASSUME ManagerInv, NEW k \in Clients, NEW n \in Names, Remove(k, n)
  PROVE  ManagerInv'
<1> USE DEF ManagerInv
<1>1. /\ n \in Registered /\ cb[n] \in Breakers /\ stopping[k] = {}
      /\ cb' = [cb EXCEPT ![n] = None] /\ cfg' = [cfg EXCEPT ![n] = None]
      /\ stopping' = [stopping EXCEPT ![k] = {cb[n]}]
      /\ UNCHANGED <<built, stopped>>
  BY DEF Remove, Free, Registered, ManagerTypeOK
<1>2. ManagerTypeOK'
  BY <1>1 DEF ManagerTypeOK
<1>3. Registered' \subseteq Registered
  BY <1>1 DEF Registered, ManagerTypeOK
<1>4. \A x \in Names : IF x = n THEN cb'[x] = None /\ cfg'[x] = None
                               ELSE cb'[x] = cb[x] /\ cfg'[x] = cfg[x]
  BY <1>1 DEF ManagerTypeOK
<1>5. ConfigsMatch'
  <2>1. \A x \in Registered' : x # n
    BY <1>4 DEF Registered
  <2>2. QED
    BY <1>1, <1>3, <1>4, <2>1 DEF ConfigsMatch
<1>6. NoneOrphaned'
  <2> SUFFICES ASSUME NEW b \in Breakers \ NotBuilt
               PROVE  \/ \E x \in Names : cb'[x] = b
                      \/ b \in stopped'
                      \/ \E j \in Clients : b \in stopping'[j]
    BY <1>1 DEF NoneOrphaned, NotBuilt
  <2>1. CASE b = cb[n]
    BY <1>1, <2>1 DEF ManagerTypeOK
  <2>2. CASE b # cb[n]
    <3>1. \A j \in Clients : stopping[j] \subseteq stopping'[j]
      BY <1>1 DEF ManagerTypeOK
    <3>2. QED
      BY <1>1, <1>4, <2>2, <3>1 DEF NoneOrphaned
  <2>3. QED
    BY <2>1, <2>2
<1>7. StrictAnswers'
  BY NoAnswerHonest DEF Remove
<1>8. QED
  BY <1>2, <1>5, <1>6, <1>7

\* Stopping takes breakers only from the hands of clients to the stopped ones.
LEMMA StopsKeepInv ==
  ASSUME ManagerInv, NEW k \in Clients, StopAll(k) \/ StopOne(k)
  PROVE  ManagerInv'
<1> USE DEF ManagerInv
<1>1. UNCHANGED <<cb, cfg, built>> /\ answer' = NoAnswer
  BY DEF StopAll, StopOne, maps
<1>2. ManagerTypeOK' /\ \A b \in Breakers : \A j \in Clients :
        /\ b \in stopping[j] => b \in stopping'[j] \/ b \in stopped'
        /\ b \in stopped => b \in stopped'
  <2>1. CASE StopAll(k)
    <3>1. {cb[n] : n \in Registered} \subseteq Breakers
      BY DEF Registered, ManagerTypeOK
    <3>2. QED
      BY <1>1, <2>1, <3>1 DEF StopAll, Free, ManagerTypeOK
  <2>2. CASE StopOne(k)
    <3>1. PICK b \in stopping[k] : /\ stopped' = stopped \cup {b}
                                   /\ stopping' = [stopping EXCEPT ![k] = stopping[k] \ {b}]
      BY <2>2 DEF StopOne
    <3>2. QED
      BY <1>1, <3>1 DEF ManagerTypeOK
  <2>3. QED
    BY <2>1, <2>2
<1>3. ConfigsMatch'
  BY <1>1 DEF ConfigsMatch, Registered
<1>4. NoneOrphaned'
  BY <1>1, <1>2 DEF NoneOrphaned, NotBuilt
<1>5. StrictAnswers'
  BY <1>1, NoAnswerHonest
<1>6. QED
  BY <1>2, <1>3, <1>4, <1>5

LEMMA ManagerNextKeepsInv ==
  ASSUME ManagerInv, [ManagerNext]_managerVars
  PROVE  ManagerInv'
<1>1. CASE ManagerNext
  BY <1>1, CreationsKeepInv, RemoveKeepsInv, StopsKeepInv DEF ManagerNext
<1>2. CASE UNCHANGED managerVars
  BY <1>2 DEF managerVars, maps, ManagerInv, ManagerTypeOK, ConfigsMatch, Registered,
              NoneOrphaned, NotBuilt, StrictAnswers, Refused
<1>3. QED
  BY <1>1, <1>2

LEMMA ManagerInitHasInv == ManagerInit => ManagerInv
<1> SUFFICES ASSUME ManagerInit PROVE ManagerInv
  OBVIOUS
<1>1. ManagerTypeOK /\ ConfigsMatch /\ NoneOrphaned
  BY DEF ManagerInit, ManagerTypeOK, ConfigsMatch, Registered, NoneOrphaned, NotBuilt
<1>2. StrictAnswers
  <2>1. DOMAIN << >> = {}
    OBVIOUS
  <2>2. QED
    BY <2>1 DEF ManagerInit, NoAnswer, StrictAnswers
<1>3. QED
  BY <1>1, <1>2 DEF ManagerInv

(***************************************************************************)
(* Theorems                                                                *)
(***************************************************************************)

\* The inductive invariant of the registry (manager.go:40-145, spec.go:53-104).
THEOREM ManagerInvariant == ManagerSpec => []ManagerInv
BY ManagerInitHasInv, ManagerNextKeepsInv, PTL DEF ManagerSpec

\* The two maps agree, and with what the breakers were built with
\* (manager.go:65-67, 96-98, 119-123).
THEOREM ConfigsAlwaysMatch == ManagerSpec => []ConfigsMatch
<1>1. ManagerInv => ConfigsMatch
  BY DEF ManagerInv
<1>2. QED
  BY <1>1, ManagerInvariant, PTL

\* The strict mode and ConfigureManager hand out no breaker that was built with
\* another configuration (manager.go:71-74, spec.go:37-43).
THEOREM AnswersAlwaysHonest == ManagerSpec => []StrictAnswers
<1>1. ManagerInv => StrictAnswers
  BY DEF ManagerInv
<1>2. QED
  BY <1>1, ManagerInvariant, PTL

\* A breaker that runs is in the registry or about to be stopped (manager.go:114-129).
THEOREM NoneEverOrphaned == ManagerSpec => []NoneOrphaned
<1>1. ManagerInv => NoneOrphaned
  BY DEF ManagerInv
<1>2. QED
  BY <1>1, ManagerInvariant, PTL

\* A creation that returns an error changed nothing, and had a reason to.
LEMMA CreationsRejectWhole ==
  ASSUME ManagerInv, NEW specs \in Specs,
         \/ CreateMissing(specs) /\ answer' = NoAnswer
         \/ Nothing /\ Rejected(specs) /\ (Divergent(specs) \/ Inconsistent(specs))
         \/ CreateMissing(specs) /\ Answered(specs),
         Refused'
  PROVE  /\ UNCHANGED <<maps, built>>
         /\ \E n \in DOMAIN answer'.specs :
              \/ answer'.specs[n] \notin Sound
              \/ n \in Registered /\ built[cb[n]] # answer'.specs[n]
<1>1. ~(answer' = NoAnswer)
  BY NoAnswerHonest
<1>2. ~Answered(specs)
  BY DEF Answered, Refused
<1>3. /\ Nothing /\ answer'.specs = specs
      /\ Divergent(specs) \/ Inconsistent(specs)
  BY <1>1, <1>2 DEF Rejected
<1>4. UNCHANGED <<maps, built>>
  BY <1>3 DEF Nothing, maps
<1>5. CASE Inconsistent(specs)
  BY <1>3, <1>4, <1>5 DEF Inconsistent
<1>6. CASE Divergent(specs)
  <2>1. PICK n \in DOMAIN specs \cap Registered : cfg[n] # specs[n]
    BY <1>6 DEF Divergent
  <2>2. cfg[n] = built[cb[n]]
    BY <2>1 DEF ManagerInv, ConfigsMatch, Registered
  <2>3. QED
    BY <1>3, <1>4, <2>1, <2>2
<1>7. QED
  BY <1>3, <1>5, <1>6

\* A request that ConfigureManager or the strict mode rejects changes nothing, and is
\* rejected for a reason (spec.go:36-38, 69-86, manager.go:86-92).
THEOREM AlwaysRejectedWhole == ManagerSpec => RejectedWhole
<1>1. ManagerInv /\ [ManagerNext]_managerVars =>
        [Refused' =>
           /\ UNCHANGED <<maps, built>>
           /\ \E n \in DOMAIN answer'.specs :
                LET want == answer'.specs[n] IN
                want \notin Sound \/ (n \in Registered /\ built[cb[n]] # want)]_managerVars
  <2> SUFFICES ASSUME ManagerInv, ManagerNext, Refused'
               PROVE  /\ UNCHANGED <<maps, built>>
                      /\ \E n \in DOMAIN answer'.specs :
                           \/ answer'.specs[n] \notin Sound
                           \/ n \in Registered /\ built[cb[n]] # answer'.specs[n]
    OBVIOUS
  <2>1. PICK k \in Clients :
          \/ \E n \in Names, want \in Configs :
               NewCircuitBreaker(k, n, want) \/ NewCircuitBreakerStrict(k, n, want)
          \/ \E specs \in Specs : ConfigureManager(k, specs)
          \/ \E n \in Names : Remove(k, n)
          \/ StopAll(k) \/ StopOne(k)
    BY DEF ManagerNext
  <2>2. ~(answer' = NoAnswer)
    BY NoAnswerHonest
  <2>3. PICK specs \in Specs :
          \/ CreateMissing(specs) /\ answer' = NoAnswer
          \/ Nothing /\ Rejected(specs) /\ (Divergent(specs) \/ Inconsistent(specs))
          \/ CreateMissing(specs) /\ Answered(specs)
    BY <2>1, <2>2, SingleSpec
    DEF NewCircuitBreaker, NewCircuitBreakerStrict, ConfigureManager, Remove, StopAll, StopOne
  <2>4. QED
    BY <2>3, CreationsRejectWhole
<1>2. QED
  BY <1>1, ManagerInvariant, PTL DEF ManagerSpec, RejectedWhole
=============================================================================
