------------------------------ MODULE Manager ------------------------------
(***************************************************************************)
(* The registry of named circuit breakers: src/pkg/manager.go, and         *)
(* ConfigureManager of src/pkg/spec.go.  Creation runs under the write     *)
(* lock and is one step; Remove and StopAll only read or edit the maps     *)
(* under the lock and stop the breakers after they have given it back.     *)
(* GetCircuitBreaker and List only read and have no action.                *)
(***************************************************************************)
EXTENDS FiniteSets, Functions

CONSTANTS
  Clients,   \* goroutines that use the manager
  Names,
  Breakers,  \* the instances that can be built; bounds how many are
  Configs,   \* values of breakerConfig
  Sound,     \* those with both or neither of MaxRequests and WindowSeconds
  None       \* no breaker, no configuration

ASSUME ManagerAssumption ==
  /\ IsFiniteSet(Names)
  /\ Sound \subseteq Configs
  /\ None \notin Breakers \cup Configs

VARIABLES
  cb,        \* m.cb
  cfg,       \* m.cfg
  built,     \* the parameters each breaker was built with
  stopped,   \* the breakers of which Stop has returned
  stopping,  \* per client: what its Remove or StopAll has yet to stop
  answer     \* history: what the last creation asked for and was given, if it
             \* was one that compares configurations

maps == <<cb, cfg>>
managerVars == <<maps, built, stopped, stopping, answer>>

NoAnswer == [specs |-> << >>, out |-> << >>]

Specs == UNION {[S -> Configs] : S \in SUBSET Names}

ManagerTypeOK ==
  /\ cb \in [Names -> Breakers \cup {None}]
  /\ cfg \in [Names -> Configs \cup {None}]
  /\ built \in [Breakers -> Configs \cup {None}]
  /\ stopped \subseteq Breakers
  /\ stopping \in [Clients -> SUBSET Breakers]

ManagerInit ==
  /\ cb = [n \in Names |-> None]
  /\ cfg = [n \in Names |-> None]
  /\ built = [b \in Breakers |-> None]
  /\ stopped = {}
  /\ stopping = [k \in Clients |-> {}]
  /\ answer = NoAnswer

(***************************************************************************)
(* Creation, under the write lock                                          *)
(***************************************************************************)

Registered == {n \in Names : cb[n] # None}

NotBuilt == {b \in Breakers : built[b] = None}

\* Builds and registers a breaker for every name of specs that has none.
CreateMissing(specs) ==
  LET missing == DOMAIN specs \ Registered IN
  \E new \in Injection(missing, NotBuilt) :
    /\ cb' = [n \in Names |-> IF n \in missing THEN new[n] ELSE cb[n]]
    /\ cfg' = [n \in Names |-> IF n \in missing THEN specs[n] ELSE cfg[n]]
    /\ built' = [b \in Breakers |->
                   IF \E n \in missing : new[n] = b
                     THEN specs[CHOOSE n \in missing : new[n] = b]
                     ELSE built[b]]
    /\ UNCHANGED <<stopped, stopping>>

Free(k) == stopping[k] = {}

Nothing == UNCHANGED <<maps, built, stopped, stopping>>

\* Returns what is registered, however it was configured.
NewCircuitBreaker(k, n, want) ==
  /\ Free(k)
  /\ CreateMissing([x \in {n} |-> want])
  /\ answer' = NoAnswer

\* Mutant: names that exist are not compared.
DivergentNever(specs) == FALSE

Divergent(specs) == \E n \in DOMAIN specs \cap Registered : cfg[n] # specs[n]

Answered(specs) == answer' = [specs |-> specs, out |-> [n \in DOMAIN specs |-> cb'[n]]]

\* An error, and no breakers.
Rejected(specs) == answer' = [specs |-> specs, out |-> << >>]

NewCircuitBreakerStrict(k, n, want) ==
  LET specs == [x \in {n} |-> want] IN
  /\ Free(k)
  /\ IF Divergent(specs) THEN Nothing /\ Rejected(specs)
                         ELSE CreateMissing(specs) /\ Answered(specs)

Inconsistent(specs) == \E n \in DOMAIN specs : specs[n] \notin Sound

\* Mutant: the specs are validated and created one by one.
ConfigureManagerPiecewise(k, specs) ==
  LET fine == {n \in DOMAIN specs : specs[n] \in Sound /\ (n \in Registered => cfg[n] = specs[n])}
  IN  /\ Free(k)
      /\ CreateMissing(Restrict(specs, fine))
      /\ IF fine = DOMAIN specs THEN Answered(specs) ELSE Rejected(specs)

\* Validates every spec before it creates any.
ConfigureManager(k, specs) ==
  /\ Free(k)
  /\ IF Divergent(specs) \/ Inconsistent(specs)
       THEN Nothing /\ Rejected(specs)
       ELSE CreateMissing(specs) /\ Answered(specs)

(***************************************************************************)
(* Remove and StopAll                                                      *)
(***************************************************************************)

\* Mutant: the configuration of a removed name stays.
RemoveKeepsConfig(k, n) ==
  /\ Free(k)
  /\ n \in Registered
  /\ cb' = [cb EXCEPT ![n] = None]
  /\ stopping' = [stopping EXCEPT ![k] = {cb[n]}]
  /\ answer' = NoAnswer
  /\ UNCHANGED <<cfg, built, stopped>>

\* Mutant: the breaker is unregistered and forgotten.
RemoveForgets(k, n) ==
  /\ Free(k)
  /\ n \in Registered
  /\ cb' = [cb EXCEPT ![n] = None]
  /\ cfg' = [cfg EXCEPT ![n] = None]
  /\ answer' = NoAnswer
  /\ UNCHANGED <<built, stopped, stopping>>

\* The locked part of Remove.
Remove(k, n) ==
  /\ Free(k)
  /\ n \in Registered
  /\ cb' = [cb EXCEPT ![n] = None]
  /\ cfg' = [cfg EXCEPT ![n] = None]
  /\ stopping' = [stopping EXCEPT ![k] = {cb[n]}]
  /\ answer' = NoAnswer
  /\ UNCHANGED <<built, stopped>>

\* The locked part of StopAll: a copy of the registry.
StopAll(k) ==
  /\ Free(k)
  /\ stopping' = [stopping EXCEPT ![k] = {cb[n] : n \in Registered}]
  /\ answer' = NoAnswer
  /\ UNCHANGED <<maps, built, stopped>>

\* One cb.Stop() outside the lock, in the order of a map: any.  TokenBucket.tla
\* shows that it returns.
StopOne(k) ==
  \E b \in stopping[k] :
    /\ stopped' = stopped \cup {b}
    /\ stopping' = [stopping EXCEPT ![k] = @ \ {b}]
    /\ answer' = NoAnswer
    /\ UNCHANGED <<maps, built>>

ManagerNext ==
  \E k \in Clients :
    \/ \E n \in Names :
         \/ Remove(k, n)
         \/ \E want \in Configs :
              NewCircuitBreaker(k, n, want) \/ NewCircuitBreakerStrict(k, n, want)
    \/ \E specs \in Specs : ConfigureManager(k, specs)
    \/ StopAll(k)
    \/ StopOne(k)

\* A loop of StopAll goes on to its end.
ManagerSpec ==
  ManagerInit /\ [][ManagerNext]_managerVars /\ \A k \in Clients : WF_managerVars(StopOne(k))

(***************************************************************************)
(* Properties                                                              *)
(***************************************************************************)

\* What the strict mode compares with is what the registered breaker was built
\* with, through any sequence of removals and creations, and a breaker has one
\* name (manager.go:65-67, 96-98, 119-123).
ConfigsMatch ==
  /\ \A n \in Names : IF cb[n] = None THEN cfg[n] = None
                      ELSE cfg[n] = built[cb[n]] /\ cfg[n] # None
  /\ \A n1, n2 \in Registered : cb[n1] = cb[n2] => n1 = n2

\* The last answer was an error.
Refused == DOMAIN answer.out # DOMAIN answer.specs

\* Whoever asks for a breaker with a configuration, in the strict mode or through
\* ConfigureManager, gets for every name a breaker built with just that
\* configuration, or an error (manager.go:71-74, spec.go:37-43).
StrictAnswers ==
  ~Refused => \A n \in DOMAIN answer.specs : built[answer.out[n]] = answer.specs[n]

\* All or nothing: a request that is rejected creates, replaces and configures no
\* breaker, also under names that are right, and it is rejected for a reason: a spec
\* that is inconsistent, or one that differs from what the breaker registered under
\* its name was built with (spec.go:36-38, 69-86, manager.go:86-92).
RejectedWhole ==
  [][Refused' =>
       /\ UNCHANGED <<maps, built>>
       /\ \E n \in DOMAIN answer'.specs :
            LET want == answer'.specs[n] IN
            want \notin Sound \/ (n \in Registered /\ built[cb[n]] # want)]_managerVars

\* A breaker that is no longer registered has been stopped or is about to be, by
\* the client that removed it: none is left running out of reach of StopAll
\* (manager.go:114-129).
NoneOrphaned ==
  \A b \in Breakers \ NotBuilt :
    \/ \E n \in Names : cb[n] = b
    \/ b \in stopped
    \/ \E k \in Clients : b \in stopping[k]

\* ... and so every breaker that is removed ends up stopped, although the name may
\* be registered again, removed again or stopped by others meanwhile.
RemovedStop ==
  \A b \in Breakers :
    (b \notin NotBuilt /\ \A n \in Names : cb[n] # b) ~> (b \in stopped)
=============================================================================
