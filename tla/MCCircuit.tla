----------------------------- MODULE MCCircuit -----------------------------
(***************************************************************************)
(* Model checking of Circuit, with the scheduling under which an unhealthy *)
(* circuit must recover.                                                   *)
(***************************************************************************)
EXTENDS Circuit

CONSTANT Hung  \* callers whose requests may stay in flight forever

ASSUME HungAssumption == Hung \subseteq Callers

Responsive == Callers \ Hung

\* Time passes, some responsive caller keeps calling and requests of responsive
\* callers come back; a downstream that is probed again and again eventually
\* answers one probe in time and well.  Nothing is assumed of the hung callers.
Fairness ==
  /\ WF_circuitVars(Elapse)
  /\ WF_circuitVars(\E c \in Responsive : Admit(c))
  /\ \A c \in Responsive : WF_circuitVars(role[c] # "probe" /\ Leave(c))
  /\ SF_circuitVars(\E c \in Responsive : role[c] = "probe" /\ Succeed(c))

FairSpec == CircuitSpec /\ Fairness

NoFailure == \A c \in Callers : ~Fail(c)

\* Once the downstream stops failing the circuit does not stay away from closed,
\* even if probes hang in every slot: the generation they hold expires and a
\* later one is admitted and closes the circuit (state.go:158-168).
Recovers == <>[][NoFailure]_circuitVars => []<>(circuit = "closed")

=============================================================================
