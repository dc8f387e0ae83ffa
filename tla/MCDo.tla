-------------------------------- MODULE MCDo --------------------------------
(***************************************************************************)
(* Model checking of Do.  Callers are interchangeable in the runs without  *)
(* liveness properties.                                                    *)
(***************************************************************************)
EXTENDS Do, TLC

Symmetry == Permutations(Callers)

\* What a call has left behind when it is over does not matter to what follows: the
\* next call of the caller overwrites it.  The state before held the same values, so
\* the invariants have seen them.
Running(c) ==
  IF pc[c] = "idle" THEN << >>
  ELSE <<ctx[c], kind[c], attempt[c], lastErr[c], seen[c], result[c], m[c]>>

View == <<pc, [c \in Callers |-> Running(c)], timers, loaded, shared>>
=============================================================================
