-------------------------- MODULE MCBreakerExpiry --------------------------
(***************************************************************************)
(* Breaker with one history variable, to compare the expiry of a half-open *)
(* generation with the comment that describes it.                          *)
(***************************************************************************)
EXTENDS Breaker

VARIABLE quietSince  \* start of the generation or last resolution of its probes

expiryVars == <<breakerVars, quietSince>>

ExpiryInit == BreakerInit /\ quietSince = 0

\* A probe of the current generation reports.
Resolution == \E c \in CurrentProbes : phase'[c] = "idle"

ExpiryNext ==
  /\ BreakerNext
  /\ quietSince' = CASE gen' # gen -> halfOpenAt'
                     [] Resolution -> clock
                     [] OTHER -> quietSince

ExpirySpec == ExpiryInit /\ [][ExpiryNext]_expiryVars

\* state.go:160-163: a half-open generation expires after "mais um openFor
\* inteiro sem nenhuma resolução", a whole openFor in which none of its probes
\* has been resolved.
ExpiresOnlyWhenQuiet ==
  [][cur = "half-open" /\ gen' # gen => clock - quietSince >= OpenFor]_expiryVars
=============================================================================
