-------------------------------- MODULE Waits --------------------------------
(***************************************************************************)
(* The durations that Do of src/pkg/circuitbreaker.go computes before it   *)
(* waits: what a Retry-After header asks for (parseRetryAfter) and the     *)
(* backoff before a retry (backoffFor of src/pkg/options.go).  A Duration  *)
(* is a machine integer: what leaves its range comes back at the other end.*)
(***************************************************************************)
EXTENDS Integers

CONSTANTS
  MaxDuration,  \* math.MaxInt64
  Second        \* time.Second

ASSUME WaitsAssumption ==
  /\ MaxDuration \in Nat \ {0}
  /\ Second \in 1..MaxDuration

Wrap(x) == ((x + MaxDuration + 1) % (2 * MaxDuration + 2)) - (MaxDuration + 1)

Smaller(x, y) == IF x <= y THEN x ELSE y

Larger(x, y) == IF x >= y THEN x ELSE y

(***************************************************************************)
(* parseRetryAfter                                                         *)
(***************************************************************************)

\* Mutant: no saturation before the multiplication.
SecondsUnchecked(secs) == Wrap(secs * Second)

Seconds(secs) ==
  IF secs > MaxDuration \div Second THEN MaxDuration ELSE Wrap(secs * Second)

\* What a header asks for, and the delay that is read from it: a number of
\* seconds, or a date, of which one in the past asks for no delay.  A header that
\* is neither, or holds no integer of the machine, is no header.
Headers ==
  {[asks |-> secs * Second, read |-> Seconds(secs)] : secs \in 0..MaxDuration}
    \cup {[asks |-> d, read |-> d] : d \in 0..MaxDuration}

(***************************************************************************)
(* backoffFor.  A fixed backoff is one whose base is its ceiling.          *)
(***************************************************************************)

\* Mutant: the duration is doubled once per attempt, whatever it has become.
DoublingUnchecked(base, ceiling) ==
  LET d[i \in Nat] == IF i = 0 THEN base ELSE Wrap(2 * d[i-1]) IN d

\* The loop: it stops at the ceiling.
Doubling(base, ceiling) ==
  LET d[i \in Nat] ==
        IF i = 0 THEN base ELSE IF d[i-1] < ceiling THEN Wrap(2 * d[i-1]) ELSE d[i-1]
  IN  d

\* The durations that backoffFor(attempt) may return.
BackoffFor(base, ceiling, jitter, attempt) ==
  LET doubled == Doubling(base, ceiling)[attempt]
      d == IF doubled \in 1..ceiling THEN doubled ELSE ceiling
  IN  IF jitter /\ d > 1 THEN d \div 2 .. 2 * (d \div 2) - 1 ELSE {d}

(***************************************************************************)
(* What the durations are meant to be, in numbers without a limit          *)
(***************************************************************************)

PowerOfTwo[n \in Nat] == IF n = 0 THEN 1 ELSE 2 * PowerOfTwo[n-1]

\* options.go:61-63: min(max, base * 2^n).
Nominal(base, ceiling, attempt) == Smaller(base * PowerOfTwo[attempt], ceiling)

LeastBackoff(base, ceiling, jitter, attempt) ==
  LET d == Nominal(base, ceiling, attempt) IN IF jitter /\ d > 1 THEN d \div 2 ELSE d

\* A pause lasts as long as the header asks for, up to the cap.
HeaderExact(header) ==
  \A most \in 0..MaxDuration : Smaller(header.read, most) = Smaller(header.asks, most)

\* The backoff of an attempt is the nominal one, of which jitter takes at most half.
BackoffExact(base, ceiling, attempt) ==
  \A jitter \in BOOLEAN :
    LET waits == BackoffFor(base, ceiling, jitter, attempt)
        d     == Nominal(base, ceiling, attempt)
    IN  /\ waits # {} /\ waits \subseteq LeastBackoff(base, ceiling, jitter, attempt) .. d
        /\ jitter \/ waits = {d}
=============================================================================
