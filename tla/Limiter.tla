------------------------------- MODULE Limiter -------------------------------
(***************************************************************************)
(* What the rate limiter of src/pkg/circuitbreaker.go promises the calls:  *)
(* a bucket of tokens that a goroutine fills until Stop closes it, and     *)
(* that still serves what is left then.  TokenBucket.tla implements it, Do *)
(* is built on it.                                                         *)
(***************************************************************************)
EXTENDS Naturals

CONSTANT Capacity  \* cap(cb.tokens); 0 stands for no rate limit

ASSUME LimiterAssumption == Capacity \in Nat

VARIABLES
  tokens,   \* len(cb.tokens)
  stopped,  \* is cb.tokenStop closed?
  filling   \* is the goroutine that refills the bucket alive?

bucket == <<tokens, stopped, filling>>

LimiterInit ==
  /\ tokens = Capacity
  /\ stopped = FALSE
  /\ filling = (Capacity > 0)

Take ==
  /\ tokens > 0
  /\ tokens' = tokens - 1
  /\ UNCHANGED <<stopped, filling>>

Fill ==
  /\ filling
  /\ tokens < Capacity
  /\ tokens' = tokens + 1
  /\ UNCHANGED <<stopped, filling>>

Close ==
  /\ Capacity > 0
  /\ ~stopped
  /\ stopped' = TRUE
  /\ UNCHANGED <<tokens, filling>>

FillerExits ==
  /\ filling
  /\ stopped
  /\ filling' = FALSE
  /\ UNCHANGED <<tokens, stopped>>

LimiterNext == Take \/ Fill \/ Close \/ FillerExits

LimiterSpec == LimiterInit /\ [][LimiterNext]_bucket
=============================================================================
