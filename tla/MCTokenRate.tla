---------------------------- MODULE MCTokenRate ----------------------------
(***************************************************************************)
(* Model checking of TokenBucket and TokenRate, with a bucket whose size   *)
(* and batch follow from the parameters of a breaker.                      *)
(***************************************************************************)
EXTENDS TokenRate, Parameters
=============================================================================
