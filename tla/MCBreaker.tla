----------------------------- MODULE MCBreaker -----------------------------
(***************************************************************************)
(* Model checking of Breaker.  Callers are interchangeable.                *)
(***************************************************************************)
EXTENDS Breaker, TLC

Symmetry == Permutations(Callers)
=============================================================================
