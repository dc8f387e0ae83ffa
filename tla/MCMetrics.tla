------------------------------ MODULE MCMetrics ------------------------------
(***************************************************************************)
(* A host with two ordinary paths and one that looks like an aggregate,    *)
(* room for one of them, a ring of two samples and a wheel of three        *)
(* seconds on a clock of four.                                             *)
(***************************************************************************)
EXTENDS Metrics, TLC

CONSTANTS p1, p2

MCPaths == {p1, p2, "::root"}

MCWindows == {1, 3}

Symmetry == Permutations({p1, p2})
=============================================================================
