----------------------------- MODULE MCManager -----------------------------
(***************************************************************************)
(* Model checking of Manager.                                              *)
(***************************************************************************)
EXTENDS Manager
=============================================================================
