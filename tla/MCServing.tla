----------------------------- MODULE MCServing -----------------------------
(***************************************************************************)
(* Serving with the symmetry of its requests, for the runs that check no    *)
(* liveness: nothing tells two requests apart but their names.             *)
(***************************************************************************)
EXTENDS Serving, TLC

Symmetry == Permutations(Requests)
=============================================================================
