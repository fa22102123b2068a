---------------------------- MODULE MCBoundedRun ----------------------------
(* Instances of BoundedRun for TLC. *)
EXTENDS BoundedRun, TLC

Symmetry == Permutations(Processes) \cup Permutations(Authorizations)
=============================================================================
