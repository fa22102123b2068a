--------------------------- MODULE MCNeweggRoutine ---------------------------
(* Instances of NeweggRoutine for TLC. *)
EXTENDS NeweggRoutine, TLC

Symmetry == Permutations(Processes) \cup Permutations(Mandates) \cup Permutations(Artifacts)
=============================================================================
