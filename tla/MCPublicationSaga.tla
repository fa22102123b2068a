------------------------- MODULE MCPublicationSaga -------------------------
(* Instances of PublicationSaga for TLC. *)
EXTENDS PublicationSaga, TLC

Symmetry == Permutations(Processes)
Fresh2 == [c \in Candidates |-> c]
=============================================================================
