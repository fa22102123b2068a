------------------------ MODULE MCCanonicalAdmission ------------------------
(* Instances of CanonicalAdmission for TLC. *)
EXTENDS CanonicalAdmission, TLC

Symmetry == Permutations(Processes) \cup Permutations(Bindings)

(* Successors and changing bindings are explored while the commands take    *)
(* turns in the observation file; what they lose when they do not is seen   *)
(* with root authorizations and one binding.                                *)
Bounded ==
    turns = "kept" \/ /\ supersessions = {}
                      /\ \A e \in Evidence : binding[e] # None
                      /\ \A a \in authorizations : a.binding = binding[a.ev]
=============================================================================
