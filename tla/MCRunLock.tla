----------------------------- MODULE MCRunLock -----------------------------
(* Instances of RunLock for TLC. *)
EXTENDS RunLock, TLC

Symmetry == Permutations(Runs)

(* What no later step reads does not tell states apart: the age captured by *)
(* acquire() and its attempts once it has ended, and the age of a moved     *)
(* directory that will be removed.                                          *)
View ==
    <<lock, pc, beat, taken,
      [r \in Runs |-> IF pc[r] \in Acquiring THEN <<tries[r], acquired[r]>> ELSE <<0, 0>>],
      [r \in Runs |-> IF quarantine[r].owner = r THEN [quarantine[r] EXCEPT !.age = 0]
                                                 ELSE quarantine[r]]>>
=============================================================================
