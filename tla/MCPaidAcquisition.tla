------------------------- MODULE MCPaidAcquisition -------------------------
(* Instances of PaidAcquisition for TLC. *)
EXTENDS PaidAcquisition, TLC

CONSTANTS r1, r2, r3, k1, k2, k3

(* Two plans that overlap in one task, and a third with a paid-action intent. *)
MCKeyOf == (r1 :> <<k1, k2>>) @@ (r2 :> <<k2>>) @@ (r3 :> <<k3>>)

(* The two overlapping plans alone. *)
MCTwoPlans == (r1 :> <<k1, k2>>) @@ (r2 :> <<k2>>)

(* The state without the history of charges, for runs whose properties do   *)
(* not read it.                                                             *)
NoCharges == <<today, prepared, snapshot, writers, pc, req, files, created, overwritten, local>>

Symmetry == Permutations(Processes)
=============================================================================
