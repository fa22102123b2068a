---------------------------- MODULE SingleWriter ----------------------------
(***************************************************************************)
(* What the run lock promises the code under it: the runs execute their fn *)
(* one at a time.  RunLock implements it for the runs whose lock nobody    *)
(* takes away; PaidAcquisition, BoundedRun and PublicationSaga rely on it  *)
(* for all.                                                                *)
(***************************************************************************)
CONSTANT Runs
VARIABLE writers

Init == writers = {}
Enter(r) == writers = {} /\ writers' = {r}
Exit(r) == writers = {r} /\ writers' = {}
Next == \E r \in Runs : Enter(r) \/ Exit(r)
Spec == Init /\ [][Next]_writers
=============================================================================
