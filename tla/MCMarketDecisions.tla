------------------------- MODULE MCMarketDecisions -------------------------
(* Instances of MarketDecisions for TLC. *)
EXTENDS MarketDecisions, TLC

MCFreshUntil == [o \in Offers |-> IF o = 1 THEN 0 ELSE MaxTime]
\* one is withdrawn and published again, the other is rejected
MCRequests == {<<1, "PUBLISH">>, <<1, "WITHDRAW">>, <<2, "REJECTED">>}
\* a publication and another review
MCAgain == {<<1, "PUBLISH">>, <<1, "WITHDRAW">>, <<1, "REVIEWED">>}
Symmetry == Permutations(Processes)

(* Builds, and offers that no longer qualify, are explored while commands   *)
(* record one at a time; what they lose when they do not is seen without.   *)
Bounded == turns = "kept" \/ ((\A p \in Processes : job[p] # "build") /\ (\A o \in Offers : market[o] # None))
=============================================================================
