---------------------------- MODULE MCSentinelRun ----------------------------
(* Instances of SentinelRun for TLC. *)
EXTENDS SentinelRun

MCExtensionsOf == [s \in RuleSets |-> CASE s = "core" -> {} [] s = "ram" -> {"RAM"}]
MCRulesOf == [s \in RuleSets |->
    CASE s = "core" -> <<[id |-> "C1", severity |-> "LOW", code |-> TRUE, effectValid |-> TRUE]>>
      [] s = "ram" -> <<[id |-> "R1", severity |-> "MEDIUM", code |-> FALSE, effectValid |-> FALSE],
                        [id |-> "R2", severity |-> "INVALID", code |-> TRUE, effectValid |-> TRUE]>>]
=============================================================================
