\* A core and an extension rule set, with an ill-formed rule in each.
SPECIFICATION Spec
CONSTANTS
    RuleSets = {"core", "ram"}
    Extensions = {"RAM", "SSD"}
    ExtensionsOf <- MCExtensionsOf
    RuleIds = {"C1", "R1", "R2"}
    RulesOf <- MCRulesOf
    Stated = {"HIGH"}
    None = None
INVARIANTS TypeOK FailsClosed EveryRuleAnswered
