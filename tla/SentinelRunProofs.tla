------------------------- MODULE SentinelRunProofs -------------------------
(***************************************************************************)
(* Proofs about SentinelRun, for every registry, every rule and every      *)
(* answer a rule may give: a run fails closed and answers every rule.      *)
(***************************************************************************)
EXTENDS SentinelRun, SequenceTheorems, WellFoundedInduction, TLAPS

USE RuleAssumption, StatedAssumption DEF RuleAssumption, StatedAssumption
-----------------------------------------------------------------------------
(* Induction over the naturals, with a set for what is shown. *)
Below == {pair \in Nat \X Nat : pair[1] < pair[2]}

LEMMA BelowWellFounded == IsWellFoundedOn(Below, Nat)
BY NatLessThanWellFounded DEF OpToRel, Below

LEMMA SetInduction ==
  ASSUME NEW S, 0 \in S, \A n \in Nat : n \in S => n + 1 \in S
  PROVE  Nat \subseteq S
<1> SUFFICES ASSUME Nat \ S # {} PROVE FALSE
  OBVIOUS
<1>1. PICK x \in Nat \ S : \A y \in Nat \ S : <<y, x>> \notin Below
  BY BelowWellFounded, WFMin
<1>2. x # 0 /\ x - 1 \in Nat
  BY <1>1
<1>3. x - 1 \in S
  <2>1. <<x - 1, x>> \in Below
    BY <1>2 DEF Below
  <2>2. QED
    BY <1>1, <1>2, <2>1
<1>4. QED
  BY <1>1, <1>2, <1>3

(* The rules of a stage: the function that collects them exists, and what  *)
(* it collects are rules. *)
Collects(f, sets, selected, last) ==
  f = [n \in 0..last |->
         IF n = 0 THEN <<>>
         ELSE IF sets[n] \in selected THEN f[n - 1] \o RulesOf[sets[n]] ELSE f[n - 1]]

Extend(f, n, last) == [i \in 0..n + 1 |-> IF i = n + 1 THEN last ELSE f[i]]

LEMMA Extended ==
  ASSUME NEW n \in Nat, NEW f, NEW last
  PROVE  Extend(f, n, last)[n + 1] = last /\ \A i \in 0..n : Extend(f, n, last)[i] = f[i]
BY DEF Extend

LEMMA CollectorGrows ==
  ASSUME NEW sets, NEW selected, NEW n \in Nat, NEW f, Collects(f, sets, selected, n)
  PROVE  \E g : Collects(g, sets, selected, n + 1)
<1>1. \A i \in 0..n : f[i] = IF i = 0 THEN <<>>
                             ELSE IF sets[i] \in selected THEN f[i - 1] \o RulesOf[sets[i]]
                             ELSE f[i - 1]
  BY DEF Collects
<1> SUFFICES ASSUME NEW last,
                    last = IF sets[n + 1] \in selected THEN f[n] \o RulesOf[sets[n + 1]] ELSE f[n]
             PROVE  \E g : Collects(g, sets, selected, n + 1)
  OBVIOUS
<1> DEFINE g == Extend(f, n, last)
<1>2. g[n + 1] = last /\ \A i \in 0..n : g[i] = f[i]
  BY Extended
<1> HIDE DEF g
<1>3. ASSUME NEW i \in 0..n + 1
      PROVE  g[i] = IF i = 0 THEN <<>>
                    ELSE IF sets[i] \in selected THEN g[i - 1] \o RulesOf[sets[i]] ELSE g[i - 1]
  <2>1. CASE i = n + 1
    <3>1. i # 0 /\ i - 1 = n /\ n \in 0..n
      BY <2>1
    <3>2. QED
      BY <1>2, <2>1, <3>1
  <2>2. CASE i \in 0..n
    <3>1. i # 0 => i - 1 \in 0..n
      BY <2>2
    <3>2. QED
      BY <1>1, <1>2, <2>2, <3>1
  <2>3. QED
    BY <2>1, <2>2
<1>4. Collects(g, sets, selected, n + 1)
  BY <1>3 DEF Collects, g, Extend
<1>5. QED
  BY <1>4

LEMMA CollectorExists ==
  ASSUME NEW sets \in Seq(RuleSets), NEW selected
  PROVE  \A n \in Nat : \E f : Collects(f, sets, selected, n)
<1> DEFINE Reached == {n \in Nat : \E f : Collects(f, sets, selected, n)}
           First == [n \in 0..0 |-> <<>>]
<1>1. 0 \in Reached
  <2>1. Collects(First, sets, selected, 0)
    BY DEF Collects
  <2>2. QED
    BY <2>1
<1>2. ASSUME NEW n \in Nat, n \in Reached PROVE n + 1 \in Reached
  BY <1>2, CollectorGrows
<1> HIDE DEF Reached
<1>3. Nat \subseteq Reached
  BY <1>1, <1>2, SetInduction
<1>4. QED
  BY <1>3 DEF Reached

LEMMA RulesInTypes ==
  ASSUME NEW sets \in Seq(RuleSets), NEW selected
  PROVE  RulesIn(sets, selected) \in Seq(Rule)
<1>1. Len(sets) \in Nat
  OBVIOUS
<1>2. \E f : Collects(f, sets, selected, Len(sets))
  BY <1>1, CollectorExists
<1>3. PICK rules : Collects(rules, sets, selected, Len(sets)) /\ RulesIn(sets, selected) = rules[Len(sets)]
  BY <1>2 DEF RulesIn, Collects
<1> DEFINE Typed == {n \in Nat : n <= Len(sets) => rules[n] \in Seq(Rule)}
<1>4. \A n \in 0..Len(sets) :
        rules[n] = IF n = 0 THEN <<>>
                   ELSE IF sets[n] \in selected THEN rules[n - 1] \o RulesOf[sets[n]] ELSE rules[n - 1]
  BY <1>3 DEF Collects
<1>5. 0 \in Typed
  <2>1. rules[0] = <<>>
    BY <1>1, <1>4
  <2>2. <<>> \in Seq(Rule)
    OBVIOUS
  <2>3. QED
    BY <2>1, <2>2
<1>6. ASSUME NEW n \in Nat, n \in Typed PROVE n + 1 \in Typed
  <2> SUFFICES ASSUME n + 1 <= Len(sets) PROVE rules[n + 1] \in Seq(Rule)
    OBVIOUS
  <2>1. rules[n] \in Seq(Rule)
    BY <1>1, <1>6
  <2>2. sets[n + 1] \in RuleSets
    BY <1>1
  <2>3. RulesOf[sets[n + 1]] \in Seq(Rule)
    BY <2>2
  <2>4. rules[n] \o RulesOf[sets[n + 1]] \in Seq(Rule)
    BY <2>1, <2>3
  <2>5. n + 1 \in 0..Len(sets) /\ n + 1 # 0 /\ (n + 1) - 1 = n
    BY <1>1
  <2>6. rules[n + 1] = IF sets[n + 1] \in selected THEN rules[n] \o RulesOf[sets[n + 1]] ELSE rules[n]
    BY <1>4, <2>5
  <2>7. QED
    BY <2>1, <2>4, <2>6
<1> HIDE DEF Typed
<1>7. Nat \subseteq Typed
  BY <1>5, <1>6, SetInduction
<1>8. rules[Len(sets)] \in Seq(Rule)
  BY <1>1, <1>7 DEF Typed
<1>9. QED
  BY <1>3, <1>8

LEMMA StageRules ==
  ASSUME NEW sets \in Seq(RuleSets), NEW extension
  PROVE  CoreRules(sets) \in Seq(Rule) /\ ExtensionRules(sets, extension) \in Seq(Rule)
BY RulesInTypes DEF CoreRules, ExtensionRules
-----------------------------------------------------------------------------
(* What a rule leaves: at most one answer, which says whether it failed, or *)
(* an error as severe as the rule. *)
LEMMA OutcomeKinds ==
  ASSUME NEW o \in Outcomes
  PROVE  \/ o.kind = "BOOLEAN"
         \/ o.kind = "DESCRIPTOR" /\ o.result \in Results /\ o.severity \in {"OWN", "INVALID"} \cup Stated
         \/ o.kind = "RESULT" /\ o.rule \in Ids /\ o.result \in Results /\ o.severity \in Stated
         \/ o.kind = "THROWS"
<1>1. CASE o \in [kind : {"BOOLEAN"}, value : BOOLEAN]
  BY <1>1
<1>2. CASE o \in [kind : {"DESCRIPTOR"}, result : Results, severity : {"OWN", "INVALID"} \cup Stated,
                  code : BOOLEAN, effect : {"OWN", "VALID", "INVALID"}]
  BY <1>2
<1>3. CASE o \in [kind : {"RESULT"}, rule : {"OTHER"}, result : Results, severity : Stated]
  BY <1>3 DEF Ids
<1>4. CASE o \in [kind : {"THROWS"}]
  BY <1>4
<1>5. QED
  BY <1>1, <1>2, <1>3, <1>4 DEF Outcomes

LEMMA ResultTypes ==
  ASSUME NEW id \in Ids, NEW result \in Results, NEW severity \in Severities
  PROVE  [rule |-> id, result |-> result, severity |-> severity] \in Result
BY DEF Result

LEMMA RuleTypes ==
  ASSUME NEW rule \in Rule
  PROVE  /\ rule.id \in Ids /\ rule.severity \in Severities \cup {"INVALID"}
         /\ ErrorSeverity(rule) \in Severities
BY DEF Rule, Ids, ErrorSeverity, Severities

LEMMA AnswersTypes ==
  ASSUME NEW rule \in Rule, NEW o \in Outcomes
  PROVE  /\ Answers(rule, o) \subseteq Result
         /\ \A a, b \in Answers(rule, o) : a = b
<1>1. "PASS" \in Results /\ "FAIL" \in Results
  BY DEF Results
<1>2. CASE rule.severity = "INVALID" \/ o.kind = "THROWS"
  BY <1>2 DEF Answers
<1>3. CASE rule.severity # "INVALID" /\ o.kind = "BOOLEAN"
  <2>1. Answers(rule, o) = BooleanAnswers(rule, o.value)
    BY <1>3 DEF Answers
  <2>2. rule.severity \in Severities /\ rule.id \in Ids
    BY <1>3, RuleTypes
  <2>3. /\ Answer(rule, "PASS", rule.severity) \in Result
        /\ Answer(rule, "FAIL", rule.severity) \in Result
    BY <1>1, <2>2, ResultTypes DEF Answer
  <2>4. QED
    BY <2>1, <2>3 DEF BooleanAnswers
<1>4. CASE rule.severity # "INVALID" /\ o.kind = "DESCRIPTOR"
  <2>1. Answers(rule, o) = StructuredAnswers(rule, o)
    BY <1>4 DEF Answers
  <2>2. o.result \in Results /\ o.severity \in {"OWN", "INVALID"} \cup Stated
    BY <1>4, OutcomeKinds
  <2>3. rule.severity \in Severities /\ rule.id \in Ids
    BY <1>4, RuleTypes
  <2> DEFINE severity == IF o.severity = "OWN" THEN rule.severity ELSE o.severity
  <2>4. CASE o.severity = "INVALID"
    BY <2>1, <2>4 DEF StructuredAnswers
  <2>5. CASE o.severity # "INVALID"
    <3>1. severity \in Severities
      BY <2>2, <2>3, <2>5
    <3> HIDE DEF severity
    <3>2. Answer(rule, o.result, severity) \in Result
      BY <2>2, <2>3, <3>1, ResultTypes DEF Answer
    <3>3. StructuredAnswers(rule, o) \subseteq {Answer(rule, o.result, severity)}
      BY DEF StructuredAnswers, severity
    <3>4. QED
      BY <2>1, <3>2, <3>3
  <2>6. QED
    BY <2>4, <2>5
<1>5. CASE rule.severity # "INVALID" /\ o.kind = "RESULT"
  <2>1. Answers(rule, o) = {[rule |-> o.rule, result |-> o.result, severity |-> o.severity]}
    BY <1>5 DEF Answers
  <2>2. o.rule \in Ids /\ o.result \in Results /\ o.severity \in Severities
    BY <1>5, OutcomeKinds
  <2>3. QED
    BY <2>1, <2>2, ResultTypes
<1>6. QED
  BY <1>2, <1>3, <1>4, <1>5, OutcomeKinds

(* What a rule is blamed for is in its result, when there is one. *)
LEMMA ExecuteTypes ==
  ASSUME NEW rule \in Rule, NEW o \in Outcomes
  PROVE  /\ ExecuteRule(rule, o) \subseteq Result /\ Failures(rule, o) \subseteq Severities
         /\ \A a \in ExecuteRule(rule, o) : \A s \in Failures(rule, o) :
              a.result \in {"FAIL", "ERROR"} /\ a.severity = s
<1>1. Answers(rule, o) \subseteq Result /\ \A a, b \in Answers(rule, o) : a = b
  BY AnswersTypes
<1>2. rule.id \in Ids /\ ErrorSeverity(rule) \in Severities
  BY RuleTypes
<1>3. CASE Answers(rule, o) = {}
  <2>1. ExecuteRule(rule, o) = RuleErrors(rule) /\ Failures(rule, o) = {ErrorSeverity(rule)}
    BY <1>3 DEF ExecuteRule, Failures
  <2>2. RuleErrors(rule) \subseteq {Answer(rule, "ERROR", ErrorSeverity(rule))}
    BY DEF RuleErrors
  <2>3. "ERROR" \in Results
    BY DEF Results
  <2>4. /\ Answer(rule, "ERROR", ErrorSeverity(rule)) \in Result
        /\ Answer(rule, "ERROR", ErrorSeverity(rule)).result = "ERROR"
        /\ Answer(rule, "ERROR", ErrorSeverity(rule)).severity = ErrorSeverity(rule)
    BY <1>2, <2>3, ResultTypes DEF Answer
  <2>5. QED
    BY <1>2, <2>1, <2>2, <2>4
<1>4. CASE Answers(rule, o) # {}
  <2>1. ExecuteRule(rule, o) = Answers(rule, o)
    BY <1>4 DEF ExecuteRule
  <2>2. Failures(rule, o) = {a.severity : a \in {b \in Answers(rule, o) : b.result \in {"FAIL", "ERROR"}}}
    BY <1>4 DEF Failures
  <2>3. ASSUME NEW s \in Failures(rule, o)
        PROVE  /\ s \in Severities
               /\ \A a \in Answers(rule, o) : a.result \in {"FAIL", "ERROR"} /\ a.severity = s
    <3>1. PICK b \in Answers(rule, o) : b.result \in {"FAIL", "ERROR"} /\ s = b.severity
      BY <2>2
    <3>2. b.severity \in Severities
      BY <1>1 DEF Result
    <3>3. QED
      BY <1>1, <3>1, <3>2
  <2>4. QED
    BY <1>1, <2>1, <2>3
<1>5. QED
  BY <1>3, <1>4
-----------------------------------------------------------------------------
(* Sequences of results. *)
LEMMA Concatenated ==
  ASSUME NEW r \in Seq(Result), NEW t \in Seq(Result), NEW severities
  PROVE  /\ r \o t \in Seq(Result) /\ Len(r \o t) = Len(r) + Len(t)
         /\ Aborted(r) => Aborted(r \o t)
         /\ Failed(r, severities) \/ Failed(t, severities) => Failed(r \o t, severities)
<1>1. r \o t \in Seq(Result) /\ Len(r \o t) = Len(r) + Len(t)
  OBVIOUS
<1>2. DOMAIN r = 1..Len(r) /\ DOMAIN t = 1..Len(t) /\ DOMAIN (r \o t) = 1..Len(r) + Len(t)
  BY <1>1
<1>3. ASSUME NEW i \in DOMAIN r PROVE i \in DOMAIN (r \o t) /\ (r \o t)[i] = r[i]
  BY <1>2
<1>4. ASSUME NEW i \in DOMAIN t PROVE Len(r) + i \in DOMAIN (r \o t) /\ (r \o t)[Len(r) + i] = t[i]
  BY <1>2
<1>5. Aborted(r) => Aborted(r \o t)
  BY <1>3 DEF Aborted
<1>6. Failed(r, severities) => Failed(r \o t, severities)
  BY <1>3 DEF Failed
<1>7. Failed(t, severities) => Failed(r \o t, severities)
  BY <1>4 DEF Failed
<1>8. QED
  BY <1>1, <1>5, <1>6, <1>7

LEMMA Added ==
  ASSUME NEW r \in Seq(Result), NEW a \in Result, NEW severities
  PROVE  /\ Append(r, a) \in Seq(Result) /\ Len(Append(r, a)) = Len(r) + 1
         /\ Aborted(r) \/ a = StageError => Aborted(Append(r, a))
         /\ Failed(r, severities) => Failed(Append(r, a), severities)
         /\ a.result \in {"FAIL", "ERROR"} /\ a.severity \in severities => Failed(Append(r, a), severities)
<1>1. Append(r, a) \in Seq(Result) /\ Len(Append(r, a)) = Len(r) + 1
  OBVIOUS
<1>2. DOMAIN r = 1..Len(r) /\ DOMAIN Append(r, a) = 1..Len(r) + 1
  BY <1>1
<1>3. ASSUME NEW i \in DOMAIN r PROVE i \in DOMAIN Append(r, a) /\ Append(r, a)[i] = r[i]
  BY <1>2
<1>4. Len(r) + 1 \in DOMAIN Append(r, a) /\ Append(r, a)[Len(r) + 1] = a
  BY <1>2
<1>5. Aborted(r) \/ a = StageError => Aborted(Append(r, a))
  BY <1>3, <1>4 DEF Aborted
<1>6. Failed(r, severities) => Failed(Append(r, a), severities)
  BY <1>3 DEF Failed
<1>7. a.result \in {"FAIL", "ERROR"} /\ a.severity \in severities => Failed(Append(r, a), severities)
  BY <1>4 DEF Failed
<1>8. QED
  BY <1>1, <1>5, <1>6, <1>7

LEMMA StageErrorTypes == StageError \in Result
<1>1. "ERROR" \in Results /\ "CRITICAL" \in Severities
  BY DEF Results, Severities
<1>2. "SENTINEL-EXECUTION" \in Ids
  BY DEF Ids
<1>3. QED
  BY <1>1, <1>2, ResultTypes DEF StageError
-----------------------------------------------------------------------------
(* The decisions, in order of strength. *)
LEMMA Ranks ==
  Rank("READY") = 1 /\ Rank("READY_WITH_WARNINGS") = 2 /\ Rank("REVIEW") = 3 /\ Rank("BLOCKED") = 4
<1>1. ASSUME NEW n \in 1..4, NEW d, Decisions[n] = d, \A i \in 1..4 : Decisions[i] = d => i = n
      PROVE  Rank(d) = n
  <2>1. Rank(d) \in 1..4 /\ Decisions[Rank(d)] = d
    BY <1>1 DEF Rank
  <2>2. QED
    BY <1>1, <2>1
<1>2. /\ Decisions[1] = "READY" /\ Decisions[2] = "READY_WITH_WARNINGS"
      /\ Decisions[3] = "REVIEW" /\ Decisions[4] = "BLOCKED"
  BY DEF Decisions
<1>3. \A i \in 1..4 : i = 1 \/ i = 2 \/ i = 3 \/ i = 4
  OBVIOUS
<1>4. Rank("READY") = 1
  BY <1>1, <1>2, <1>3
<1>5. Rank("READY_WITH_WARNINGS") = 2
  BY <1>1, <1>2, <1>3
<1>6. Rank("REVIEW") = 3
  BY <1>1, <1>2, <1>3
<1>7. Rank("BLOCKED") = 4
  BY <1>1, <1>2, <1>3
<1>8. QED
  BY <1>4, <1>5, <1>6, <1>7

LEMMA DecisionTypes ==
  ASSUME NEW r PROVE Decide(r) \in Range(Decisions)
<1>1. Range(Decisions) = {"READY", "READY_WITH_WARNINGS", "REVIEW", "BLOCKED"}
  BY DEF Range, Decisions
<1>2. QED
  BY <1>1 DEF Decide

(* The decision is as strong as any failure among the results asks for. *)
LEMMA Decided ==
  ASSUME NEW r
  PROVE  /\ Failed(r, {"CRITICAL", "HIGH"}) => Decide(r) = "BLOCKED"
         /\ Failed(r, {"MEDIUM"}) => Decide(r) \in {"BLOCKED", "REVIEW"}
         /\ Failed(r, {"LOW", "INFO"}) => Decide(r) \in {"BLOCKED", "REVIEW", "READY_WITH_WARNINGS"}
<1>1. Failed(r, {"CRITICAL", "HIGH", "MEDIUM"}) <=> Failed(r, {"CRITICAL", "HIGH"}) \/ Failed(r, {"MEDIUM"})
  BY DEF Failed
<1>2. QED
  BY <1>1 DEF Decide

LEMMA DecidesFor ==
  ASSUME NEW r, NEW s \in Severities, Failed(r, {s})
  PROVE  Rank(Decide(r)) >= Rank(DecisionFor[s])
<1>1. CASE s \in {"CRITICAL", "HIGH"}
  <2>1. Failed(r, {"CRITICAL", "HIGH"})
    BY <1>1 DEF Failed
  <2>2. DecisionFor[s] = "BLOCKED"
    BY <1>1 DEF DecisionFor
  <2>3. QED
    BY <2>1, <2>2, Decided, Ranks
<1>2. CASE s = "MEDIUM"
  <2>1. Failed(r, {"MEDIUM"})
    BY <1>2
  <2>2. DecisionFor[s] = "REVIEW"
    BY <1>2 DEF DecisionFor
  <2>3. QED
    BY <2>1, <2>2, Decided, Ranks
<1>3. CASE s \in {"LOW", "INFO"}
  <2>1. Failed(r, {"LOW", "INFO"})
    BY <1>3 DEF Failed
  <2>2. DecisionFor[s] = "READY_WITH_WARNINGS"
    BY <1>3 DEF DecisionFor
  <2>3. QED
    BY <2>1, <2>2, Decided, Ranks
<1>4. QED
  BY <1>1, <1>2, <1>3 DEF Severities

(* An aborted stage blocks, which outweighs whatever its answers said. *)
LEMMA AbortBlocks ==
  ASSUME NEW r, Aborted(r)
  PROVE  Decide(r) = "BLOCKED" /\ \A s \in Severities : Rank(Decide(r)) >= Rank(DecisionFor[s])
<1>1. Failed(r, {"CRITICAL", "HIGH"})
  BY DEF Aborted, StageError, Failed
<1>2. Decide(r) = "BLOCKED"
  BY <1>1, Decided
<1>3. ASSUME NEW s \in Severities PROVE Rank(DecisionFor[s]) \in 1..4
  <2>1. DecisionFor[s] \in {"BLOCKED", "REVIEW", "READY_WITH_WARNINGS"}
    BY DEF DecisionFor, Severities
  <2>2. QED
    BY <2>1, Ranks
<1>4. QED
  BY <1>2, <1>3, Ranks
-----------------------------------------------------------------------------
(* The registry, and the record of a run. *)
RegistrySound == registry \in Seq(RuleSets) /\ IsInjective(registry)

LEMMA RegisterSound ==
  ASSUME RegistrySound, NEW s \in RuleSets, Register(s) PROVE RegistrySound'
<1>1. registry' = Append(registry, s) /\ s \notin Range(registry)
  BY DEF Register
<1>2. registry' \in Seq(RuleSets) /\ Len(registry') = Len(registry) + 1
  BY <1>1 DEF RegistrySound
<1>3. DOMAIN registry = 1..Len(registry) /\ DOMAIN registry' = 1..Len(registry) + 1 /\ Len(registry) \in Nat
  BY <1>2 DEF RegistrySound
<1>4. \A i \in DOMAIN registry : registry[i] # s
  BY <1>1 DEF Range
<1>5. registry'[Len(registry) + 1] = s /\ \A i \in 1..Len(registry) : registry'[i] = registry[i]
  BY <1>1 DEF RegistrySound
<1>6. ASSUME NEW i \in DOMAIN registry', NEW j \in DOMAIN registry', registry'[i] = registry'[j]
      PROVE  i = j
  <2>1. i \in 1..Len(registry) \/ i = Len(registry) + 1
    BY <1>3
  <2>2. j \in 1..Len(registry) \/ j = Len(registry) + 1
    BY <1>3
  <2>3. QED
    BY <1>3, <1>4, <1>5, <1>6, <2>1, <2>2 DEF RegistrySound, IsInjective
<1>7. QED
  BY <1>2, <1>6 DEF RegistrySound, IsInjective

(* What removing one element of a sequence leaves. *)
LEMMA Cut ==
  ASSUME NEW s \in Seq(RuleSets), NEW first \in Nat, NEW last \in Nat,
         1 <= first, last <= Len(s), first <= last + 1
  PROVE  /\ SubSeq(s, first, last) \in Seq(RuleSets)
         /\ Len(SubSeq(s, first, last)) = last - first + 1
         /\ \A j \in 1..last - first + 1 : SubSeq(s, first, last)[j] = s[first + j - 1]
<1>1. \A j \in first..last : s[j] \in RuleSets
  <2>1. \A j \in first..last : j \in 1..Len(s)
    OBVIOUS
  <2>2. QED
    BY <2>1
<1>2. /\ SubSeq(s, first, last) \in Seq(RuleSets)
      /\ Len(SubSeq(s, first, last)) = IF first <= last THEN last - first + 1 ELSE 0
      /\ \A j \in 1..last - first + 1 : SubSeq(s, first, last)[j] = s[first + j - 1]
  BY <1>1, SubSeqProperties
<1>3. first <= last \/ last - first + 1 = 0
  OBVIOUS
<1>4. QED
  BY <1>2, <1>3

LEMMA Removed ==
  ASSUME NEW s \in Seq(RuleSets), NEW i \in 1..Len(s)
  PROVE  /\ RemoveAt(s, i) \in Seq(RuleSets) /\ Len(RemoveAt(s, i)) = Len(s) - 1
         /\ \A j \in 1..Len(s) - 1 : RemoveAt(s, i)[j] = s[IF j < i THEN j ELSE j + 1]
<1>1. PICK n \in Nat : n = Len(s)
  OBVIOUS
<1>2. PICK a \in Seq(RuleSets) :
        a = SubSeq(s, 1, i - 1) /\ Len(a) = i - 1 /\ \A j \in 1..i - 1 : a[j] = s[j]
  <2>1. i - 1 \in Nat /\ i - 1 <= Len(s) /\ 1 <= (i - 1) + 1 /\ (i - 1) - 1 + 1 = i - 1
    BY <1>1
  <2>2. /\ SubSeq(s, 1, i - 1) \in Seq(RuleSets) /\ Len(SubSeq(s, 1, i - 1)) = i - 1
        /\ \A j \in 1..i - 1 : SubSeq(s, 1, i - 1)[j] = s[1 + j - 1]
    BY <2>1, Cut
  <2>3. \A j \in 1..i - 1 : 1 + j - 1 = j
    BY <2>1
  <2>4. QED
    BY <2>2, <2>3
<1>3. PICK b \in Seq(RuleSets) :
        b = SubSeq(s, i + 1, Len(s)) /\ Len(b) = n - i /\ \A j \in 1..n - i : b[j] = s[i + j]
  <2>1. i + 1 \in Nat /\ 1 <= i + 1 /\ i + 1 <= n + 1 /\ n - (i + 1) + 1 = n - i
    BY <1>1
  <2>2. /\ SubSeq(s, i + 1, Len(s)) \in Seq(RuleSets) /\ Len(SubSeq(s, i + 1, Len(s))) = n - i
        /\ \A j \in 1..n - i : SubSeq(s, i + 1, Len(s))[j] = s[(i + 1) + j - 1]
    BY <1>1, <2>1, Cut
  <2>3. \A j \in 1..n - i : (i + 1) + j - 1 = i + j
    BY <2>1
  <2>4. QED
    BY <2>2, <2>3
<1>4. RemoveAt(s, i) = a \o b
  BY <1>2, <1>3 DEF RemoveAt
<1>5. /\ a \o b \in Seq(RuleSets) /\ Len(a \o b) = Len(a) + Len(b)
      /\ \A j \in 1..Len(a) + Len(b) : (a \o b)[j] = IF j <= Len(a) THEN a[j] ELSE b[j - Len(a)]
  BY ConcatProperties
<1>6. Len(a) + Len(b) = n - 1
  <2>1. i \in Nat /\ (i - 1) + (n - i) = n - 1
    BY <1>1
  <2>2. QED
    BY <1>2, <1>3, <2>1
<1>7. ASSUME NEW j \in 1..n - 1 PROVE (a \o b)[j] = s[IF j < i THEN j ELSE j + 1]
  <2>1. CASE j < i
    <3>1. j \in 1..i - 1 /\ j <= Len(a)
      BY <1>1, <1>2, <2>1
    <3>2. QED
      BY <1>2, <1>5, <1>6, <2>1, <3>1
  <2>2. CASE ~(j < i)
    <3>1. ~(j <= Len(a)) /\ j - Len(a) \in 1..n - i /\ i + (j - Len(a)) = j + 1
      BY <1>1, <1>2, <2>2
    <3>2. (a \o b)[j] = b[j - Len(a)]
      BY <1>5, <1>6, <3>1
    <3>3. b[j - Len(a)] = s[i + (j - Len(a))]
      BY <1>3, <3>1
    <3>4. QED
      BY <2>2, <3>1, <3>2, <3>3
  <2>3. QED
    BY <2>1, <2>2
<1>8. QED
  BY <1>1, <1>4, <1>5, <1>6, <1>7

LEMMA UnregisterSound ==
  ASSUME RegistrySound, NEW s \in RuleSets, Unregister(s) PROVE RegistrySound'
<1>1. PICK i \in DOMAIN registry : registry' = RemoveAt(registry, i)
  BY DEF Unregister
<1>2. registry \in Seq(RuleSets) /\ i \in 1..Len(registry)
  BY DEF RegistrySound
<1>3. PICK n \in Nat : n = Len(registry)
  BY <1>2
<1>4. /\ registry' \in Seq(RuleSets) /\ Len(registry') = n - 1
      /\ \A j \in 1..n - 1 : registry'[j] = registry[IF j < i THEN j ELSE j + 1]
  BY <1>1, <1>2, <1>3, Removed
<1>5. ASSUME NEW j \in DOMAIN registry', NEW k \in DOMAIN registry', registry'[j] = registry'[k]
      PROVE  j = k
  <2>1. j \in 1..n - 1 /\ k \in 1..n - 1
    BY <1>4
  <2>0. \A m \in 1..n - 1 : m \in 1..n /\ m + 1 \in 1..n
    OBVIOUS
  <2>2. PICK u \in 1..n : u = IF j < i THEN j ELSE j + 1
    BY <2>0, <2>1
  <2>3. PICK v \in 1..n : v = IF k < i THEN k ELSE k + 1
    BY <2>0, <2>1
  <2>4. registry[u] = registry[v]
    BY <1>4, <1>5, <2>1, <2>2, <2>3
  <2>5. DOMAIN registry = 1..n
    BY <1>2, <1>3
  <2>6. u = v
    BY <2>4, <2>5 DEF RegistrySound, IsInjective
  <2>7. i \in Nat
    BY <1>2
  <2>8. QED
    BY <2>1, <2>2, <2>3, <2>6, <2>7
<1>6. QED
  BY <1>4, <1>5 DEF RegistrySound, IsInjective

LEMMA EmptySound == ASSUME registry' = <<>> PROVE RegistrySound'
BY DEF RegistrySound, IsInjective

LEMMA RunFields ==
  ASSUME NEW r \in RunType
  PROVE  /\ r.snapshot \in Seq(RuleSets) /\ r.extension \in {None} \cup Extensions
         /\ r.stage \in {"CORE", "EXTENSION", "AGGREGATE", "COMPLETE"}
         /\ r.todo \in Seq(Rule) /\ r.pending \in Seq(Result) /\ r.results \in Seq(Result)
BY DEF RunType

LEMMA NextStageIs ==
  ASSUME NEW r \in RunType, r.stage \in {"CORE", "EXTENSION"}
  PROVE  /\ NextStage(r) \in RunType
         /\ NextStage(r).stage = IF r.stage = "CORE" THEN "EXTENSION" ELSE "AGGREGATE"
         /\ NextStage(r).pending = <<>> /\ NextStage(r).results = r.results
         /\ NextStage(r).snapshot = r.snapshot /\ NextStage(r).extension = r.extension
         /\ r.stage = "CORE" => NextStage(r).todo = ExtensionRules(r.snapshot, r.extension)
<1> SUFFICES ASSUME NEW rules, rules = ExtensionRules(r.snapshot, r.extension), rules \in Seq(Rule)
             PROVE  /\ NextStage(r) \in RunType
                    /\ NextStage(r).stage = IF r.stage = "CORE" THEN "EXTENSION" ELSE "AGGREGATE"
                    /\ NextStage(r).pending = <<>> /\ NextStage(r).results = r.results
                    /\ NextStage(r).snapshot = r.snapshot /\ NextStage(r).extension = r.extension
                    /\ r.stage = "CORE" => NextStage(r).todo = rules
  BY RunFields, StageRules
<1>1. <<>> \in Seq(Rule) /\ <<>> \in Seq(Result)
  OBVIOUS
<1>2. CASE r.stage = "CORE"
  <2>1. NextStage(r) = [r EXCEPT !.stage = "EXTENSION", !.pending = <<>>, !.todo = rules]
    BY <1>2 DEF NextStage
  <2>2. QED
    BY <1>1, <1>2, <2>1 DEF RunType
<1>3. CASE r.stage = "EXTENSION"
  <2>1. NextStage(r) = [r EXCEPT !.stage = "AGGREGATE", !.pending = <<>>, !.todo = <<>>]
    BY <1>3 DEF NextStage
  <2>2. QED
    BY <1>1, <1>3, <2>1 DEF RunType
<1>4. QED
  BY <1>2, <1>3
-----------------------------------------------------------------------------
(* The steps.  A run that is not complete owes only its two accounts. *)
LEMMA GoesOn ==
  ASSUME RegistrySound', blamed' \subseteq Severities, run' \in RunType,
         run'.stage # "COMPLETE", Blamed(run)', Counted(run)'
  PROVE  RunInv'
<1>1. ~Completed'
  BY DEF Completed
<1>2. FailsClosed' /\ EveryRuleAnswered'
  BY <1>1 DEF FailsClosed, EveryRuleAnswered
<1>3. QED
  BY <1>2 DEF RunInv, RegistrySound

(* A stage ends with all its answers, or with its error. *)
LEMMA StageEnds ==
  ASSUME RunInv, registry' = registry, run \in RunType, run # None,
         run.stage \in {"CORE", "EXTENSION"}, blamed' \subseteq Severities,
         NEW more \in Seq(Result), run' = NextStage([run EXCEPT !.results = more]),
         \/ Aborted(more)
         \/ Len(run.todo) = 0 /\ more = run.results \o run.pending /\ blamed' = blamed
  PROVE  RunInv'
<1> SUFFICES ASSUME NEW r, r = [run EXCEPT !.results = more] PROVE RunInv'
  OBVIOUS
<1>1. r \in RunType
  BY DEF RunType
<1>2. /\ r.stage = run.stage /\ r.results = more
      /\ r.snapshot = run.snapshot /\ r.extension = run.extension
  BY DEF RunType
<1>3. /\ run' \in RunType /\ run'.stage = IF run.stage = "CORE" THEN "EXTENSION" ELSE "AGGREGATE"
      /\ run'.pending = <<>> /\ run'.results = more
      /\ run'.snapshot = run.snapshot /\ run'.extension = run.extension
      /\ run.stage = "CORE" => run'.todo = ExtensionRules(run.snapshot, run.extension)
  BY <1>1, <1>2, NextStageIs
<1>4. InProgress /\ Blamed(run) /\ Counted(run)
  BY DEF RunInv, InProgress
<1>5. /\ run.snapshot \in Seq(RuleSets) /\ run.pending \in Seq(Result) /\ run.results \in Seq(Result)
      /\ run.todo \in Seq(Rule)
  BY RunFields
<1>6. /\ Aborted(more) \/ (Aborted(run.results) => Aborted(more))
      /\ Aborted(more) \/ Len(more) = Len(run.results) + Len(run.pending)
      /\ Aborted(more) \/ Len(run.todo) = 0
      /\ Aborted(more) \/ blamed' = blamed
      /\ Aborted(more) \/ \A s : Failed(run.results, {s}) \/ Failed(run.pending, {s}) => Failed(more, {s})
  BY <1>5, Concatenated
<1>7. Blamed(run)'
  <2>1. CASE Aborted(more)
    BY <1>3, <2>1 DEF Blamed
  <2>2. CASE ~Aborted(more)
    <3>1. \A s \in blamed' : Failed(more, {s})
      BY <1>4, <1>6, <2>2 DEF Blamed
    <3>2. QED
      BY <1>3, <3>1 DEF Blamed
  <2>3. QED
    BY <2>1, <2>2
<1>8. PICK core \in Nat : core = Len(CoreRules(run.snapshot))
  <2>1. CoreRules(run.snapshot) \in Seq(Rule)
    BY <1>5, StageRules
  <2>2. Len(CoreRules(run.snapshot)) \in Nat
    BY <2>1
  <2>3. QED
    BY <2>2
<1>9. PICK ext \in Nat : ext = Len(ExtensionRules(run.snapshot, run.extension))
  <2>1. ExtensionRules(run.snapshot, run.extension) \in Seq(Rule)
    BY <1>5, StageRules
  <2>2. Len(ExtensionRules(run.snapshot, run.extension)) \in Nat
    BY <2>1
  <2>3. QED
    BY <2>2
<1>10. /\ run.stage = "CORE" => Len(run.results) = 0 /\ Len(run.pending) + Len(run.todo) = core
       /\ run.stage = "EXTENSION" => /\ Aborted(run.results) \/ Len(run.results) = core
                                     /\ Len(run.pending) + Len(run.todo) = ext
  BY <1>4, <1>8, <1>9 DEF Counted
<1>11. Len(run.pending) \in Nat /\ Len(run.results) \in Nat /\ Len(run.todo) \in Nat /\ Len(<<>>) = 0
  BY <1>5
<1>12. CASE run.stage = "CORE"
  <2>1. Aborted(more) \/ Len(more) = core
    <3>1. CASE ~Aborted(more)
      <4>1. Len(more) = Len(run.results) + Len(run.pending) /\ Len(run.todo) = 0 /\ Len(run.results) = 0
        BY <1>6, <1>10, <1>12, <3>1
      <4>2. Len(run.pending) + Len(run.todo) = core
        BY <1>10, <1>12
      <4>3. \A a, b, c \in Nat : a = 0 /\ c = 0 => a + b = b + c
        OBVIOUS
      <4>4. QED
        BY <1>11, <4>1, <4>2, <4>3
    <3>2. QED
      BY <3>1
  <2>2. run'.stage = "EXTENSION" /\ Len(run'.pending) + Len(run'.todo) = ext
    <3>1. run'.stage = "EXTENSION" /\ run'.pending = <<>>
          /\ run'.todo = ExtensionRules(run.snapshot, run.extension)
      BY <1>3, <1>12
    <3>2. Len(run'.pending) = 0 /\ Len(run'.todo) = ext
      BY <1>9, <1>11, <3>1
    <3>3. 0 + ext = ext
      OBVIOUS
    <3>4. QED
      BY <3>1, <3>2, <3>3
  <2>3. Counted(run)'
    BY <1>3, <1>8, <1>9, <2>1, <2>2 DEF Counted
  <2>4. QED
    BY <1>3, <1>7, <2>2, <2>3, GoesOn DEF RunInv, RegistrySound
<1>13. CASE run.stage = "EXTENSION"
  <2>1. Aborted(more) \/ Len(more) = core + ext
    <3>1. CASE ~Aborted(more)
      <4>1. Len(more) = Len(run.results) + Len(run.pending) /\ Len(run.todo) = 0 /\ Len(run.results) = core
        BY <1>6, <1>10, <1>13, <3>1
      <4>2. Len(run.pending) + Len(run.todo) = ext
        BY <1>10, <1>13
      <4>3. \A b, c \in Nat : c = 0 => b + c = b
        OBVIOUS
      <4>4. QED
        BY <1>11, <4>1, <4>2, <4>3
    <3>2. QED
      BY <3>1
  <2>2. run'.stage = "AGGREGATE" /\ Len(run'.pending) = 0
    BY <1>3, <1>11, <1>13
  <2>3. Counted(run)'
    BY <1>3, <1>8, <1>9, <2>1, <2>2 DEF Counted
  <2>4. QED
    BY <1>3, <1>7, <2>2, <2>3, GoesOn DEF RunInv, RegistrySound
<1>14. QED
  BY <1>12, <1>13

LEMMA EndStageSound == ASSUME RunInv, EndStage PROVE RunInv'
<1>1. /\ run # None /\ run \in RunType /\ run.stage \in {"CORE", "EXTENSION"} /\ run.todo = <<>>
      /\ registry' = registry /\ blamed' = blamed /\ blamed \subseteq Severities
  BY DEF RunInv, EndStage, Running
<1>2. run.results \o run.pending \in Seq(Result) /\ Len(run.todo) = 0
  BY <1>1, RunFields
<1>3. run' = NextStage([run EXCEPT !.results = run.results \o run.pending])
  BY <1>1 DEF EndStage
<1>4. QED
  BY <1>1, <1>2, <1>3, StageEnds

(* A rule that answers keeps the accounts; one that cannot ends the stage. *)
LEMMA AnswerSound ==
  ASSUME RunInv, registry' = registry, run \in RunType, run # None,
         run.stage \in {"CORE", "EXTENSION"}, run.todo # <<>>,
         NEW failures \in SUBSET Severities, blamed' = blamed \cup failures,
         NEW a \in Result, \A s \in failures : a.result \in {"FAIL", "ERROR"} /\ a.severity = s,
         run' = [run EXCEPT !.todo = Tail(@), !.pending = Append(@, a)]
  PROVE  RunInv'
<1>1. /\ run.pending \in Seq(Result) /\ run.todo \in Seq(Rule)
  BY RunFields
<1>2. Append(run.pending, a) \in Seq(Result) /\ Len(Append(run.pending, a)) = Len(run.pending) + 1
  BY <1>1, Added
<1>3. Tail(run.todo) \in Seq(Rule) /\ Len(Tail(run.todo)) = Len(run.todo) - 1 /\ Len(run.todo) \in Nat
  BY <1>1
<1>4. /\ run'.stage = run.stage /\ run'.results = run.results
      /\ run'.snapshot = run.snapshot /\ run'.extension = run.extension
      /\ run'.todo = Tail(run.todo) /\ run'.pending = Append(run.pending, a)
  BY DEF RunType
<1>5. run' \in RunType
  BY <1>2, <1>3 DEF RunType
<1>6. InProgress /\ Blamed(run) /\ Counted(run)
  BY DEF RunInv, InProgress
<1>7. Blamed(run)'
  <2>1. ASSUME NEW s \in blamed', ~Aborted(run.results)
        PROVE  Failed(run.results, {s}) \/ Failed(Append(run.pending, a), {s})
    <3>1. CASE s \in failures
      BY <1>1, <3>1, Added
    <3>2. CASE s \in blamed
      BY <1>1, <1>6, <2>1, <3>2, Added DEF Blamed
    <3>3. QED
      BY <3>1, <3>2
  <2>2. QED
    BY <1>4, <2>1 DEF Blamed
<1>8. Len(run'.pending) + Len(run'.todo) = Len(run.pending) + Len(run.todo)
  <2>1. Len(run.pending) \in Nat
    BY <1>1
  <2>2. Len(run'.pending) = Len(run.pending) + 1 /\ Len(run'.todo) = Len(run.todo) - 1
    BY <1>2, <1>3, <1>4
  <2>3. \A m, n \in Nat : (m + 1) + (n - 1) = m + n
    OBVIOUS
  <2>4. QED
    BY <1>3, <2>1, <2>2, <2>3
<1>9. Counted(run)'
  BY <1>4, <1>6, <1>8 DEF Counted
<1>10. QED
  BY <1>4, <1>5, <1>7, <1>9, GoesOn DEF RunInv, RegistrySound

LEMMA CallRuleSound == ASSUME RunInv, CallRule PROVE RunInv'
<1>1. /\ run # None /\ run \in RunType /\ run.stage \in {"CORE", "EXTENSION"} /\ run.todo # <<>>
      /\ registry' = registry /\ blamed \subseteq Severities
  BY DEF RunInv, CallRule, Running
<1>2. Head(run.todo) \in Rule
  BY <1>1, RunFields
<1>3. PICK o \in Outcomes :
        /\ \/ ExecuteRule(Head(run.todo), o) = {} /\ run' = AbortStage(run)
           \/ \E a \in ExecuteRule(Head(run.todo), o) :
                run' = [run EXCEPT !.todo = Tail(@), !.pending = Append(@, a)]
        /\ blamed' = blamed \cup Failures(Head(run.todo), o)
  BY DEF CallRule
<1>4. /\ ExecuteRule(Head(run.todo), o) \subseteq Result /\ Failures(Head(run.todo), o) \subseteq Severities
      /\ \A a \in ExecuteRule(Head(run.todo), o) : \A s \in Failures(Head(run.todo), o) :
           a.result \in {"FAIL", "ERROR"} /\ a.severity = s
  BY <1>2, ExecuteTypes
<1>5. CASE run' = AbortStage(run)
  <2>1. run.results \in Seq(Result)
    BY <1>1, RunFields
  <2>2. Append(run.results, StageError) \in Seq(Result) /\ Aborted(Append(run.results, StageError))
    BY <2>1, StageErrorTypes, Added
  <2>3. run' = NextStage([run EXCEPT !.results = Append(run.results, StageError)])
    BY <1>1, <1>5 DEF AbortStage
  <2>4. blamed' \subseteq Severities
    BY <1>1, <1>3, <1>4
  <2>5. QED
    BY <1>1, <2>2, <2>3, <2>4, StageEnds
<1>6. ASSUME NEW a \in ExecuteRule(Head(run.todo), o),
             run' = [run EXCEPT !.todo = Tail(@), !.pending = Append(@, a)]
      PROVE  RunInv'
  BY <1>1, <1>3, <1>4, <1>6, AnswerSound
<1>7. QED
  BY <1>3, <1>5, <1>6

LEMMA BeginSound ==
  ASSUME RunInv, NEW extension \in {None} \cup Extensions, Begin(extension) PROVE RunInv'
<1> SUFFICES ASSUME NEW rules, rules = CoreRules(registry), rules \in Seq(Rule) PROVE RunInv'
  BY StageRules DEF RunInv
<1>1. /\ run' = [snapshot |-> registry, extension |-> extension, stage |-> "CORE", todo |-> rules,
                 pending |-> <<>>, results |-> <<>>, decision |-> None]
      /\ registry \in Seq(RuleSets) /\ registry' = registry /\ blamed' = {}
  BY DEF Begin, RunInv
<1>2. run' \in RunType
  BY <1>1 DEF RunType
<1>3. Blamed(run)'
  BY <1>1 DEF Blamed
<1>4. /\ run'.stage = "CORE" /\ run'.results = <<>> /\ run'.pending = <<>>
      /\ run'.todo = CoreRules(registry) /\ run'.snapshot = registry
  BY <1>1
<1>5. Len(rules) \in Nat /\ Len(<<>>) = 0
  OBVIOUS
<1>6. Counted(run)'
  BY <1>4, <1>5 DEF Counted
<1>7. QED
  BY <1>1, <1>2, <1>3, <1>4, <1>6, GoesOn DEF RunInv, RegistrySound

(* The decision: nothing is pending any more. *)
LEMMA CompleteSound == ASSUME RunInv, Complete PROVE RunInv'
<1>1. /\ run # None /\ run \in RunType /\ run.stage = "AGGREGATE"
      /\ registry' = registry /\ blamed' = blamed /\ blamed \subseteq Severities
      /\ run' = [run EXCEPT !.stage = "COMPLETE", !.decision = Decide(run.results)]
  BY DEF RunInv, Complete
<1>2. InProgress /\ Blamed(run) /\ Counted(run)
  BY <1>1 DEF RunInv, InProgress
<1>3. /\ run'.stage = "COMPLETE" /\ run'.decision = Decide(run.results) /\ run'.results = run.results
      /\ run'.snapshot = run.snapshot /\ run'.extension = run.extension
  BY <1>1 DEF RunType
<1>4. run' \in RunType
  BY <1>1, DecisionTypes DEF RunType
<1>5. Len(run.pending) = 0
  BY <1>1, <1>2 DEF Counted
<1>6. run.pending \in Seq(Result) /\ DOMAIN run.pending = {}
  BY <1>1, <1>5, RunFields
<1>7. Aborted(run.results) \/ \A s \in blamed : Failed(run.results, {s})
  BY <1>2, <1>6 DEF Blamed, Failed
<1>8. \A s \in blamed : Rank(Decide(run.results)) >= Rank(DecisionFor[s])
  BY <1>1, <1>7, AbortBlocks, DecidesFor
<1>9. FailsClosed'
  BY <1>1, <1>3, <1>8 DEF FailsClosed
<1>10. Decide(run.results) # "BLOCKED" =>
         Len(run.results) = Len(CoreRules(run.snapshot)) + Len(ExtensionRules(run.snapshot, run.extension))
  BY <1>1, <1>2, AbortBlocks DEF Counted
<1>11. EveryRuleAnswered'
  BY <1>3, <1>10 DEF EveryRuleAnswered
<1>12. ~InProgress'
  BY <1>3 DEF InProgress
<1>13. QED
  BY <1>1, <1>4, <1>9, <1>11, <1>12 DEF RunInv

LEMMA QuietSound ==
  ASSUME RunInv, RegistrySound', UNCHANGED <<run, blamed>> PROVE RunInv'
BY DEF RunInv, RegistrySound, InProgress, Blamed, Counted, Failed, Aborted, FailsClosed, EveryRuleAnswered, Completed

LEMMA RunStep == ASSUME RunInv, [Next]_vars PROVE RunInv'
<1>1. RegistrySound
  BY DEF RunInv, RegistrySound
<1>2. ASSUME NEW s \in RuleSets, Register(s) \/ Unregister(s) PROVE RunInv'
  BY <1>1, <1>2, RegisterSound, UnregisterSound, QuietSound DEF Register, Unregister
<1>3. CASE Clear
  BY <1>3, EmptySound, QuietSound DEF Clear
<1>4. ASSUME NEW extension \in {None} \cup Extensions, Begin(extension) PROVE RunInv'
  BY <1>4, BeginSound
<1>5. CASE CallRule \/ EndStage \/ Complete
  BY <1>5, CallRuleSound, EndStageSound, CompleteSound
<1>6. CASE CompleteFails
  BY <1>6 DEF CompleteFails, RunInv, InProgress, FailsClosed, EveryRuleAnswered, Completed
<1>7. CASE UNCHANGED vars
  <2>1. RegistrySound' /\ UNCHANGED <<run, blamed>>
    BY <1>1, <1>7 DEF vars, RegistrySound
  <2>2. QED
    BY <2>1, QuietSound
<1>8. QED
  BY <1>2, <1>3, <1>4, <1>5, <1>6, <1>7 DEF Next

LEMMA RunInit == ASSUME Init PROVE RunInv
BY DEF Init, RunInv, IsInjective, InProgress, FailsClosed, EveryRuleAnswered, Completed

LEMMA RunAlways == Spec => []RunInv
<1>1. Init => RunInv
  BY RunInit
<1>2. RunInv /\ [Next]_vars => RunInv'
  BY RunStep
<1>3. QED
  BY <1>1, <1>2, PTL DEF Spec
-----------------------------------------------------------------------------
(* The registry names each rule set once, and the rules of a stage, the    *)
(* results and the decision are well formed, whatever rules answer and     *)
(* however they change the registry. *)
THEOREM SentinelTypeCorrect == Spec => []TypeOK
<1>1. ASSUME RunInv PROVE TypeOK
  <2>1. Range(registry) \subseteq RuleSets /\ IsInjective(registry) /\ blamed \subseteq Severities
    BY <1>1 DEF RunInv, Range
  <2>2. ASSUME run # None
        PROVE  /\ Range(run.snapshot) \subseteq RuleSets
               /\ run.extension \in {None} \cup Extensions
               /\ run.stage \in {"CORE", "EXTENSION", "AGGREGATE", "COMPLETE"}
               /\ \A i \in DOMAIN run.todo : run.todo[i] \in Rule
               /\ Range(run.pending) \subseteq Result /\ Range(run.results) \subseteq Result
               /\ run.decision \in {None} \cup Range(Decisions)
    <3>1. run \in RunType
      BY <1>1, <2>2 DEF RunInv
    <3>2. /\ run.snapshot \in Seq(RuleSets) /\ run.pending \in Seq(Result)
          /\ run.results \in Seq(Result) /\ run.todo \in Seq(Rule)
      BY <3>1, RunFields
    <3>3. run.decision \in {None} \cup Range(Decisions)
      BY <3>1 DEF RunType
    <3>4. \A i \in DOMAIN run.todo : run.todo[i] \in Rule
      BY <3>2
    <3>5. /\ Range(run.snapshot) \subseteq RuleSets
          /\ Range(run.pending) \subseteq Result /\ Range(run.results) \subseteq Result
      BY <3>2 DEF Range
    <3>6. QED
      BY <3>1, <3>3, <3>4, <3>5, RunFields
  <2>3. QED
    BY <2>1, <2>2 DEF TypeOK
<1>2. QED
  BY <1>1, RunAlways, PTL

(* A run fails closed: the decision is as strong as every failure of a     *)
(* rule asks for, those included that an exception threw away with the     *)
(* answers of its stage. *)
THEOREM RunsFailClosed == Spec => []FailsClosed
<1>1. RunInv => FailsClosed
  BY DEF RunInv
<1>2. QED
  BY <1>1, RunAlways, PTL

(* A run that is not blocked has one result for each rule of the sets that *)
(* were registered when it began. *)
THEOREM RunsAnswerEveryRule == Spec => []EveryRuleAnswered
<1>1. RunInv => EveryRuleAnswered
  BY DEF RunInv
<1>2. QED
  BY <1>1, RunAlways, PTL
=============================================================================
