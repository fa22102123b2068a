----------------------------- MODULE SentinelRun -----------------------------
(***************************************************************************)
(* A Sentinel validation run: the registry of rule sets, the two stages    *)
(* that call every rule of the run, and the decision taken on the results. *)
(*                                                                         *)
(* A run is synchronous, but the rules are arbitrary code: each call may   *)
(* answer anything or throw, and may change the registry.  Both validators *)
(* are configured; ExtensionValidator is CoreValidator without its filter. *)
(* A rule's message, evidence and metadata are left out; a forgeEffect     *)
(* matters only when it is not one of the four, which makes the result     *)
(* impossible to build.  A rule without id or validate() throws when it is *)
(* called, like any other.                                                 *)
(***************************************************************************)
EXTENDS Naturals, FiniteSets, SequencesExt

CONSTANTS
    RuleSets,       \* identifiers of the rule sets that may be registered
    Extensions,     \* names a rule set or a caller may give
    ExtensionsOf,   \* [RuleSets -> SUBSET Extensions], {}: a core rule set
    RuleIds,        \* the ids of their rules
    RulesOf,        \* [RuleSets -> Seq(rules)]
    Stated,         \* the severities an outcome may state itself
    None

Severities == {"CRITICAL", "HIGH", "MEDIUM", "LOW", "INFO"}
Rule == [id : RuleIds, severity : Severities \cup {"INVALID"},
         code : BOOLEAN, effectValid : BOOLEAN]

ASSUME RuleAssumption ==
    /\ ExtensionsOf \in [RuleSets -> SUBSET Extensions]
    /\ RulesOf \in [RuleSets -> Seq(Rule)]
ASSUME StatedAssumption == Stated \subseteq Severities
ASSUME NoneAssumption == None \notin Extensions

VARIABLES
    registry,       \* the registered rule sets, in insertion order
    run,            \* the run in progress, or the last one
    blamed          \* the severities with which its rules failed (history)

vars == <<registry, run, blamed>>

Decisions == <<"READY", "READY_WITH_WARNINGS", "REVIEW", "BLOCKED">>
Rank(decision) == CHOOSE i \in 1 .. 4 : Decisions[i] = decision

Results == {"PASS", "WARN", "FAIL", "NOT_APPLICABLE", "ERROR"}
Ids == RuleIds \cup {"OTHER", "SENTINEL-EXECUTION"}
Result == [rule : Ids, result : Results, severity : Severities]
StageError == [rule |-> "SENTINEL-EXECUTION", result |-> "ERROR", severity |-> "CRITICAL"]

(* A rule set is registered once, however rules change the registry while a *)
(* run goes on, and the results and the decision of a run are well formed.  *)
TypeOK ==
    /\ Range(registry) \subseteq RuleSets /\ IsInjective(registry)
    /\ run # None =>
        /\ Range(run.snapshot) \subseteq RuleSets
        /\ run.extension \in {None} \cup Extensions
        /\ run.stage \in {"CORE", "EXTENSION", "AGGREGATE", "COMPLETE"}
        /\ \A i \in DOMAIN run.todo : run.todo[i] \in Rule
        /\ Range(run.pending) \subseteq Result /\ Range(run.results) \subseteq Result
        /\ run.decision \in {None} \cup Range(Decisions)
    /\ blamed \subseteq Severities

Init == registry = <<>> /\ run = None /\ blamed = {}

-----------------------------------------------------------------------------
(* The registry. *)

RegisterAgain(s) ==     \* Mutated: a duplicate is not refused
    /\ Len(registry) < 3
    /\ registry' = Append(registry, s)
    /\ UNCHANGED <<run, blamed>>

Register(s) ==
    /\ s \notin Range(registry)
    /\ registry' = Append(registry, s)
    /\ UNCHANGED <<run, blamed>>

Unregister(s) ==
    /\ \E i \in DOMAIN registry : registry[i] = s /\ registry' = RemoveAt(registry, i)
    /\ UNCHANGED <<run, blamed>>

Clear ==
    /\ registry # <<>>
    /\ registry' = <<>>
    /\ UNCHANGED <<run, blamed>>

-----------------------------------------------------------------------------
(* The rules of a stage, in registry and rule order. *)

RulesIn(sets, selected) ==
    LET rules[n \in 0 .. Len(sets)] ==
            IF n = 0 THEN <<>>
            ELSE IF sets[n] \in selected THEN rules[n - 1] \o RulesOf[sets[n]] ELSE rules[n - 1]
    IN  rules[Len(sets)]
CoreRules(sets) == RulesIn(sets, {s \in RuleSets : ExtensionsOf[s] = {}})
\* A caller that names no extension gets all of them; an unknown name selects nothing.
ExtensionRules(sets, extension) ==
    RulesIn(sets, {s \in RuleSets : IF extension = None THEN ExtensionsOf[s] # {}
                                    ELSE extension \in ExtensionsOf[s]})

\* run() is one call: the caller has no run before it returns.
InProgress == IF run = None THEN FALSE ELSE run.stage # "COMPLETE"

Begin(extension) ==
    /\ ~InProgress
    /\ run' = [snapshot |-> registry, extension |-> extension, stage |-> "CORE",
               todo |-> CoreRules(registry), pending |-> <<>>, results |-> <<>>,
               decision |-> None]
    /\ blamed' = {}
    /\ UNCHANGED registry

-----------------------------------------------------------------------------
(* One rule. *)

\* What rule.validate() may do.  "OWN" stands for a field the descriptor leaves
\* to the rule; a result built by the rule itself may bear any id.
Outcomes ==
    [kind : {"BOOLEAN"}, value : BOOLEAN]
    \cup [kind : {"DESCRIPTOR"}, result : Results, severity : {"OWN", "INVALID"} \cup Stated,
          code : BOOLEAN, effect : {"OWN", "VALID", "INVALID"}]
    \cup [kind : {"RESULT"}, rule : {"OTHER"}, result : Results, severity : Stated]
    \cup [kind : {"THROWS"}]

Answer(rule, result, severity) == [rule |-> rule.id, result |-> result, severity |-> severity]

\* createPass and createFail.
BooleanAnswers(rule, value) ==
    IF value THEN {Answer(rule, "PASS", rule.severity)}
    ELSE IF rule.code /\ rule.effectValid THEN {Answer(rule, "FAIL", rule.severity)} ELSE {}

\* createStructuredResult: {} when the descriptor makes no result.
StructuredAnswers(rule, o) ==
    LET fails == o.result \in {"WARN", "FAIL", "ERROR"}
        codeMissing == o.result = "FAIL" /\ ~o.code /\ ~rule.code
        effectWrong == CASE o.effect = "VALID" -> FALSE
                         [] o.effect = "INVALID" -> o.result # "NOT_APPLICABLE"
                         [] o.effect = "OWN" -> fails /\ ~rule.effectValid
    IN  IF o.severity = "INVALID" \/ codeMissing \/ effectWrong THEN {}
        ELSE {Answer(rule, o.result, IF o.severity = "OWN" THEN rule.severity ELSE o.severity)}

\* assertRule and normalizeOutcome: the result of a rule, {} when they throw.
Answers(rule, o) ==
    CASE rule.severity = "INVALID" \/ o.kind = "THROWS" -> {}
      [] rule.severity # "INVALID" /\ o.kind = "BOOLEAN" -> BooleanAnswers(rule, o.value)
      [] rule.severity # "INVALID" /\ o.kind = "DESCRIPTOR" -> StructuredAnswers(rule, o)
      [] OTHER -> {[rule |-> o.rule, result |-> o.result, severity |-> o.severity]}

\* createRuleError: its severity is the rule's, whatever the outcome said, and
\* an invalid forgeEffect makes it throw as well.
ErrorSeverity(rule) == IF rule.severity = "INVALID" THEN "CRITICAL" ELSE rule.severity
RuleErrors(rule) ==
    IF rule.effectValid THEN {Answer(rule, "ERROR", ErrorSeverity(rule))} ELSE {}

\* executeRule: the result, or the error result; {} when both throw.
ExecuteRule(rule, o) ==
    IF Answers(rule, o) # {} THEN Answers(rule, o) ELSE RuleErrors(rule)

\* With what severity the rule says that the subject fails, or leaves unsaid
\* what it is: {} when it passes, warns or does not apply.
Failures(rule, o) ==
    IF Answers(rule, o) = {} THEN {ErrorSeverity(rule)}
    ELSE {a.severity : a \in {b \in Answers(rule, o) : b.result \in {"FAIL", "ERROR"}}}

-----------------------------------------------------------------------------
(* The stages.  Results reach the run when the whole stage has answered; an *)
(* exception that leaves the validator replaces all of them.                *)

Running == IF run = None THEN FALSE ELSE run.stage \in {"CORE", "EXTENSION"}

\* After the core stage, the extension stage of the sets read at the start.
\* Mutated: of the sets registered now.
NextStageLive(r) ==
    IF r.stage = "CORE"
    THEN [r EXCEPT !.stage = "EXTENSION", !.pending = <<>>,
                   !.todo = ExtensionRules(registry, r.extension)]
    ELSE [r EXCEPT !.stage = "AGGREGATE", !.pending = <<>>, !.todo = <<>>]
NextStage(r) ==
    IF r.stage = "CORE"
    THEN [r EXCEPT !.stage = "EXTENSION", !.pending = <<>>,
                   !.todo = ExtensionRules(r.snapshot, r.extension)]
    ELSE [r EXCEPT !.stage = "AGGREGATE", !.pending = <<>>, !.todo = <<>>]

\* Mutated: the stage ends without its error.
AbortStageSilently(r) == NextStage(r)
AbortStage(r) == NextStage([r EXCEPT !.results = Append(@, StageError)])

CallRule ==
    \E o \in Outcomes :
        /\ Running /\ run.todo # <<>>
        /\ LET rule == Head(run.todo)  answers == ExecuteRule(rule, o)
           IN  /\ \/ answers = {} /\ run' = AbortStage(run)
                  \/ \E a \in answers :
                       run' = [run EXCEPT !.todo = Tail(@), !.pending = Append(@, a)]
               /\ blamed' = blamed \cup Failures(rule, o)
        /\ UNCHANGED registry

EndStage ==
    /\ Running /\ run.todo = <<>>
    /\ run' = NextStage([run EXCEPT !.results = @ \o run.pending])
    /\ UNCHANGED <<registry, blamed>>

-----------------------------------------------------------------------------
(* The decision. *)

Failed(r, severities) ==
    \E i \in DOMAIN r : r[i].result \in {"FAIL", "ERROR"} /\ r[i].severity \in severities
Decide(r) ==
    CASE Failed(r, {"CRITICAL", "HIGH"}) -> "BLOCKED"
      [] ~Failed(r, {"CRITICAL", "HIGH"}) /\ Failed(r, {"MEDIUM"}) -> "REVIEW"
      [] ~Failed(r, {"CRITICAL", "HIGH", "MEDIUM"})
         /\ (Failed(r, {"LOW", "INFO"}) \/ \E i \in DOMAIN r : r[i].result = "WARN")
            -> "READY_WITH_WARNINGS"
      [] OTHER -> "READY"

Complete ==
    /\ run # None /\ run.stage = "AGGREGATE"
    /\ run' = [run EXCEPT !.stage = "COMPLETE", !.decision = Decide(run.results)]
    /\ UNCHANGED <<registry, blamed>>

\* The clock went back: complete() throws, and the caller has no run.
CompleteFails ==
    /\ run # None /\ run.stage = "AGGREGATE"
    /\ run' = None /\ blamed' = {}
    /\ UNCHANGED registry

-----------------------------------------------------------------------------
Next ==
    \/ \E s \in RuleSets : Register(s) \/ Unregister(s)
    \/ Clear
    \/ \E extension \in {None} \cup Extensions : Begin(extension)
    \/ CallRule \/ EndStage \/ Complete \/ CompleteFails

Spec == Init /\ [][Next]_vars

-----------------------------------------------------------------------------
(* Properties *)

Completed == IF run = None THEN FALSE ELSE run.stage = "COMPLETE"
\* What the specification of the rules asks of a failure of a severity.
DecisionFor == [s \in Severities |->
    CASE s \in {"CRITICAL", "HIGH"} -> "BLOCKED"
      [] s = "MEDIUM" -> "REVIEW"
      [] s \in {"LOW", "INFO"} -> "READY_WITH_WARNINGS"]

\* Sentinel fails closed: a rule that failed, threw or could not be executed
\* is answered by the decision its severity asks for or by a stronger one, the
\* answers that an exception of a later rule threw away included.
FailsClosed ==
    Completed => \A s \in blamed : Rank(run.decision) >= Rank(DecisionFor[s])

\* The registry as it was when the run began is judged as a whole, whatever is
\* registered or removed meanwhile: the run is blocked, or it has one result for
\* each rule of a core set and of an extension it was asked for.
EveryRuleAnswered ==
    Completed /\ run.decision # "BLOCKED" =>
        Len(run.results) = Len(CoreRules(run.snapshot))
                           + Len(ExtensionRules(run.snapshot, run.extension))

-----------------------------------------------------------------------------
(* What makes a run fail closed and answer every rule, while it goes on:    *)
(* every failure so far is among the answers, or a stage has been aborted   *)
(* and its error outweighs them all; the rules answered and to be called    *)
(* are those of the stage.                                                  *)
Aborted(r) == \E i \in DOMAIN r : r[i] = StageError

RunType ==
    [snapshot : Seq(RuleSets), extension : {None} \cup Extensions,
     stage : {"CORE", "EXTENSION", "AGGREGATE", "COMPLETE"}, todo : Seq(Rule),
     pending : Seq(Result), results : Seq(Result), decision : {None} \cup Range(Decisions)]

Blamed(r) ==
    Aborted(r.results) \/ \A s \in blamed : Failed(r.results, {s}) \/ Failed(r.pending, {s})

Counted(r) ==
    LET core == Len(CoreRules(r.snapshot))  ext == Len(ExtensionRules(r.snapshot, r.extension)) IN
    /\ r.stage = "CORE" => Len(r.results) = 0 /\ Len(r.pending) + Len(r.todo) = core
    /\ r.stage = "EXTENSION" =>
         /\ Aborted(r.results) \/ Len(r.results) = core
         /\ Len(r.pending) + Len(r.todo) = ext
    /\ r.stage = "AGGREGATE" =>
         /\ Len(r.pending) = 0
         /\ Aborted(r.results) \/ Len(r.results) = core + ext

RunInv ==
    /\ registry \in Seq(RuleSets) /\ IsInjective(registry) /\ blamed \subseteq Severities
    /\ run # None => run \in RunType
    /\ InProgress => Blamed(run) /\ Counted(run)
    /\ FailsClosed /\ EveryRuleAnswered
=============================================================================
