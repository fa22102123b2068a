-------------------------- MODULE PaidAcquisition --------------------------
(***************************************************************************)
(* Buying provider tasks: the single-use authorization, the controlled     *)
(* executor, the ledgers it leaves behind, and the processes that run it.  *)
(*                                                                         *)
(* A request stands for the prepared authorization request, the plan in it *)
(* and the authorization made of it at EXECUTE: authorizationId is the     *)
(* requestId and both name one planId.  An expired or budget-blocked       *)
(* authorization is one that is not invoked.  Money is counted in units of *)
(* which a task is estimated to cost EstimatedCost.                        *)
(*                                                                         *)
(* The run lock is used through what it promises, SingleWriter.            *)
(***************************************************************************)
EXTENDS Naturals, Sequences

CONSTANTS
    Processes, Requests, Keys, NoRequest,
    KeyOf,              \* the request keys of the tasks a plan approves, in plan order
    WithIntent,         \* the requests that carry a paid-action intent
    EstimatedCost,      \* estimatedCostUsd of a task
    Costs,              \* what the provider may charge for a task
    Overcharge,         \* by how much a charge may exceed the estimate
    MaxRun, MaxDay,     \* maxSpendPerRunUsd, maxSpendPerDayUsd
    LastDay,            \* bound: UTC days 1 .. LastDay
    Overlap,            \* may two processes be inside consume() at once?
    Faults              \* may processes die and writes of a ledger fail?

ASSUME NoRequestAssumption == NoRequest \notin Requests
ASSUME KeyAssumption ==
    /\ KeyOf \in [Requests -> Seq(Keys)]
    /\ \A r \in Requests : Len(KeyOf[r]) > 0
    /\ \A r \in Requests : \A i, j \in 1 .. Len(KeyOf[r]) : KeyOf[r][i] = KeyOf[r][j] => i = j
ASSUME IntentAssumption ==
    \A r \in WithIntent :
        /\ Len(KeyOf[r]) = 1
        /\ \A s \in Requests : (\E i \in 1 .. Len(KeyOf[s]) : KeyOf[s][i] = KeyOf[r][1]) => s = r
ASSUME MoneyAssumption ==
    /\ EstimatedCost \in Nat /\ Overcharge \in Nat
    /\ Costs \subseteq 0 .. EstimatedCost + Overcharge
    /\ MaxRun \in Nat /\ MaxDay \in Nat /\ LastDay \in Nat \ {0}
ASSUME FaultAssumption == Overlap \in BOOLEAN /\ Faults \in BOOLEAN

VARIABLES
    today,       \* the UTC day
    prepared,    \* the requests PREPARE has exported
    snapshot,    \* spentTodayUsd of a plan
    consumed,    \* live-authorization-consumptions.json
    writers,     \* the processes that hold mercury-acquisition.lock
    ledger,      \* execution-ledger.json: its runs, and their spend per UTC day
    taskLedger,  \* dataforseo-task-ledger.json: the request keys recorded
    pc, req,     \* where each process is, and the request it executes
    seen,        \* the consumptions consume() has read
    run,         \* the run in progress: its UTC day, task outcomes and spend
    base,        \* the ledger append() has read
    created,     \* history: the provider tasks created for a request and a key
    told,        \* history: what the provider's answers have charged for a request
    overwritten, \* history: consumptions another process's consume() has written over
    interrupted  \* history: requests a run of which ended without an entry in the ledger

files == <<consumed, ledger, taskLedger>>
provider == <<created, told>>
history == <<overwritten, interrupted>>
local == <<seen, run, base>>
vars == <<today, prepared, snapshot, writers, pc, req, files, provider, local, history>>

Days == 1 .. LastDay
Outcomes == {"COMPLETED", "SKIPPED", "FAILED",
             "PRE_REQUEST"}   \* failed with a TypeError: "... is not a function"
Run == [plan : Requests, day : Days, cost : Nat, rows : Seq(Outcomes)]
Ledger == [runs : SUBSET Run, spent : [Days -> Nat]]
EmptyLedger == [runs |-> {}, spent |-> [d \in Days |-> 0]]
Progress == [day : Days, spent : Nat, rows : Seq(Outcomes), cost : Nat]
NoRun == [day |-> 1, spent |-> 0, rows |-> <<>>, cost |-> 0]

Transport == {"post", "answer", "record"}
Running == {"next", "append", "write"} \cup Transport
InLock == {"check"} \cup Running
PC == {"idle", "consume", "mark", "acquire"} \cup InLock

TypeOK ==
    /\ today \in Days
    /\ prepared \subseteq Requests
    /\ snapshot \in [Requests -> Nat]
    /\ consumed \subseteq Requests
    /\ writers \subseteq Processes
    /\ ledger \in Ledger
    /\ taskLedger \subseteq Keys
    /\ pc \in [Processes -> PC]
    /\ req \in [Processes -> Requests \cup {NoRequest}]
    /\ seen \in [Processes -> SUBSET Requests]
    /\ run \in [Processes -> Progress]
    /\ base \in [Processes -> Ledger]
    /\ created \in [Requests -> [Keys -> Nat]]
    /\ told \in [Requests -> Nat]
    /\ overwritten \subseteq Requests /\ interrupted \subseteq Requests
    /\ \A p \in Processes : pc[p] # "idle" => req[p] \in Requests

Lock == INSTANCE SingleWriter WITH Runs <- Processes

Init ==
    /\ today = 1 /\ prepared = {} /\ snapshot = [r \in Requests |-> 0]
    /\ consumed = {} /\ ledger = EmptyLedger /\ taskLedger = {}
    /\ Lock!Init
    /\ pc = [p \in Processes |-> "idle"]
    /\ req = [p \in Processes |-> NoRequest]
    /\ seen = [p \in Processes |-> {}]
    /\ run = [p \in Processes |-> NoRun]
    /\ base = [p \in Processes |-> EmptyLedger]
    /\ created = [r \in Requests |-> [k \in Keys |-> 0]]
    /\ told = [r \in Requests |-> 0]
    /\ overwritten = {} /\ interrupted = {}

GoTo(p, to) == pc' = [pc EXCEPT ![p] = to]

(* The invocation is over, and with it everything it had in memory. *)
End(p) ==
    /\ GoTo(p, "idle")
    /\ req' = [req EXCEPT ![p] = NoRequest]
    /\ seen' = [seen EXCEPT ![p] = {}]
    /\ run' = [run EXCEPT ![p] = NoRun]
    /\ base' = [base EXCEPT ![p] = EmptyLedger]

(* release(), or the lock of a dead process found stale. *)
Release(p) == writers' = writers \ {p}

Plan(p) == KeyOf[req[p]]
Estimate(r) == EstimatedCost * Len(KeyOf[r])
Ran(r, l) == \E entry \in l.runs : entry.plan = r       \* findByPlanId

NextDay ==
    /\ today < LastDay
    /\ today' = today + 1
    /\ UNCHANGED <<prepared, snapshot, writers, pc, req, files, provider, local, history>>

(* PREPARE binds the day's governed spend into the plan, outside the lock. *)
Prepare(r) ==
    /\ r \notin prepared
    /\ Estimate(r) <= MaxRun
    /\ ledger.spent[today] + Estimate(r) <= MaxDay
    /\ prepared' = prepared \cup {r}
    /\ snapshot' = [snapshot EXCEPT ![r] = ledger.spent[today]]
    /\ UNCHANGED <<today, writers, pc, req, files, provider, local, history>>

(* The gate is open and isConsumed() reads no earlier consumption. *)
Invoke(p, r) ==
    /\ pc[p] = "idle"
    /\ r \in prepared \ consumed
    /\ GoTo(p, "consume")
    /\ req' = [req EXCEPT ![p] = r]
    /\ UNCHANGED <<today, prepared, snapshot, writers, files, provider, local, history>>

(* Mutated: consume() trusts the isConsumed() before it. *)
ConsumeReadsUnchecked(p) ==
    /\ pc[p] = "consume"
    /\ Overlap \/ \A q \in Processes : pc[q] # "mark"
    /\ seen' = [seen EXCEPT ![p] = consumed]
    /\ GoTo(p, "mark")
    /\ UNCHANGED <<today, prepared, snapshot, writers, req, files, provider, run, base, history>>

(* consume() reads the file.  Nothing but Overlap keeps a second process    *)
(* from reading before this one has written.                               *)
ConsumeReads(p) ==
    /\ pc[p] = "consume"
    /\ Overlap \/ \A q \in Processes : pc[q] # "mark"
    /\ req[p] \notin consumed
    /\ seen' = [seen EXCEPT ![p] = consumed]
    /\ GoTo(p, "mark")
    /\ UNCHANGED <<today, prepared, snapshot, writers, req, files, provider, run, base, history>>

(* ... or finds the authorization: LIVE_AUTHORIZATION_ALREADY_CONSUMED. *)
AlreadyConsumed(p) ==
    /\ pc[p] = "consume"
    /\ req[p] \in consumed
    /\ End(p)
    /\ UNCHANGED <<today, prepared, snapshot, writers, files, provider, history>>

(* Mutated: the temporary file is not renamed over the consumptions. *)
ConsumeWritesTemp(p) ==
    /\ pc[p] = "mark"
    /\ seen' = [seen EXCEPT ![p] = {}]
    /\ GoTo(p, "acquire")
    /\ UNCHANGED <<today, prepared, snapshot, writers, req, files, provider, run, base, history>>

(* consume() replaces the file by what it read plus its own authorization. *)
ConsumeWrites(p) ==
    /\ pc[p] = "mark"
    /\ consumed' = seen[p] \cup {req[p]}
    /\ overwritten' = overwritten \cup (consumed \ consumed')
    /\ seen' = [seen EXCEPT ![p] = {}]
    /\ GoTo(p, "acquire")
    /\ UNCHANGED <<today, prepared, snapshot, writers, ledger, taskLedger, req, provider, run, base,
                   interrupted>>

(* Mutated: the acquisition runs outside the run lock. *)
AcquireShared(p) ==
    /\ pc[p] = "acquire"
    /\ writers' = writers \cup {p}
    /\ GoTo(p, "check")
    /\ UNCHANGED <<today, prepared, snapshot, req, files, provider, local, history>>

Acquire(p) ==
    /\ pc[p] = "acquire"
    /\ Lock!Enter(p)
    /\ GoTo(p, "check")
    /\ UNCHANGED <<today, prepared, snapshot, req, files, provider, local, history>>

(* SKIPPED_LOCKED: the authorization is spent, and nothing was bought. *)
LockBusy(p) ==
    /\ pc[p] = "acquire"
    /\ writers # {}
    /\ End(p)
    /\ UNCHANGED <<today, prepared, snapshot, writers, files, provider, history>>

MayStart(r) ==
    /\ ~Ran(r, ledger)
    /\ ledger.spent[today] = snapshot[r]
    /\ ledger.spent[today] + Estimate(r) <= MaxDay

(* A duplicate plan, a snapshot that has drifted, or no budget left. *)
Refuse(p) ==
    /\ pc[p] = "check"
    /\ ~MayStart(req[p])
    /\ Release(p)
    /\ End(p)
    /\ UNCHANGED <<today, prepared, snapshot, files, provider, history>>

(* Mutated: the day's spend may have moved since PREPARE. *)
StartDrifted(p) ==
    /\ pc[p] = "check"
    /\ ~Ran(req[p], ledger) /\ ledger.spent[today] + Estimate(req[p]) <= MaxDay
    /\ run' = [run EXCEPT ![p].day = today]
    /\ GoTo(p, "next")
    /\ UNCHANGED <<today, prepared, snapshot, writers, req, files, provider, seen, base, history>>

(* Mutated: no duplicate check before execution. *)
StartUnchecked(p) ==
    /\ pc[p] = "check"
    /\ run' = [run EXCEPT ![p].day = today]
    /\ GoTo(p, "next")
    /\ UNCHANGED <<today, prepared, snapshot, writers, req, files, provider, seen, base, history>>

Start(p) ==
    /\ pc[p] = "check"
    /\ MayStart(req[p])
    /\ run' = [run EXCEPT ![p].day = today]
    /\ GoTo(p, "next")
    /\ UNCHANGED <<today, prepared, snapshot, writers, req, files, provider, seen, base, history>>

Task(p) == Plan(p)[Len(run[p].rows) + 1]
BudgetAllows(p) ==
    /\ run[p].spent + EstimatedCost <= MaxRun
    /\ snapshot[req[p]] + run[p].spent + EstimatedCost <= MaxDay

(* The task has an outcome, and the loop breaks. *)
Stop(p, outcome) ==
    /\ run' = [run EXCEPT ![p].rows = Append(run[p].rows, outcome), ![p].cost = 0]
    /\ GoTo(p, "append")
    /\ UNCHANGED <<today, prepared, snapshot, writers, req, files, provider, seen, base, history>>

(* NEXT_TASK_RUN_BUDGET or NEXT_TASK_DAILY_BUDGET. *)
BudgetStops(p) == pc[p] = "next" /\ ~BudgetAllows(p) /\ Stop(p, "SKIPPED")

(* The composition or the credentials fail before anything is sent, or      *)
(* requireNew finds the request key: DATAFORSEO_DUPLICATE_PAID_TASK.         *)
LocalFailure(p) ==
    /\ pc[p] = "next" /\ BudgetAllows(p)
    /\ \/ Stop(p, "PRE_REQUEST")
       \/ Stop(p, "FAILED")

(* Mutated: requireNew is not called before the POST. *)
CheckKeyUnread(p) ==
    /\ pc[p] = "next" /\ BudgetAllows(p)
    /\ GoTo(p, "post")
    /\ UNCHANGED <<today, prepared, snapshot, writers, req, files, provider, local, history>>

CheckKey(p) ==
    /\ pc[p] = "next" /\ BudgetAllows(p)
    /\ Task(p) \notin taskLedger
    /\ GoTo(p, "post")
    /\ UNCHANGED <<today, prepared, snapshot, writers, req, files, provider, local, history>>

(* The provider creates the task and charges for it. *)
Post(p) ==
    /\ pc[p] = "post"
    /\ created' = [created EXCEPT ![req[p]][Task(p)] = @ + 1]
    /\ \E c \in Costs : run' = [run EXCEPT ![p].cost = c]
    /\ GoTo(p, "answer")
    /\ UNCHANGED <<today, prepared, snapshot, writers, req, files, told, seen, base, history>>

(* The provider is not reached, or rejects the request. *)
NotCreated(p) == pc[p] = "post" /\ Stop(p, "FAILED")

(* The answer arrives with the task's id and cost ... *)
Answered(p) ==
    /\ pc[p] = "answer"
    /\ told' = [told EXCEPT ![req[p]] = @ + run[p].cost]
    /\ GoTo(p, "record")
    /\ UNCHANGED <<today, prepared, snapshot, writers, req, files, created, local, history>>

(* ... or the connection fails after the task was created. *)
AnswerLost(p) == pc[p] = "answer" /\ Stop(p, "FAILED")

(* Mutated: the cost of the last task of a plan is not added. *)
RecordFree(p) ==
    /\ pc[p] = "record"
    /\ taskLedger' = taskLedger \cup {Task(p)}
    /\ run' = [run EXCEPT ![p].rows = Append(run[p].rows, "COMPLETED"), ![p].cost = 0]
    /\ GoTo(p, IF Len(run'[p].rows) < Len(Plan(p)) THEN "next" ELSE "append")
    /\ UNCHANGED <<today, prepared, snapshot, writers, req, consumed, ledger, provider, seen, base,
                   history>>

(* record() has the key in the task ledger; the executor adds the charge    *)
(* and goes on unless that exceeds a ceiling or the plan is done.            *)
Record(p) ==
    LET spent == run[p].spent + run[p].cost
        rows == Append(run[p].rows, "COMPLETED")
        more == /\ spent <= MaxRun /\ snapshot[req[p]] + spent <= MaxDay
                /\ Len(rows) < Len(Plan(p))
    IN /\ pc[p] = "record"
       /\ Task(p) \notin taskLedger
       /\ taskLedger' = taskLedger \cup {Task(p)}
       /\ run' = [run EXCEPT ![p].rows = rows, ![p].spent = spent, ![p].cost = 0]
       /\ GoTo(p, IF more THEN "next" ELSE "append")
       /\ UNCHANGED <<today, prepared, snapshot, writers, req, consumed, ledger, provider, seen, base,
                      history>>

(* record() throws; the error carries neither the cost nor the task's id.   *)
RecordFails(p) ==
    /\ pc[p] = "record"
    /\ Faults \/ Task(p) \in taskLedger
    /\ Stop(p, "FAILED")

AppendReads(p) ==
    /\ pc[p] = "append"
    /\ base' = [base EXCEPT ![p] = ledger]
    /\ GoTo(p, "write")
    /\ UNCHANGED <<today, prepared, snapshot, writers, req, files, provider, seen, run, history>>

WithRun(l, entry) ==
    [runs |-> l.runs \cup {entry},
     spent |-> [l.spent EXCEPT ![entry.day] = @ + entry.cost]]

(* append() writes what it read plus the run, unless it read a run of the   *)
(* same plan (ACQUISITION_EXECUTION_REPLAY_CONFLICT); the lock is released. *)
AppendWrites(p) ==
    /\ pc[p] = "write"
    /\ ledger' = IF Ran(req[p], base[p]) THEN ledger
                 ELSE WithRun(base[p], [plan |-> req[p], day |-> run[p].day,
                                        cost |-> run[p].spent, rows |-> run[p].rows])
    /\ Release(p)
    /\ End(p)
    /\ UNCHANGED <<today, prepared, snapshot, consumed, taskLedger, provider, history>>

AppendFails(p) ==
    /\ Faults
    /\ pc[p] = "write"
    /\ interrupted' = interrupted \cup {req[p]}
    /\ Release(p)
    /\ End(p)
    /\ UNCHANGED <<today, prepared, snapshot, files, provider, overwritten>>

(* The process dies; whoever finds its lock stale removes it. *)
Crash(p) ==
    /\ Faults
    /\ pc[p] # "idle"
    /\ interrupted' = IF pc[p] \in Running THEN interrupted \cup {req[p]} ELSE interrupted
    /\ Release(p)
    /\ End(p)
    /\ UNCHANGED <<today, prepared, snapshot, files, provider, overwritten>>

Authorize(p) ==
    \/ \E r \in Requests : Invoke(p, r)
    \/ ConsumeReads(p) \/ AlreadyConsumed(p) \/ ConsumeWrites(p)
Execute(p) ==
    \/ Acquire(p) \/ LockBusy(p) \/ Refuse(p) \/ Start(p)
    \/ BudgetStops(p) \/ LocalFailure(p) \/ CheckKey(p)
    \/ AppendReads(p) \/ AppendWrites(p) \/ AppendFails(p)
Buy(p) ==
    \/ Post(p) \/ NotCreated(p) \/ Answered(p) \/ AnswerLost(p)
    \/ Record(p) \/ RecordFails(p)

Next ==
    \/ NextDay
    \/ \E r \in Requests : Prepare(r)
    \/ \E p \in Processes : Authorize(p) \/ Execute(p) \/ Buy(p) \/ Crash(p)

Spec == Init /\ [][Next]_vars

(* Mutated: a failure the provider did not confirm is taken to be free. *)
AssessHopeful(entry) ==
    CASE KeyOf[entry.plan][1] \in taskLedger \/ entry.rows[1] = "COMPLETED" -> "PROVIDER_TASK_CREATED"
      [] OTHER -> "SAFE_NO_PROVIDER_TASK"

(* assessPaidActionRecovery for a plan whose one task carries an intent.    *)
Assess(entry) ==
    CASE KeyOf[entry.plan][1] \in taskLedger \/ entry.rows[1] = "COMPLETED" -> "PROVIDER_TASK_CREATED"
      [] entry.cost # 0 -> "PROVIDER_TASK_STATUS_UNKNOWN"
      [] entry.rows[1] = "PRE_REQUEST" -> "SAFE_NO_PROVIDER_TASK"
      [] OTHER -> "PROVIDER_TASK_STATUS_UNKNOWN"

(* An authorization never pays for a task of its plan twice, however often  *)
(* and by however many processes it is executed.                            *)
PaidOnce == \A r \in Requests, k \in Keys : created[r][k] <= 1

(* Whatever was bought under an authorization was marked consumed before,   *)
(* and the file says so unless another process's consume() has written over *)
(* the mark.                                                                 *)
ConsumedBeforeTransport ==
    \A r \in Requests, k \in Keys : created[r][k] > 0 => r \in consumed \cup overwritten

(* Whatever was bought under an authorization, the consumption file says so. *)
ConsumptionShown ==
    \A r \in Requests, k \in Keys : created[r][k] > 0 => r \in consumed

(* Run and daily ceilings are exceeded at most by the overcharge of the one *)
(* task that was under way when its estimate still fitted.                  *)
CeilingsHold ==
    /\ \A entry \in ledger.runs : entry.cost <= MaxRun + Overcharge
    /\ \A d \in Days : ledger.spent[d] <= MaxDay + Overcharge

(* The execution ledger has one run per plan and keeps it as it was written. *)
LedgerImmutable ==
    [][ /\ ledger.runs \subseteq ledger'.runs
        /\ \A a, b \in ledger'.runs : a.plan = b.plan => a = b ]_ledger

(* A request key in the task ledger is never bought again, under whatever   *)
(* authorization, although the key is checked before the POST and recorded  *)
(* after its answer.                                                        *)
RecordedNotBoughtAgain ==
    [][ \A r \in Requests, k \in taskLedger : created'[r][k] = created[r][k] ]_created

(* The ledger charges a plan with what the provider's answers charged, but  *)
(* for at most one task: the last, recorded as failed after its answer had  *)
(* come, also if processes race and whatever fails.  A run that got into    *)
(* no ledger leaves the plan's charges open.                                 *)
Accounted(rows, cost, charged) ==
    \/ charged = cost
    \/ /\ Len(rows) > 0 /\ rows[Len(rows)] = "FAILED"
       /\ \E c \in Costs : charged = cost + c
ChargeKept ==
    \A entry \in ledger.runs :
        entry.plan \notin interrupted => Accounted(entry.rows, entry.cost, told[entry.plan])

(* The ledger charges a plan with all the provider's answers charged.       *)
EveryChargeKept == \A entry \in ledger.runs : entry.cost = told[entry.plan]

(* Recovery calls a paid action safe to authorize again only when the       *)
(* provider has no task for it.                                             *)
SafeMeansUnpaid ==
    \A entry \in ledger.runs :
        entry.plan \in WithIntent /\ Assess(entry) = "SAFE_NO_PROVIDER_TASK"
            => created[entry.plan][KeyOf[entry.plan][1]] = 0

(***************************************************************************)
(* Why these hold.  In every behaviour: whoever is in the lock is alone in *)
(* it, so what it has read of the ledger stays true until it appends.      *)
(***************************************************************************)
AloneInLock == \A p \in Processes : pc[p] \in InLock => writers = {p}
PlanIsPrepared == \A p \in Processes : pc[p] # "idle" => req[p] \in prepared
FreshRun == \A p \in Processes : pc[p] \notin Running => run[p] = NoRun
TaskLeft ==
    \A p \in Processes :
        pc[p] \in {"next"} \cup Transport => Len(run[p].rows) < Len(Plan(p))
ReadIsCurrent ==
    \A p \in Processes :
        /\ pc[p] = "write" => base[p] = ledger
        /\ pc[p] \in Running => /\ ~Ran(req[p], ledger)
                                /\ ledger.spent[run[p].day] = snapshot[req[p]]
WithinBudget ==
    \A p \in Processes :
        /\ pc[p] \in Running => /\ run[p].spent <= MaxRun + Overcharge
                                /\ snapshot[req[p]] + run[p].spent <= MaxDay + Overcharge
        /\ pc[p] \in Transport => BudgetAllows(p)
        /\ pc[p] \in {"answer", "record"} => run[p].cost \in Costs
OneRunPerPlan == \A a, b \in ledger.runs : a.plan = b.plan => a = b

IInv == /\ TypeOK /\ AloneInLock /\ PlanIsPrepared /\ FreshRun /\ TaskLeft
        /\ ReadIsCurrent /\ WithinBudget /\ CeilingsHold /\ OneRunPerPlan

(* The tasks of its plan that a run has not posted yet are not bought ...   *)
Posted(p) == IF pc[p] \in {"answer", "record"} THEN Len(run[p].rows) + 1 ELSE Len(run[p].rows)
Unbought(p) ==
    \A i \in 1 .. Len(Plan(p)) : i > Posted(p) => created[req[p]][Plan(p)[i]] = 0

(* ... if consumption is serial, because an authorization that was marked   *)
(* belongs to one process for good,                                         *)
Owning == {"acquire"} \cup InLock
OneMarking == \A p, q \in Processes : pc[p] = "mark" /\ pc[q] = "mark" => p = q
MarkingFresh == \A p \in Processes : pc[p] = "mark" => seen[p] = consumed /\ req[p] \notin consumed
OwnersConsumed == \A p \in Processes : pc[p] \in Owning => req[p] \in consumed
OneOwner ==
    \A p, q \in Processes :
        pc[p] \in Owning /\ pc[q] \in Owning /\ req[p] = req[q] => p = q
NothingAhead == \A p \in Processes : pc[p] \in Owning => Unbought(p)
SerialInv == /\ OneMarking /\ MarkingFresh /\ OwnersConsumed /\ OneOwner
             /\ NothingAhead /\ ConsumptionShown /\ PaidOnce

(* What is about to be posted is not in the task ledger. *)
KeyIsNew == \A p \in Processes : pc[p] \in Transport => Task(p) \notin taskLedger

(* ... and if nothing fails, because whatever was bought is in the ledger   *)
(* or is being bought by the process in the lock.                           *)
BoughtIsKnown ==
    \A r \in Requests, k \in Keys :
        created[r][k] > 0 => \/ Ran(r, ledger)
                             \/ \E p \in Processes : pc[p] \in Running /\ req[p] = r
RunsUnbought == \A p \in Processes : pc[p] \in Running => Unbought(p)
RacingInv == BoughtIsKnown /\ RunsUnbought /\ PaidOnce

(* Every charge the provider told is in the run that bought the task, or    *)
(* about to be added to it, or lost with the task that ended the run.       *)
Untold(p) == IF pc[p] = "record" THEN run[p].cost ELSE 0
ToldInRun ==
    \A p \in Processes : pc[p] \in Running /\ req[p] \notin interrupted =>
        IF pc[p] \in {"append", "write"}
        THEN Accounted(run[p].rows, run[p].spent, told[req[p]])
        ELSE told[req[p]] = run[p].spent + Untold(p)
ToldIsKnown ==
    \A r \in Requests :
        told[r] # 0 => \/ Ran(r, ledger) \/ r \in interrupted
                       \/ \E p \in Processes : pc[p] \in Running /\ req[p] = r
ToldInv == ToldInRun /\ ToldIsKnown /\ ChargeKept

(* A mark once written is in the file or written over.                      *)
OwnersMarked == \A p \in Processes : pc[p] \in Owning => req[p] \in consumed \cup overwritten
MarkedInv == OwnersMarked /\ ConsumedBeforeTransport

(* A first task that failed before its request ended its run unbought.      *)
FirstKey(r) == KeyOf[r][1]
StoppedFirst(rows) == Len(rows) > 0 /\ (rows[1] = "PRE_REQUEST")
GoingOn == \A p \in Processes : pc[p] \in {"next"} \cup Transport => ~StoppedFirst(run[p].rows)
EndedRun ==
    \A p \in Processes :
        pc[p] \in {"append", "write"} =>
            /\ Len(run[p].rows) > 0
            /\ StoppedFirst(run[p].rows) => created[req[p]][FirstKey(req[p])] = 0
LedgerRun ==
    \A entry \in ledger.runs :
        /\ Len(entry.rows) > 0
        /\ StoppedFirst(entry.rows) => created[entry.plan][FirstKey(entry.plan)] = 0
StoppedInv == GoingOn /\ EndedRun /\ LedgerRun
=============================================================================
