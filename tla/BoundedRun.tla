----------------------------- MODULE BoundedRun -----------------------------
(***************************************************************************)
(* One bounded plan of Google Products discovery: the parent authorization *)
(* that starts its only run, the member checkpoints in SQLite, the child   *)
(* authority, ledgers and results a member leaves behind, and the          *)
(* processes that START, RESUME, supervise and dispose.                    *)
(*                                                                         *)
(* A process is an invocation of an operator command.  Between two of its  *)
(* durable reads and writes any other process may take steps, and what it  *)
(* has read is kept in view and row.  consume() is one step here: what two *)
(* calls of it at once may do is the subject of PaidAcquisition.           *)
(***************************************************************************)
EXTENDS Naturals, FiniteSets

CONSTANTS
    Processes,
    Members,            \* the ready members of the plan, ordered by member_key
    Authorizations,     \* parent authorizations of the plan
    NoAuthorization,
    NoMember,
    Overlap,            \* may RESUME be given while another START or RESUME runs?
    Faults,             \* may processes die and writes of a ledger fail?
    Supervision         \* does the supervision of existing tasks run?

ASSUME MemberAssumption == Members \subseteq Nat /\ NoMember \notin Members
ASSUME AuthorizationAssumption == NoAuthorization \notin Authorizations
ASSUME SwitchAssumption == Overlap \in BOOLEAN /\ Faults \in BOOLEAN /\ Supervision \in BOOLEAN

VARIABLES
    parents,     \* bounded_authorizations of the plan
    run,         \* bounded_runs: the plan's run
    members,     \* bounded_run_members
    artifacts,   \* H032 artifacts, by bounded member
    children,    \* bounded_child_authorities
    disposed,    \* bounded_child_dispositions
    consumed,    \* the child authorizations consumed
    tasks,       \* dataforseo-task-ledger.json
    executions,  \* execution-ledger.json, by the plan of the child
    results,     \* canonical provider results
    writers,     \* the holder of mercury-acquisition.lock
    pc, job, at, todo, view, row,   \* where an invocation is and what it has read
    posted,      \* history: the provider tasks created for a member
    stranded,    \* history: members RESUME has refused although their task is recorded
    contested    \* history: members disposed of while a process that consumed their child
                 \* had still to buy

authority == <<parents, artifacts, children, consumed>>
acquired == <<tasks, executions, results, posted>>
reading == <<todo, view, row>>
history == <<stranded, contested>>
vars == <<authority, run, members, disposed, acquired, writers, pc, job, at, reading, history>>

Unfinished == {"READY", "AUTHORIZED", "EXECUTED", "WAITING_FOR_PROVIDER"}
Terminal == {"COMPLETED", "EXCEPTION"}
Unpaid == {"READY", "AUTHORIZED"}

\* child: authorizationId is set; task: paidTaskCreated and providerTaskId are
Row == [state : Unfinished \cup Terminal, child : BOOLEAN, task : BOOLEAN]
ReadyRow == [state |-> "READY", child |-> FALSE, task |-> FALSE]
Authorized == [state |-> "AUTHORIZED", child |-> TRUE, task |-> FALSE]
Executed == [state |-> "EXECUTED", child |-> TRUE, task |-> TRUE]

RunStates == {"NONE", "RUNNING", "WAITING_FOR_PROVIDER", "COMPLETED",
              "COMPLETED_WITH_EXCEPTIONS", "FAILED"}
Job == {"none", "start", "recover", "revive", "resume", "progress", "dispose"}

InLock == {"check", "post", "answer", "append"}
Owning == {"lock"} \cup InLock       \* has consumed the child, may still buy
Buying == {"consume", "resolve"} \cup Owning
PC == {"idle", "begin", "next", "artifact", "child", "mark", "task", "executed",
       "retrieve", "record", "finalize", "save", "assess"} \cup Buying

TypeOK ==
    /\ parents \in [Authorizations -> {"none", "live", "expired"}]
    /\ run \in [auth : Authorizations \cup {NoAuthorization}, state : RunStates]
    /\ members \in [Members -> Row]
    /\ artifacts \subseteq Members /\ children \subseteq Members
    /\ disposed \subseteq Members /\ consumed \subseteq Members
    /\ tasks \subseteq Members /\ results \subseteq Members
    /\ executions \in [Members -> {"none", "COMPLETED", "FAILED"}]
    /\ writers \subseteq Processes
    /\ pc \in [Processes -> PC]
    /\ job \in [Processes -> Job]
    /\ at \in [Processes -> Members \cup {NoMember}]
    /\ todo \in [Processes -> SUBSET Members]
    /\ view \in [Processes -> [Members -> Row]]
    /\ row \in [Processes -> Row]
    /\ posted \in [Members -> Nat]
    /\ stranded \subseteq Members /\ contested \subseteq Members

Lock == INSTANCE SingleWriter WITH Runs <- Processes

NothingRead == [m \in Members |-> ReadyRow]

Init ==
    /\ parents = [a \in Authorizations |-> "none"]
    /\ run = [auth |-> NoAuthorization, state |-> "NONE"]
    /\ members = NothingRead
    /\ artifacts = {} /\ children = {} /\ disposed = {} /\ consumed = {}
    /\ tasks = {} /\ results = {}
    /\ executions = [m \in Members |-> "none"]
    /\ Lock!Init
    /\ pc = [p \in Processes |-> "idle"]
    /\ job = [p \in Processes |-> "none"]
    /\ at = [p \in Processes |-> NoMember]
    /\ todo = [p \in Processes |-> {}]
    /\ view = [p \in Processes |-> NothingRead]
    /\ row = [p \in Processes |-> ReadyRow]
    /\ posted = [m \in Members |-> 0]
    /\ stranded = {} /\ contested = {}

GoTo(p, to) == pc' = [pc EXCEPT ![p] = to]

(* The invocation is over, by its result or by an exception. *)
End(p) ==
    /\ GoTo(p, "idle")
    /\ job' = [job EXCEPT ![p] = "none"]
    /\ at' = [at EXCEPT ![p] = NoMember]
    /\ todo' = [todo EXCEPT ![p] = {}]
    /\ view' = [view EXCEPT ![p] = NothingRead]
    /\ row' = [row EXCEPT ![p] = ReadyRow]

Live == parents[run.auth] = "live"
First(ms) == CHOOSE m \in ms : \A other \in ms : m <= other
Recorded(m) == executions[m] = "COMPLETED" /\ m \in tasks    \* what resolveTask finds

(* ---- failures ---------------------------------------------------------- *)

(* A member-local failure: the member's row is an exception, and the loop   *)
(* goes on; RESUME's recovery has no catch, the exception ends it.           *)
FailMember(p) ==
    IF job[p] = "recover"
    THEN End(p)
    ELSE /\ row' = [row EXCEPT ![p].state = "EXCEPTION"]
         /\ GoTo(p, "save")
         /\ UNCHANGED <<job, at, todo, view>>

(* A systemic failure: the run is FAILED, and the loop stops. *)
FailRun(p) ==
    /\ run' = IF job[p] = "recover" THEN run ELSE [run EXCEPT !.state = "FAILED"]
    /\ End(p)

(* ---- the parent authorization ------------------------------------------ *)

(* One authorization at a time is neither used up by time nor replaced. *)
AuthorizeParent(a) ==
    /\ parents[a] = "none"
    /\ \A other \in Authorizations : parents[other] # "live"
    /\ parents' = [parents EXCEPT ![a] = "live"]
    /\ UNCHANGED <<run, members, artifacts, children, consumed, disposed, acquired, writers,
                   pc, job, at, reading, history>>

Expire(a) ==
    /\ parents[a] = "live"
    /\ parents' = [parents EXCEPT ![a] = "expired"]
    /\ UNCHANGED <<run, members, artifacts, children, consumed, disposed, acquired, writers,
                   pc, job, at, reading, history>>

(* START revalidates every member and records the plan's run; if the run    *)
(* exists it only inspects (same authorization) or is refused (another).    *)
Start(p, a) ==
    /\ pc[p] = "idle"
    /\ parents[a] = "live"
    /\ run.state = "NONE"
    /\ run' = [auth |-> a, state |-> "RUNNING"]
    /\ members' = NothingRead
    /\ GoTo(p, "begin")
    /\ job' = [job EXCEPT ![p] = "start"]
    /\ UNCHANGED <<authority, disposed, acquired, writers, at, reading, history>>

(* ---- RESUME: recovery before the loop ---------------------------------- *)

(* Nothing but Overlap keeps two of these commands apart. *)
PaidCommand == {"start", "recover", "revive", "resume"}

(* Mutated: a member that has its child already is not recovered. *)
ResumeReady(p) ==
    /\ pc[p] = "idle"
    /\ run.state # "NONE"
    /\ Overlap \/ \A q \in Processes : job[q] \notin PaidCommand
    /\ job' = [job EXCEPT ![p] = "recover"]
    /\ view' = [view EXCEPT ![p] = members]
    /\ todo' = [todo EXCEPT ![p] = {m \in Members : members[m].state = "READY"}]
    /\ GoTo(p, "next")
    /\ UNCHANGED <<authority, run, members, disposed, acquired, writers, at, row, history>>

Resume(p) ==
    /\ pc[p] = "idle"
    /\ run.state # "NONE"
    /\ Overlap \/ \A q \in Processes : job[q] \notin PaidCommand
    /\ job' = [job EXCEPT ![p] = "recover"]
    /\ view' = [view EXCEPT ![p] = members]
    /\ todo' = [todo EXCEPT ![p] = {m \in Members : members[m].state \in Unpaid}]
    /\ GoTo(p, "next")
    /\ UNCHANGED <<authority, run, members, disposed, acquired, writers, at, row, history>>

(* recoverPreExecutionMember: without an artifact there is nothing to recover. *)
RecoverNothing(p) ==
    /\ pc[p] = "next" /\ job[p] = "recover" /\ todo[p] # {}
    /\ First(todo[p]) \notin artifacts
    /\ todo' = [todo EXCEPT ![p] = @ \ {First(todo[p])}]
    /\ UNCHANGED <<authority, run, members, disposed, acquired, writers, pc, job, at, view, row,
                   history>>

(* The child reference of a READY member is recorded from its artifact. *)
RecoverChild(p) ==
    LET m == First(todo[p])
    IN /\ pc[p] = "next" /\ job[p] = "recover" /\ todo[p] # {}
       /\ m \in artifacts
       /\ children' = IF view[p][m].state = "READY" THEN children \cup {m} ELSE children
       /\ at' = [at EXCEPT ![p] = m]
       /\ row' = [row EXCEPT ![p] = Authorized]
       /\ GoTo(p, "task")
       /\ UNCHANGED <<parents, artifacts, consumed, run, members, disposed, acquired, writers, job,
                      todo, view, history>>

(* Every member has been looked at; a member that would still have to be    *)
(* paid for ends the command, the exceptions are next.                       *)
Reread(p) ==
    /\ pc[p] = "next" /\ job[p] = "recover" /\ todo[p] = {}
    /\ IF \E m \in Members : members[m].state \in Unpaid
       THEN End(p)                           \* BOUNDED_RESUME_NEW_PAID_TASK_FORBIDDEN
       ELSE /\ job' = [job EXCEPT ![p] = "revive"]
            /\ view' = [view EXCEPT ![p] = members]
            /\ todo' = [todo EXCEPT ![p] = {m \in Members : members[m].state = "EXCEPTION"}]
            /\ UNCHANGED <<pc, at, row>>
    /\ UNCHANGED <<authority, run, members, disposed, acquired, writers, history>>

(* recoverMember: a disposed or taskless exception stays what it is.        *)
ReviveNothing(p) ==
    /\ pc[p] = "next" /\ job[p] = "revive" /\ todo[p] # {}
    /\ First(todo[p]) \in disposed \/ ~Recorded(First(todo[p]))
    /\ todo' = [todo EXCEPT ![p] = @ \ {First(todo[p])}]
    /\ UNCHANGED <<authority, run, members, disposed, acquired, writers, pc, job, at, view, row,
                   history>>

Revive(p) ==
    /\ pc[p] = "next" /\ job[p] = "revive" /\ todo[p] # {}
    /\ First(todo[p]) \notin disposed /\ Recorded(First(todo[p]))
    /\ at' = [at EXCEPT ![p] = First(todo[p])]
    /\ row' = [row EXCEPT ![p] = [view[p][First(todo[p])] EXCEPT !.state = "EXECUTED", !.task = TRUE]]
    /\ GoTo(p, "executed")
    /\ UNCHANGED <<authority, run, members, disposed, acquired, writers, job, todo, view, history>>

Revived(p) ==
    /\ pc[p] = "next" /\ job[p] = "revive" /\ todo[p] = {}
    /\ job' = [job EXCEPT ![p] = "resume"]
    /\ GoTo(p, "begin")
    /\ UNCHANGED <<authority, run, members, disposed, acquired, writers, at, reading, history>>

(* ---- existing tasks: progression and supervision ------------------------ *)

Active == {m \in Members : members[m].state \notin Terminal}

(* Mutated: members that wait for no task are advanced too. *)
ProgressUnguarded(p) ==
    /\ pc[p] = "idle"
    /\ run.state \in {"RUNNING", "WAITING_FOR_PROVIDER"}
    /\ GoTo(p, "begin")
    /\ job' = [job EXCEPT ![p] = "progress"]
    /\ UNCHANGED <<authority, run, members, disposed, acquired, writers, at, reading, history>>

(* progressExistingTasks: a member that is not waiting for a recorded task  *)
(* stops the run.                                                           *)
Progress(p) ==
    /\ pc[p] = "idle"
    /\ run.state \in {"RUNNING", "WAITING_FOR_PROVIDER"}
    /\ IF \A m \in Active : members[m].state = "WAITING_FOR_PROVIDER" /\ members[m].task
       THEN /\ GoTo(p, "begin")
            /\ job' = [job EXCEPT ![p] = "progress"]
            /\ UNCHANGED run
       ELSE /\ run' = [run EXCEPT !.state = "FAILED"]
            /\ UNCHANGED <<pc, job>>
    /\ UNCHANGED <<authority, members, disposed, acquired, writers, at, reading, history>>

(* progressExistingMember, called for a supervised task. *)
Check(p, m) ==
    /\ Supervision
    /\ pc[p] = "idle"
    /\ run.state # "NONE"
    /\ members[m].state = "WAITING_FOR_PROVIDER" /\ members[m].task
    /\ GoTo(p, "begin")
    /\ job' = [job EXCEPT ![p] = "progress"]
    /\ at' = [at EXCEPT ![p] = m]
    /\ UNCHANGED <<authority, run, members, disposed, acquired, writers, reading, history>>

(* ---- _advance ------------------------------------------------------------ *)

(* The rows are read once; the loop works on that copy. *)
Begin(p) ==
    LET scope == IF at[p] = NoMember THEN Members ELSE {at[p]}
    IN /\ pc[p] = "begin"
       /\ view' = [view EXCEPT ![p] = members]
       /\ todo' = [todo EXCEPT ![p] = scope \cap Active]
       /\ GoTo(p, "next")
       /\ UNCHANGED <<authority, run, members, disposed, acquired, writers, job, at, row, history>>

Looping(p) == pc[p] = "next" /\ job[p] \in {"start", "resume", "progress"}

(* Mutated: a READY member is executed before its child authority is kept. *)
NextMemberEager(p) ==
    LET m == First(todo[p])
    IN /\ Looping(p) /\ todo[p] # {}
       /\ at' = [at EXCEPT ![p] = m]
       /\ row' = [row EXCEPT ![p] = view[p][m]]
       /\ GoTo(p, IF view[p][m].state \in Unpaid THEN "consume" ELSE "retrieve")
       /\ UNCHANGED <<authority, run, members, disposed, acquired, writers, job, todo, view, history>>

(* advanceMember begins where the row it was given says. *)
NextMember(p) ==
    LET m == First(todo[p])
    IN /\ Looping(p) /\ todo[p] # {}
       /\ at' = [at EXCEPT ![p] = m]
       /\ row' = [row EXCEPT ![p] = view[p][m]]
       /\ GoTo(p, CASE view[p][m].state = "READY" -> "artifact"
                    [] view[p][m].state = "AUTHORIZED" -> "task"
                    [] OTHER -> "retrieve")
       /\ UNCHANGED <<authority, run, members, disposed, acquired, writers, job, todo, view, history>>

(* The run's state is computed from the rows as they are now ... *)
Verdict ==
    CASE \E m \in Members : members[m].state = "WAITING_FOR_PROVIDER" -> "WAITING_FOR_PROVIDER"
      [] \E m \in Members : members[m].state = "EXCEPTION"
         /\ \A other \in Members : members[other].state # "WAITING_FOR_PROVIDER"
            -> "COMPLETED_WITH_EXCEPTIONS"
      [] OTHER -> "COMPLETED"

(* ... and written, whatever the run's state is. *)
Conclude(p) ==
    /\ Looping(p) /\ todo[p] = {}
    /\ run' = [run EXCEPT !.state = Verdict]
    /\ End(p)
    /\ UNCHANGED <<authority, members, disposed, acquired, writers, history>>

(* ---- the child authority -------------------------------------------------- *)

RecordArtifact(p) ==
    /\ pc[p] = "artifact"
    /\ artifacts' = artifacts \cup {at[p]}
    /\ GoTo(p, "child")
    /\ UNCHANGED <<parents, children, consumed, run, members, disposed, acquired, writers, job, at,
                   reading, history>>

RecordChild(p) ==
    /\ pc[p] = "child"
    /\ children' = children \cup {at[p]}
    /\ GoTo(p, "mark")
    /\ UNCHANGED <<parents, artifacts, consumed, run, members, disposed, acquired, writers, job, at,
                   reading, history>>

MarkAuthorized(p) ==
    /\ pc[p] = "mark"
    /\ members' = [members EXCEPT ![at[p]] = Authorized]
    /\ row' = [row EXCEPT ![p] = Authorized]
    /\ GoTo(p, "task")
    /\ UNCHANGED <<authority, run, disposed, acquired, writers, job, at, todo, view, history>>

(* #resolveDurableAuthority finds the child's authority in order, and       *)
(* resolveTask a task that is recorded already; otherwise one is bought.     *)
ResolveTask(p) ==
    /\ pc[p] = "task"
    /\ Live /\ at[p] \in children /\ at[p] \in artifacts
    /\ IF Recorded(at[p])
       THEN row' = [row EXCEPT ![p] = Executed] /\ GoTo(p, "executed")
       ELSE UNCHANGED row /\ GoTo(p, "consume")
    /\ UNCHANGED <<authority, run, members, disposed, acquired, writers, job, at, todo, view, history>>

(* The child has expired: PRODUCTS_DISCOVERY_CHILD_AUTHORITY_BINDING_INVALID. *)
AuthorityExpired(p) ==
    /\ pc[p] = "task"
    /\ ~Live
    /\ stranded' = IF job[p] = "recover" /\ Recorded(at[p]) THEN stranded \cup {at[p]} ELSE stranded
    /\ FailRun(p)
    /\ UNCHANGED <<authority, members, disposed, acquired, writers, contested>>

(* ---- execution ------------------------------------------------------------ *)

(* Mutated: the child's consumption is not recorded. *)
ConsumeUnmarked(p) ==
    /\ pc[p] = "consume"
    /\ Live /\ at[p] \notin consumed
    /\ GoTo(p, "lock")
    /\ UNCHANGED <<authority, run, members, disposed, acquired, writers, job, at, reading, history>>

Consume(p) ==
    /\ pc[p] = "consume"
    /\ Live /\ at[p] \notin consumed
    /\ consumed' = consumed \cup {at[p]}
    /\ GoTo(p, "lock")
    /\ UNCHANGED <<parents, artifacts, children, run, members, disposed, acquired, writers, job, at,
                   reading, history>>

(* LIVE_AUTHORIZATION_ALREADY_CONSUMED is taken for an execution that was   *)
(* made: its task is looked for.                                            *)
AlreadyConsumed(p) ==
    /\ pc[p] = "consume"
    /\ Live /\ at[p] \in consumed
    /\ GoTo(p, "resolve")
    /\ UNCHANGED <<authority, run, members, disposed, acquired, writers, job, at, reading, history>>

(* The gate is closed, or the lock is taken: no execution. *)
NotExecuted(p) ==
    /\ \/ pc[p] = "consume" /\ ~Live
       \/ pc[p] = "lock" /\ writers # {}
    /\ FailMember(p)
    /\ UNCHANGED <<authority, run, members, disposed, acquired, writers, history>>

Acquire(p) ==
    /\ pc[p] = "lock"
    /\ Lock!Enter(p)
    /\ GoTo(p, "check")
    /\ UNCHANGED <<authority, run, members, disposed, acquired, job, at, reading, history>>

Release(p) == writers' = writers \ {p}

(* A duplicate of the plan's run, a day's spend that is neither the         *)
(* snapshot's nor explained by earlier members (member-local), ...           *)
RefusedHere(p) ==
    /\ pc[p] = "check"
    /\ Release(p)
    /\ FailMember(p)
    /\ UNCHANGED <<authority, run, members, disposed, acquired, history>>

(* ... or a budget that is exceeded (systemic). *)
RefusedBudget(p) ==
    /\ pc[p] = "check"
    /\ Release(p)
    /\ FailRun(p)
    /\ UNCHANGED <<authority, members, disposed, acquired, history>>

MayBuy(p) ==
    /\ pc[p] = "check"
    /\ executions[at[p]] = "none"
    /\ GoTo(p, "post")
    /\ UNCHANGED <<authority, run, members, disposed, acquired, writers, job, at, reading, history>>

Post(p) ==
    /\ pc[p] = "post"
    /\ posted' = [posted EXCEPT ![at[p]] = @ + 1]
    /\ GoTo(p, "answer")
    /\ UNCHANGED <<authority, run, members, disposed, tasks, executions, results, writers, job, at,
                   reading, history>>

(* The task is in the task ledger, and the execution will be appended. *)
Answered(p) ==
    /\ pc[p] = "answer"
    /\ tasks' = tasks \cup {at[p]}
    /\ GoTo(p, "append")
    /\ UNCHANGED <<authority, run, members, disposed, executions, results, posted, writers, job, at,
                   reading, history>>

(* The provider was not reached, or its answer or the record of it is lost. *)
Unanswered(p) ==
    /\ pc[p] \in {"post", "answer"}
    /\ executions' = [executions EXCEPT ![at[p]] = "FAILED"]
    /\ Release(p)
    /\ FailMember(p)
    /\ UNCHANGED <<authority, run, members, disposed, tasks, results, posted, history>>

AppendExecution(p) ==
    /\ pc[p] = "append"
    /\ executions' = [executions EXCEPT ![at[p]] = "COMPLETED"]
    /\ Release(p)
    /\ GoTo(p, "resolve")
    /\ UNCHANGED <<authority, run, members, disposed, tasks, results, posted, job, at, reading,
                   history>>

AppendFails(p) ==
    /\ Faults
    /\ pc[p] = "append"
    /\ Release(p)
    /\ FailMember(p)
    /\ UNCHANGED <<authority, run, members, disposed, acquired, history>>

(* Mutated: an execution that reports success is believed. *)
ResolveExecutedTrusting(p) ==
    /\ pc[p] = "resolve"
    /\ row' = [row EXCEPT ![p] = Executed]
    /\ GoTo(p, "executed")
    /\ UNCHANGED <<authority, run, members, disposed, acquired, writers, job, at, todo, view, history>>

ResolveExecuted(p) ==
    /\ pc[p] = "resolve"
    /\ Recorded(at[p])
    /\ row' = [row EXCEPT ![p] = Executed]
    /\ GoTo(p, "executed")
    /\ UNCHANGED <<authority, run, members, disposed, acquired, writers, job, at, todo, view, history>>

(* PRODUCTS_DISCOVERY_TASK_PERSISTENCE_INVALID. *)
TaskMissing(p) ==
    /\ pc[p] = "resolve"
    /\ ~Recorded(at[p])
    /\ FailRun(p)
    /\ UNCHANGED <<authority, members, disposed, acquired, writers, history>>

(* The EXECUTED checkpoint; recovery turns to the next member, the loop     *)
(* goes on to the result.                                                   *)
SaveExecuted(p) ==
    /\ pc[p] = "executed"
    /\ members' = [members EXCEPT ![at[p]] = row[p]]
    /\ IF job[p] \in {"recover", "revive"}
       THEN /\ todo' = [todo EXCEPT ![p] = @ \ {at[p]}]
            /\ at' = [at EXCEPT ![p] = NoMember]
            /\ GoTo(p, "next")
       ELSE GoTo(p, "retrieve") /\ UNCHANGED <<todo, at>>
    /\ UNCHANGED <<authority, run, disposed, acquired, writers, job, view, row, history>>

(* ---- the result ----------------------------------------------------------- *)

(* A canonical result is used again, without asking the provider. *)
ResultKnown(p) ==
    /\ pc[p] = "retrieve"
    /\ at[p] \in results
    /\ GoTo(p, "finalize")
    /\ UNCHANGED <<authority, run, members, disposed, acquired, writers, job, at, reading, history>>

Retrieve(p) ==
    /\ pc[p] = "retrieve"
    /\ at[p] \notin results
    /\ \E answer \in {"WAITING_FOR_PROVIDER", "AVAILABLE", "EXCEPTION"} :
          IF answer = "AVAILABLE"
          THEN GoTo(p, "record") /\ UNCHANGED row
          ELSE GoTo(p, "save") /\ row' = [row EXCEPT ![p].state = answer]
    /\ UNCHANGED <<authority, run, members, disposed, acquired, writers, job, at, todo, view, history>>

RecordResult(p) ==
    /\ pc[p] = "record"
    /\ results' = results \cup {at[p]}
    /\ GoTo(p, "finalize")
    /\ UNCHANGED <<authority, run, members, disposed, tasks, executions, posted, writers, job, at,
                   reading, history>>

(* Changed rights, a conflicting result or a repository that fails. *)
ResultRefused(p) ==
    /\ pc[p] \in {"record", "finalize"}
    /\ FailRun(p)
    /\ UNCHANGED <<authority, members, disposed, acquired, writers, history>>

(* Finalization reads the member's row again and compares it with the task. *)
Finalize(p) ==
    /\ pc[p] = "finalize"
    /\ row' = [row EXCEPT ![p].state = IF members[at[p]].task THEN "COMPLETED" ELSE "EXCEPTION"]
    /\ GoTo(p, "save")
    /\ UNCHANGED <<authority, run, members, disposed, acquired, writers, job, at, todo, view, history>>

(* updateMember replaces the row, whatever it has become meanwhile. *)
SaveMember(p) ==
    /\ pc[p] = "save"
    /\ members' = [members EXCEPT ![at[p]] = row[p]]
    /\ todo' = [todo EXCEPT ![p] = @ \ {at[p]}]
    /\ at' = [at EXCEPT ![p] = NoMember]
    /\ row' = [row EXCEPT ![p] = ReadyRow]
    /\ GoTo(p, "next")
    /\ UNCHANGED <<authority, run, disposed, acquired, writers, job, view, history>>

(* ---- the disposition of an expired child ---------------------------------- *)

Dispose(p, m) ==
    /\ pc[p] = "idle"
    /\ run.state # "NONE"
    /\ Lock!Enter(p)
    /\ job' = [job EXCEPT ![p] = "dispose"]
    /\ at' = [at EXCEPT ![p] = m]
    /\ GoTo(p, "assess")
    /\ UNCHANGED <<authority, run, members, disposed, acquired, reading, history>>

(* Mutated: the task ledger and the execution ledger are not read. *)
DisposableUnread(m) ==
    /\ members[m].state = "EXCEPTION" /\ ~members[m].task
    /\ m \in children /\ members[m].child /\ ~Live
    /\ m \in consumed

Disposable(m) ==
    /\ members[m].state = "EXCEPTION" /\ ~members[m].task
    /\ m \in children /\ members[m].child /\ ~Live
    /\ m \in consumed
    /\ m \notin tasks /\ m \notin results
    /\ executions[m] # "COMPLETED"

Contested(m) == \E q \in Processes : pc[q] \in Owning /\ at[q] = m

Assess(p) ==
    /\ pc[p] = "assess"
    /\ disposed' = IF Disposable(at[p]) THEN disposed \cup {at[p]} ELSE disposed
    /\ contested' = IF Disposable(at[p]) /\ Contested(at[p])
                    THEN contested \cup {at[p]} ELSE contested
    /\ Release(p)
    /\ End(p)
    /\ UNCHANGED <<authority, run, members, acquired, stranded>>

(* ---------------------------------------------------------------------------- *)

(* The process dies; whoever finds its lock stale removes it. *)
Crash(p) ==
    /\ Faults
    /\ pc[p] # "idle"
    /\ Release(p)
    /\ End(p)
    /\ UNCHANGED <<authority, run, members, disposed, acquired, history>>

Command(p) ==
    \/ \E a \in Authorizations : Start(p, a)
    \/ Resume(p) \/ Progress(p)
    \/ \E m \in Members : Check(p, m) \/ Dispose(p, m)
    \/ Assess(p)
Recover(p) ==
    \/ RecoverNothing(p) \/ RecoverChild(p) \/ Reread(p)
    \/ ReviveNothing(p) \/ Revive(p) \/ Revived(p)
Advance(p) ==
    \/ Begin(p) \/ NextMember(p) \/ Conclude(p)
    \/ RecordArtifact(p) \/ RecordChild(p) \/ MarkAuthorized(p)
    \/ ResolveTask(p) \/ AuthorityExpired(p) \/ SaveExecuted(p)
    \/ ResultKnown(p) \/ Retrieve(p) \/ RecordResult(p) \/ ResultRefused(p)
    \/ Finalize(p) \/ SaveMember(p)
Execute(p) ==
    \/ Consume(p) \/ AlreadyConsumed(p) \/ NotExecuted(p) \/ Acquire(p)
    \/ RefusedHere(p) \/ RefusedBudget(p) \/ MayBuy(p)
    \/ Post(p) \/ Answered(p) \/ Unanswered(p) \/ AppendExecution(p) \/ AppendFails(p)
    \/ ResolveExecuted(p) \/ TaskMissing(p)

Next ==
    \/ \E a \in Authorizations : AuthorizeParent(a) \/ Expire(a)
    \/ \E p \in Processes : Command(p) \/ Recover(p) \/ Advance(p) \/ Execute(p) \/ Crash(p)

Spec == Init /\ [][Next]_vars

(* An invocation goes on unless it dies, and an operator whose RESUME does  *)
(* not run, or ends, gives it again.                                        *)
Goes(p) == Assess(p) \/ Recover(p) \/ Advance(p) \/ Execute(p)
RetrySpec ==
    /\ Spec /\ SF_vars(\E p \in Processes : Resume(p))
    /\ \A p \in Processes : WF_vars(Goes(p))

(* At most one provider task is created per member, whichever commands run, *)
(* resume or die, in whatever order.                                         *)
OneTaskPerMember == \A m \in Members : posted[m] <= 1

(* A checkpoint that says a task exists is backed by both ledgers, also     *)
(* after one process has overwritten another's checkpoint.                   *)
CheckpointsBacked ==
    \A m \in Members : members[m].task => Recorded(m) /\ posted[m] > 0

(* A disposed child has no task in the ledgers, and its member stays the    *)
(* exception it was, whatever commands overlap, resume or die: unless       *)
(* another process had consumed the child and was still waiting to buy when *)
(* it was disposed of.                                                      *)
Final(m) == ~Recorded(m) /\ m \notin tasks /\ members[m].state = "EXCEPTION"
DispositionFinal == \A m \in disposed \ contested : Final(m)

(* Whoever is at work, the task of a disposed child does not exist.         *)
DispositionTaskless == \A m \in disposed : Final(m)

(* While the authority lives, a recorded task whose row does not name it    *)
(* has what RESUME resolves it by: the artifact, the child, no disposition. *)
RecordedTaskFound ==
    \A m \in Members :
        Recorded(m) /\ ~members[m].task /\ Live =>
            m \in artifacts /\ m \in children /\ m \notin disposed

(* A task that is paid for and recorded, but whose process died before the  *)
(* checkpoint, comes to be named by its row, unless the authority expires:  *)
(* RESUME is given until it runs, and processes do not die for ever.        *)
PaidTaskRecovered ==
    <>[][\A p \in Processes : Crash(p) => Goes(p)]_vars =>
        \A a \in Authorizations, m \in Members :
            (run.auth = a /\ Recorded(m) /\ ~members[m].task) ~>
                (members[m].task \/ parents[a] = "expired")

(* Only START and RESUME's recovery of a child that was authorized before   *)
(* buy; progression and supervision never do.                               *)
ProgressionNeverBuys ==
    [][ \A m \in Members :
          posted'[m] # posted[m] =>
            \E p \in Processes :
                /\ at[p] = m /\ pc[p] = "post"
                /\ job[p] \in {"start", "recover"} ]_posted

(* A run that a systemic failure has stopped stays so until RESUME. *)
SystemicStopKept ==
    [][ run.state = "FAILED" /\ run'.state # "FAILED" =>
          \E p \in Processes : job[p] = "resume" ]_run

(* RESUME does not refuse a member whose task is already recorded. *)
ExpiryStrandsNothing == stranded = {}

(* ---- the inductive invariant of the proofs ------------------------------- *)

AtAMember(p) == pc[p] \notin {"idle", "begin", "next"}
AtMember == \A p \in Processes : AtAMember(p) => at[p] \in Members

(* Whoever may still buy for a member is the one that consumed its child,   *)
(* and nothing has been bought or appended for it.                           *)
BoughtConsumed ==
    \A m \in Members : posted[m] # 0 \/ executions[m] # "none" => m \in consumed
OwnerConsumed == \A p \in Processes : pc[p] \in Owning => at[p] \in consumed
OneOwner ==
    \A p, q \in Processes :
        pc[p] \in Owning /\ pc[q] \in Owning /\ at[p] = at[q] => p = q
NotYetBought == \A p \in Processes : pc[p] \in {"lock", "check", "post"} => posted[at[p]] = 0
NotYetAppended == \A p \in Processes : pc[p] \in Owning => executions[at[p]] = "none"
ConsumedReachable ==
    /\ consumed \subseteq artifacts /\ consumed \subseteq children
    /\ \A p \in Processes : pc[p] = "consume" => at[p] \in artifacts /\ at[p] \in children
AnswerBought ==
    /\ \A p \in Processes : pc[p] \in {"answer", "append"} => posted[at[p]] # 0
    /\ \A p \in Processes : pc[p] = "append" => at[p] \in tasks
    /\ \A m \in tasks : posted[m] # 0

(* A row that names a task, wherever it has been copied to, is backed. *)
Working(p) == AtAMember(p) /\ pc[p] # "assess"
RowsBacked ==
    /\ \A m \in Members : members[m].task => Recorded(m)
    /\ \A p \in Processes, m \in Members : view[p][m].task => Recorded(m)
    /\ \A p \in Processes : Working(p) /\ row[p].task => Recorded(at[p])
    /\ \A p \in Processes : pc[p] = "executed" => Recorded(at[p]) /\ row[p].task /\ row[p].state = "EXECUTED"

(* Whatever lies past the purchase names its task. *)
Bought(r) == r.state \in {"EXECUTED", "WAITING_FOR_PROVIDER", "COMPLETED"} => r.task
RowsNamed ==
    /\ \A m \in Members : Bought(members[m])
    /\ \A p \in Processes, m \in Members : Bought(view[p][m])
    /\ \A p \in Processes : pc[p] \in {"retrieve", "record", "finalize"} => row[p].task
    /\ \A p \in Processes : pc[p] = "save" => row[p].state \notin Unpaid /\ Bought(row[p])

(* A member nothing would be bought for. *)
Settled(m) ==
    /\ members[m].state # "READY"
    /\ members[m].state = "AUTHORIZED" => Recorded(m)
Sighted(p, m) ==
    /\ view[p][m].state # "READY"
    /\ view[p][m].state = "AUTHORIZED" => Recorded(m)
Untouched(m) == members[m].state = "READY" \/ Recorded(m)

OneStart ==
    /\ \A p, q \in Processes : job[p] = "start" /\ job[q] = "start" => p = q
    /\ run.state = "NONE" => \A p \in Processes : pc[p] = "idle"
JobFits ==
    \A p \in Processes :
        /\ pc[p] = "idle" => job[p] = "none" /\ at[p] = NoMember
        /\ pc[p] \notin {"idle", "assess"} => job[p] \in PaidCommand \cup {"progress"}
        /\ pc[p] \in {"task"} \cup Buying => job[p] # "revive"
        /\ pc[p] \in {"artifact", "child", "mark"} => job[p] = "start"
        /\ pc[p] \in {"begin", "retrieve", "record", "finalize", "save"} =>
              job[p] \in {"start", "resume", "progress"}
        /\ job[p] = "start" /\ pc[p] \in {"begin", "next"} => at[p] = NoMember
LoopActive ==
    \A p \in Processes : job[p] \in {"start", "resume", "progress"} /\ pc[p] # "begin" =>
        \A m \in todo[p] : view[p][m].state \notin Terminal
ScopeSettled ==
    /\ \A p \in Processes : job[p] = "revive" => \A m \in Members : Settled(m)
    /\ \A p \in Processes : job[p] \in {"resume", "progress"} /\ pc[p] = "begin" =>
          \A m \in Members : at[p] \in {m, NoMember} => Settled(m)
    /\ \A p \in Processes : job[p] \in {"resume", "progress"} /\ pc[p] # "begin" =>
          \A m \in todo[p] : Sighted(p, m)
    /\ \A p \in Processes : job[p] \in {"revive", "resume", "progress"} /\ AtAMember(p) =>
          Recorded(at[p])
StartUntouched ==
    /\ \A p \in Processes : job[p] = "start" /\ pc[p] # "begin" =>
          \A m \in todo[p] \ {at[p]} : view[p][m].state = "READY" => Untouched(m)
    /\ \A p \in Processes : pc[p] \in {"artifact", "child", "mark"} => Untouched(at[p])

IInv ==
    /\ TypeOK /\ AtMember
    /\ BoughtConsumed /\ OwnerConsumed /\ OneOwner /\ NotYetBought /\ NotYetAppended
    /\ ConsumedReachable /\ AnswerBought /\ OneTaskPerMember
    /\ RowsBacked /\ RowsNamed
    /\ OneStart /\ JobFits /\ LoopActive /\ ScopeSettled /\ StartUntouched

(* A member START may still come to buy for is unpaid by its row, or bought *)
(* and recorded already; a disposed child is neither, and whoever consumed  *)
(* it and had still to buy when it was disposed of has made it contested.   *)
Paying == {"artifact", "child", "mark", "task"} \cup Buying
Ahead(m) == members[m].state \in Unpaid \/ Recorded(m)
StartPaysAhead ==
    \A p \in Processes : job[p] = "start" /\ pc[p] \in Paying => Ahead(at[p])
StartTodoAhead ==
    \A p \in Processes : job[p] = "start" /\ pc[p] # "begin" =>
        \A m \in todo[p] : view[p][m].state \in Unpaid => Ahead(m)
DisposedLate ==
    /\ disposed \subseteq consumed
    /\ run.state = "NONE" => disposed = {}
    /\ \A p \in Processes : pc[p] \in Owning => at[p] \notin disposed \ contested
DisposedExpired ==
    /\ run.state # "NONE" => /\ run.auth \in Authorizations
                             /\ parents[run.auth] \in {"live", "expired"}
    /\ disposed # {} => ~Live

DisposalInv ==
    /\ StartPaysAhead /\ StartTodoAhead
    /\ DisposedLate /\ DisposedExpired /\ DispositionFinal
=============================================================================
