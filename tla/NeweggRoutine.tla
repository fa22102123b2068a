---------------------------- MODULE NeweggRoutine ----------------------------
(***************************************************************************)
(* The daily Newegg routine: the recurring mandate that authorizes one     *)
(* full acquisition per local day and its approved reattempts, the live    *)
(* run that acquires, records and promotes an artifact, the routine        *)
(* command that applies it to Current, and the operator who disposes an    *)
(* interrupted acquisition while a run may still be alive.                 *)
(*                                                                         *)
(* A process is one RUN_LIVE command.  The authority file, the bootstrap   *)
(* file and the run file are each written under a single-writer lock       *)
(* (RunLock), so one transaction on one of them is one step; between two   *)
(* steps anything may happen, a crash and a new run included.              *)
(***************************************************************************)
EXTENDS Naturals, FiniteSets

CONSTANTS
    Processes,
    Mandates,
    Artifacts,      \* the full files the provider may serve
    MaxDay,         \* bound of the calendar
    MaxAttempts,    \* MAX_DAILY_ATTEMPTS
    MaxCommands,    \* bound of the commands: live ones and the operator's
    None

ASSUME BoundAssumption == MaxDay \in Nat \ {0} /\ MaxAttempts \in Nat \ {0} /\ MaxCommands \in Nat

VARIABLES
    clock,          \* the operating window of day d is the tick 2d - 1
    mandates, acquisitions, approvals, children,    \* the authority file
    boot,           \* the live-bootstrap file
    active,         \* the run file: the run that is not terminal, if any
    current,        \* the artifact Current was last refreshed from; None: another source
    applied,        \* the artifacts Current was ever refreshed from
    run,            \* the live commands
    commands,       \* how many were given, live ones and the operator's
    disposal        \* the operator's disposition in progress

authority == <<mandates, acquisitions, approvals, children>>
vars == <<clock, authority, boot, active, current, applied, run, commands, disposal>>

Day == (clock + 1) \div 2
Open == clock % 2 = 1
Days == 1 .. MaxDay
Given == commands < MaxCommands /\ commands' = commands + 1

\* operationId hashes the mandate and the local day, and nothing else
Operations == [mandate : Mandates, day : Days]
Authorization == [day : Days, attempt : Nat \ {0}, artifact : {None} \cup Artifacts,
                  status : {"AUTHORIZED", "COMPLETED", "FAILED", "REVIEW_REQUIRED"},
                  failure : {"NONE", "CLEAN", "UNCLEAN"}, disposed : BOOLEAN]
Approval == [mandate : Mandates, day : Days, prior : Operations,
             attempt : Nat, status : {"APPROVED", "CONSUMED"}]
Child == [op : Operations, stage : {"CURRENT", "HISTORY"}, artifact : Artifacts,
          predecessor : {None} \cup Artifacts, status : {"AUTHORIZED", "CONSUMED"}]
Bootstrap == [status : {"INTENT_AUTHORIZED", "ACQUISITION_FAILED", "ACQUISITION_COMPLETED",
                        "LINEAGE_PROMOTED", "ROUTINE_COMPLETED", "ACQUISITION_REVIEW_REQUIRED"},
              artifact : {None} \cup Artifacts, predecessor : {None} \cup Artifacts,
              disposition : {"NONE", "PREPARED", "COMPLETED"}]
Binding == [artifact : Artifacts, predecessor : {None} \cup Artifacts, refreshed : BOOLEAN]
Steps == {"execute", "authorize", "intent", "acquire", "fail", "recordFailure",
          "complete", "recordArtifact", "prepare", "history", "promote", "routine",
          "refresh", "stage", "finish", "consumeCurrent", "consumeHistory", "close"}
\* seen: the bootstrap record read at the start, until the lineage is prepared
Run == [step : Steps, op : Operations, seen : {None} \cup Bootstrap,
        artifact : {None} \cup Artifacts, predecessor : {None} \cup Artifacts,
        failure : {"NONE", "CLEAN", "UNCLEAN"}]
Disposal == [op : Operations, step : {"prepare", "review", "finish"}]

ASSUME NoneAssumption ==
    /\ None \notin Artifacts /\ None \notin Authorization /\ None \notin Bootstrap
    /\ None \notin Binding /\ None \notin Run /\ None \notin Disposal

TypeOK ==
    /\ clock \in 1 .. 2 * MaxDay - 1
    /\ mandates \in [Mandates -> {"NONE", "ENABLED", "PAUSED", "REVOKED"}]
    /\ acquisitions \in [Operations -> {None} \cup Authorization]
    /\ approvals \subseteq Approval
    /\ children \subseteq Child
    /\ boot \in [Operations -> {None} \cup Bootstrap]
    /\ active \in {None} \cup Binding
    /\ current \in {None} \cup Artifacts
    /\ applied \subseteq Artifacts
    /\ run \in [Processes -> {None} \cup Run]
    /\ commands \in 0 .. MaxCommands
    /\ disposal \in {None} \cup Disposal

Init ==
    /\ clock = 1
    /\ mandates = [m \in Mandates |-> "NONE"]
    /\ acquisitions = [o \in Operations |-> None]
    /\ approvals = {}
    /\ children = {}
    /\ boot = [o \in Operations |-> None]
    /\ active = None
    /\ current = None
    /\ applied = {}
    /\ run = [p \in Processes |-> None]
    /\ commands = 0
    /\ disposal = None

-----------------------------------------------------------------------------
(* The world: time, and the other sources of Current. *)

Tick ==
    /\ clock < 2 * MaxDay - 1
    /\ clock' = clock + 1
    /\ UNCHANGED <<authority, boot, active, current, applied, run, commands, disposal>>

OthersRefresh ==
    /\ current # None
    /\ current' = None
    /\ UNCHANGED <<clock, authority, boot, active, applied, run, commands, disposal>>

-----------------------------------------------------------------------------
(* The mandate, as the operator console changes it. *)

Live(m) == mandates[m] \in {"ENABLED", "PAUSED"}

MandatesBecome(f) ==
    /\ mandates' = f
    /\ Given
    /\ UNCHANGED <<clock, acquisitions, approvals, children, boot, active, current,
                   applied, run, disposal>>

CreateExclusive(m) ==
    /\ mandates[m] = "NONE" /\ \A other \in Mandates : ~Live(other)
    /\ MandatesBecome([mandates EXCEPT ![m] = "ENABLED"])

Renew(prior, m) ==
    /\ mandates[prior] # "NONE" /\ mandates[m] = "NONE"
    /\ MandatesBecome([mandates EXCEPT ![prior] = "REVOKED", ![m] = "ENABLED"])

\* A revoked mandate accepts only another REVOKE.
Transition(m) ==
    \E status \in {"ENABLED", "PAUSED", "REVOKED"} :
        /\ Live(m) /\ mandates[m] # status
        /\ MandatesBecome([mandates EXCEPT ![m] = status])

-----------------------------------------------------------------------------
(* The acquisition authority. *)

Eligible(m) == mandates[m] = "ENABLED" /\ Open
Today(m) == {o \in Operations :
                o.mandate = m /\ acquisitions[o] # None /\ acquisitions[o].day = Day}
Attempts(m) == Cardinality(Today(m))
\* sorted by authorizedAt, the last one
Latest(m) == {o \in Today(m) :
                \A other \in Today(m) : acquisitions[other].attempt <= acquisitions[o].attempt}
NoneToday(m, status) == \A o \in Today(m) : acquisitions[o].status # status
Approved(m) == {a \in approvals : a.mandate = m /\ a.day = Day /\ a.status = "APPROVED"}
Consumption(a) == [a EXCEPT !.status = "CONSUMED"]

AuthorityBecomes(a, ap, ch) ==
    /\ acquisitions' = a /\ approvals' = ap /\ children' = ch
    /\ UNCHANGED <<clock, mandates, boot, active, current, applied>>

\* The failure is confirmed: the session was closed and the lease released.
ConfirmedFailure(o) == acquisitions[o].status = "FAILED" /\ acquisitions[o].failure = "CLEAN"

AuthorizeReattempt(m) ==
    \E prior \in Latest(m) :
        LET n == Attempts(m) + 1
            approval == [mandate |-> m, day |-> Day, prior |-> prior, attempt |-> n,
                         status |-> "APPROVED"]
        IN  /\ Eligible(m) /\ n <= MaxAttempts
            /\ NoneToday(m, "COMPLETED") /\ NoneToday(m, "AUTHORIZED")
            /\ ConfirmedFailure(prior)
            /\ approval \notin approvals /\ Consumption(approval) \notin approvals
            /\ Approved(m) = {}
            /\ AuthorityBecomes(acquisitions, approvals \cup {approval}, children)
            /\ Given
            /\ UNCHANGED <<run, disposal>>

Goto(p, step) == run' = [run EXCEPT ![p].step = step]
Leave(p) == run' = [run EXCEPT ![p] = None]      \* an error, or the end of the command
Untouched == UNCHANGED <<clock, mandates, approvals, active, current, applied, commands, disposal>>

\* Mutated: neither the day's acquisitions nor the approval are looked at.
AdmissibleAlways(m) == Eligible(m)
\* Mutated: no approval is asked for.
AdmissibleUnapproved(m) ==
    /\ Eligible(m) /\ NoneToday(m, "COMPLETED") /\ NoneToday(m, "AUTHORIZED")
    /\ Attempts(m) < MaxAttempts

\* A later attempt of the day needs the approval that names its predecessor.
Admissible(m) ==
    /\ Eligible(m) /\ NoneToday(m, "COMPLETED") /\ NoneToday(m, "AUTHORIZED")
    /\ Today(m) # {} =>
        /\ Attempts(m) < MaxAttempts
        /\ \E a \in Approved(m) : a.prior \in Latest(m) /\ a.attempt = Attempts(m) + 1

-----------------------------------------------------------------------------
(* The live command: createProductionNeweggRoutineLiveRoot and execute. *)

Ready(m) == Eligible(m) /\ Attempts(m) < MaxAttempts /\ (Today(m) # {} => Approved(m) # {})
Recoverable(m) ==
    {o \in Operations :
        /\ o.mandate = m /\ boot[o] # None /\ acquisitions[o] # None
        /\ boot[o].status \in {"ACQUISITION_COMPLETED", "LINEAGE_PROMOTED"}
        /\ acquisitions[o].status = "COMPLETED"}

\* A recoverable operation decides the execution day, else today does.
Start(p, m) ==
    \E day \in IF Recoverable(m) = {} THEN {Day}
               ELSE {acquisitions[o].day : o \in Recoverable(m)} :
        /\ run[p] = None /\ Given
        /\ Recoverable(m) # {} \/ Ready(m)
        /\ run' = [run EXCEPT ![p] =
               [step |-> "execute", op |-> [mandate |-> m, day |-> day], seen |-> None,
                artifact |-> None, predecessor |-> None, failure |-> "NONE"]]
        /\ UNCHANGED <<clock, authority, boot, active, current, applied, disposal>>

At(p, step) == run[p] # None /\ run[p].step = step
Op(p) == run[p].op
Recovering(p, status) == run[p].seen # None /\ run[p].seen.status = status

\* A failed operation and an interrupted one end the command; the transport
\* cannot inspect a completed download, so an interrupted one is never found.
Proceeds(o) ==
    IF boot[o] = None THEN Ready(o.mandate)
    ELSE /\ boot[o].status \notin {"ROUTINE_COMPLETED", "ACQUISITION_FAILED", "INTENT_AUTHORIZED"}
         /\ acquisitions[o] # None

Execute(p) ==
    /\ At(p, "execute")
    /\ IF Proceeds(Op(p))
       THEN run' = [run EXCEPT ![p].step = "authorize", ![p].seen = boot[Op(p)]]
       ELSE Leave(p)
    /\ UNCHANGED <<clock, authority, boot, active, current, applied, commands, disposal>>

\* authorizeAcquisition: an operation authorized before is replayed while its
\* mandate is enabled, whatever the time and whatever became of it.
Authorize(p) ==
    LET o == Op(p)
        m == o.mandate
        n == Attempts(m) + 1
    IN  /\ At(p, "authorize")
        /\ \/ /\ acquisitions[o] # None /\ mandates[m] = "ENABLED"
              /\ Goto(p, "intent")
              /\ UNCHANGED <<acquisitions, approvals, children>>
           \/ /\ acquisitions[o] = None /\ Admissible(m)
              /\ acquisitions' = [acquisitions EXCEPT ![o] =
                     [day |-> Day, attempt |-> n, artifact |-> None,
                      status |-> "AUTHORIZED", failure |-> "NONE", disposed |-> FALSE]]
              /\ approvals' = (approvals \ Approved(m)) \cup {Consumption(a) : a \in Approved(m)}
              /\ Goto(p, "intent")
              /\ UNCHANGED children
           \/ /\ IF acquisitions[o] # None THEN mandates[m] # "ENABLED" ELSE ~Admissible(m)
              /\ Leave(p)
              /\ UNCHANGED <<acquisitions, approvals, children>>
        /\ UNCHANGED <<clock, mandates, boot, active, current, applied, commands, disposal>>

Intent(p) ==
    LET o == Op(p)
    IN  /\ At(p, "intent")
        /\ boot' = IF boot[o] # None THEN boot
                   ELSE [boot EXCEPT ![o] = [status |-> "INTENT_AUTHORIZED", artifact |-> None,
                                             predecessor |-> None, disposition |-> "NONE"]]
        /\ Goto(p, "acquire")
        /\ UNCHANGED <<acquisitions, children>> /\ Untouched

\* The provider serves a full file, the session fails, or the lease or anything
\* else refuses without an SFTP code (Crash: nothing is recorded then).  A
\* recovery acquires too, and only then compares what it got with its record.
Acquire(p) ==
    /\ At(p, "acquire")
    /\ \/ \E a \in Artifacts :
             IF run[p].seen # None /\ run[p].seen.artifact \notin {None, a}
             THEN Leave(p)
             ELSE run' = [run EXCEPT ![p].step = "complete", ![p].artifact = a]
       \/ \E f \in {"CLEAN", "UNCLEAN"} :
             run' = [run EXCEPT ![p].step = "fail", ![p].failure = f]
    /\ UNCHANGED <<boot, acquisitions, children>> /\ Untouched

Failed(a, f) == [a EXCEPT !.status = "FAILED", !.failure = f]
Completed(a, artifact) == [a EXCEPT !.status = "COMPLETED", !.artifact = artifact]

\* failAcquisition; a failure that is already recorded is replayed or refused,
\* as the two classifications agree or not.
Fail(p) ==
    LET o == Op(p)
    IN  /\ At(p, "fail")
        /\ \/ /\ acquisitions[o].status \in {"AUTHORIZED", "REVIEW_REQUIRED"}
              /\ acquisitions' = [acquisitions EXCEPT ![o] = Failed(@, run[p].failure)]
              /\ Goto(p, "recordFailure")
           \/ /\ acquisitions[o].status = "FAILED"
              /\ Goto(p, "recordFailure") \/ Leave(p)
              /\ UNCHANGED acquisitions
           \/ /\ acquisitions[o].status = "COMPLETED"
              /\ Leave(p)
              /\ UNCHANGED acquisitions
        /\ UNCHANGED <<boot, children>> /\ Untouched

RecordFailure(p) ==
    /\ At(p, "recordFailure")
    /\ boot' = [boot EXCEPT ![Op(p)].status = "ACQUISITION_FAILED"]
    /\ Leave(p)
    /\ UNCHANGED <<acquisitions, children>> /\ Untouched

\* Mutated: the digest of a replayed completion is not compared.
CompleteBlind(p) ==
    LET o == Op(p)
    IN  /\ At(p, "complete")
        /\ acquisitions[o].status # "FAILED"
        /\ acquisitions' = IF acquisitions[o].status = "COMPLETED" THEN acquisitions
                           ELSE [acquisitions EXCEPT ![o] = Completed(@, run[p].artifact)]
        /\ Goto(p, "recordArtifact")
        /\ UNCHANGED <<boot, children>> /\ Untouched

\* completeAcquisition refuses a failed acquisition, and another artifact for a
\* completed one; one under review it completes.
Complete(p) ==
    LET o == Op(p)
        a == acquisitions[o]
    IN  /\ At(p, "complete")
        /\ \/ /\ a.status \in {"AUTHORIZED", "REVIEW_REQUIRED"}
              /\ acquisitions' = [acquisitions EXCEPT ![o] = Completed(@, run[p].artifact)]
              /\ Goto(p, "recordArtifact")
           \/ /\ a.status = "COMPLETED" /\ a.artifact = run[p].artifact
              /\ Goto(p, "recordArtifact")
              /\ UNCHANGED acquisitions
           \/ /\ a.status = "FAILED" \/ (a.status = "COMPLETED" /\ a.artifact # run[p].artifact)
              /\ Leave(p)
              /\ UNCHANGED acquisitions
        /\ UNCHANGED <<boot, children>> /\ Untouched

RecordArtifact(p) ==
    LET o == Op(p)
    IN  /\ At(p, "recordArtifact")
        /\ IF boot[o].artifact \notin {None, run[p].artifact}
           THEN Leave(p) /\ UNCHANGED boot
           ELSE /\ boot' = [boot EXCEPT ![o].status = "ACQUISITION_COMPLETED",
                                        ![o].artifact = run[p].artifact]
                /\ Goto(p, "prepare")
        /\ UNCHANGED <<acquisitions, children>> /\ Untouched

\* authorizeChild; the plan and the preparation are those of the artifact and
\* of the predecessor, and the child of the same ones is replayed.
ChildOf(p, stage, predecessor) ==
    [op |-> Op(p), stage |-> stage, artifact |-> run[p].artifact,
     predecessor |-> predecessor, status |-> "AUTHORIZED"]
MayHaveChild(p) ==
    /\ mandates[Op(p).mandate] = "ENABLED"
    /\ acquisitions[Op(p)].status = "COMPLETED"
    /\ acquisitions[Op(p)].artifact = run[p].artifact
WithChild(child) ==
    IF Consumption(child) \in children THEN children ELSE children \cup {child}

\* The catalogue state is materialized and Current read; a promoted lineage
\* resolves the plans and the children it was promoted with.
Prepare(p) ==
    /\ At(p, "prepare")
    /\ IF Recovering(p, "LINEAGE_PROMOTED")
       THEN /\ run' = [run EXCEPT ![p].step = "promote", ![p].seen = None,
                                  ![p].predecessor = run[p].seen.predecessor]
            /\ UNCHANGED children
       ELSE IF MayHaveChild(p)
       THEN /\ run' = [run EXCEPT ![p].step = "history", ![p].seen = None,
                                  ![p].predecessor = current]
            /\ children' = WithChild(ChildOf(p, "CURRENT", current))
       ELSE Leave(p) /\ UNCHANGED children
    /\ UNCHANGED <<boot, acquisitions>> /\ Untouched

History(p) ==
    /\ At(p, "history")
    /\ IF MayHaveChild(p)
       THEN /\ children' = WithChild(ChildOf(p, "HISTORY", run[p].predecessor))
            /\ Goto(p, "promote")
       ELSE Leave(p) /\ UNCHANGED children
    /\ UNCHANGED <<boot, acquisitions>> /\ Untouched

Promote(p) ==
    /\ At(p, "promote")
    /\ boot' = [boot EXCEPT ![Op(p)].status = "LINEAGE_PROMOTED",
                            ![Op(p)].predecessor = run[p].predecessor]
    /\ Goto(p, "routine")
    /\ UNCHANGED <<acquisitions, children>> /\ Untouched

-----------------------------------------------------------------------------
(* The routine command, under its execution lock.  A run that stopped stays *)
(* active and blocks every other binding until it is run again.             *)

LockHeld(p) == \E q \in Processes \ {p} : \E s \in {"refresh", "stage", "finish"} : At(q, s)
SameBinding(p) == active.artifact = run[p].artifact /\ active.predecessor = run[p].predecessor
RunFile == UNCHANGED <<clock, authority, boot, commands, disposal>>

Routine(p) ==
    /\ At(p, "routine")
    /\ IF LockHeld(p) \/ (active # None /\ ~SameBinding(p))
       THEN Leave(p) /\ UNCHANGED active
       ELSE /\ active' = IF active # None THEN active
                         ELSE [artifact |-> run[p].artifact,
                               predecessor |-> run[p].predecessor, refreshed |-> FALSE]
            /\ Goto(p, "refresh")
    /\ RunFile /\ UNCHANGED <<current, applied>>

\* Mutated: a moved Current is taken for a refreshed one.
RefreshSkipping(p) ==
    /\ At(p, "refresh")
    /\ IF current = run[p].predecessor
       THEN current' = run[p].artifact /\ applied' = applied \cup {run[p].artifact}
       ELSE UNCHANGED <<current, applied>>
    /\ Goto(p, "stage")
    /\ RunFile /\ UNCHANGED active

\* The CURRENT stage: done before, found applied, applied to its predecessor,
\* or stopped because Current has moved.
Refresh(p) ==
    LET b == run[p]
    IN  /\ At(p, "refresh")
        /\ \/ active.refreshed /\ Goto(p, "finish") /\ UNCHANGED <<current, applied>>
           \/ /\ ~active.refreshed /\ current \in {b.artifact, b.predecessor}
              /\ current' = b.artifact /\ applied' = applied \cup {b.artifact}
              /\ Goto(p, "stage")
           \/ /\ ~active.refreshed /\ current \notin {b.artifact, b.predecessor}
              /\ Leave(p)
              /\ UNCHANGED <<current, applied>>
        /\ RunFile /\ UNCHANGED active

Stage(p) ==
    /\ At(p, "stage")
    /\ active' = [active EXCEPT !.refreshed = TRUE]
    /\ Goto(p, "finish")
    /\ RunFile /\ UNCHANGED <<current, applied>>

Finish(p) ==
    /\ At(p, "finish")
    /\ active' = None
    /\ Goto(p, "consumeCurrent")
    /\ RunFile /\ UNCHANGED <<current, applied>>

Consume(p, step, stage, next) ==
    LET child == ChildOf(p, stage, run[p].predecessor)
    IN  /\ At(p, step)
        /\ children' = (children \ {child}) \cup {Consumption(child)}
        /\ Goto(p, next)
        /\ UNCHANGED <<boot, acquisitions>> /\ Untouched
ConsumeCurrent(p) == Consume(p, "consumeCurrent", "CURRENT", "consumeHistory")
ConsumeHistory(p) == Consume(p, "consumeHistory", "HISTORY", "close")

Close(p) ==
    /\ At(p, "close")
    /\ boot' = [boot EXCEPT ![Op(p)].status = "ROUTINE_COMPLETED"]
    /\ Leave(p)
    /\ UNCHANGED <<acquisitions, children>> /\ Untouched

\* The process dies, or a call fails in a way the command does not record.
Crash(p) ==
    /\ run[p] # None
    /\ Leave(p)
    /\ UNCHANGED <<clock, authority, boot, active, current, applied, commands, disposal>>

-----------------------------------------------------------------------------
(* The operator's disposition of an operation.  It always ends in review:   *)
(* the confirmed class needs terminal transport evidence, and no code of    *)
(* the repository records any.                                              *)

Keeps == UNCHANGED <<clock, mandates, approvals, children, active, current, applied, run>>

Assess(o) ==
    /\ disposal = None /\ boot[o] # None
    /\ acquisitions[o] # None /\ acquisitions[o].status # "COMPLETED"
    /\ boot[o].disposition = "NONE"
    /\ disposal' = [op |-> o, step |-> "prepare"]
    /\ Given /\ UNCHANGED <<acquisitions, boot>> /\ Keeps

Resume(o) ==
    /\ disposal = None /\ boot[o] # None /\ acquisitions[o] # None
    /\ boot[o].disposition = "PREPARED"
    /\ disposal' = [op |-> o, step |-> IF acquisitions[o].disposed THEN "finish" ELSE "review"]
    /\ Given /\ UNCHANGED <<acquisitions, boot>> /\ Keeps

DisposePrepare ==
    /\ disposal # None /\ disposal.step = "prepare"
    /\ boot' = [boot EXCEPT ![disposal.op].disposition = "PREPARED"]
    /\ disposal' = [disposal EXCEPT !.step = "review"]
    /\ UNCHANGED acquisitions /\ Keeps /\ UNCHANGED commands

\* reviewAcquisition refuses a completed acquisition.
Reviewed(a) == [a EXCEPT !.status = "REVIEW_REQUIRED", !.disposed = TRUE]
\* Mutated: a completed acquisition is reviewed as any other.
DisposeReviewAny ==
    /\ disposal # None /\ disposal.step = "review"
    /\ acquisitions' = [acquisitions EXCEPT ![disposal.op] = Reviewed(@)]
    /\ disposal' = [disposal EXCEPT !.step = "finish"]
    /\ UNCHANGED boot /\ Keeps /\ UNCHANGED commands

DisposeReview ==
    /\ disposal # None /\ disposal.step = "review"
    /\ IF acquisitions[disposal.op].status = "COMPLETED"
       THEN disposal' = None /\ UNCHANGED acquisitions
       ELSE /\ acquisitions' = [acquisitions EXCEPT ![disposal.op] = Reviewed(@)]
            /\ disposal' = [disposal EXCEPT !.step = "finish"]
    /\ UNCHANGED boot /\ Keeps /\ UNCHANGED commands

DisposeFinish ==
    /\ disposal # None /\ disposal.step = "finish"
    /\ boot' = [boot EXCEPT ![disposal.op].status = "ACQUISITION_REVIEW_REQUIRED",
                            ![disposal.op].disposition = "COMPLETED"]
    /\ disposal' = None
    /\ UNCHANGED acquisitions /\ Keeps /\ UNCHANGED commands

DisposeCrash ==
    /\ disposal # None
    /\ disposal' = None
    /\ UNCHANGED <<acquisitions, boot>> /\ Keeps /\ UNCHANGED commands

-----------------------------------------------------------------------------
Operator ==
    \/ \E m \in Mandates : CreateExclusive(m) \/ Transition(m) \/ AuthorizeReattempt(m)
    \/ \E prior, m \in Mandates : Renew(prior, m)
    \/ \E o \in Operations : Assess(o) \/ Resume(o)
    \/ DisposePrepare \/ DisposeReview \/ DisposeFinish \/ DisposeCrash

\* A step of a live command that has begun.
Progress(p) ==
    \/ Execute(p) \/ Authorize(p) \/ Intent(p) \/ Acquire(p)
    \/ Fail(p) \/ RecordFailure(p) \/ Complete(p) \/ RecordArtifact(p)
    \/ Prepare(p) \/ History(p) \/ Promote(p)
    \/ Routine(p) \/ Refresh(p) \/ Stage(p) \/ Finish(p)
    \/ ConsumeCurrent(p) \/ ConsumeHistory(p) \/ Close(p)

Next ==
    \/ Tick \/ OthersRefresh \/ Operator
    \/ \E p \in Processes : Progress(p) \/ Crash(p) \/ \E m \in Mandates : Start(p, m)

Spec == Init /\ [][Next]_vars

-----------------------------------------------------------------------------
(* The inductive invariant of the proofs. *)

Receipted(o, a) ==
    acquisitions[o] # None /\ acquisitions[o].status = "COMPLETED" /\ acquisitions[o].artifact = a
HasChild(o, a) == \E c \in children : c.op = o /\ c.stage = "CURRENT" /\ c.artifact = a
Used(o, stage, a) ==
    \E c \in children : c.op = o /\ c.stage = stage /\ c.artifact = a /\ c.status = "CONSUMED"

InRoutine == {"refresh", "stage", "finish"}
AfterRefresh == {"stage", "finish", "consumeCurrent", "consumeHistory", "close"}
Prepared == {"history", "promote", "routine", "refresh"} \cup AfterRefresh
Recorded == {"prepare"} \cup Prepared

\* What a live command may rely on at each of its steps.
CommandSound(p) ==
    /\ run[p].step \notin {"execute", "authorize"} => acquisitions[run[p].op] # None
    /\ run[p].step \notin {"execute", "authorize", "intent"} => boot[run[p].op] # None
    /\ run[p].step = "complete" => run[p].artifact # None
    /\ run[p].step \in {"recordArtifact"} \cup Recorded =>
           run[p].artifact # None /\ Receipted(run[p].op, run[p].artifact)
    /\ run[p].step \in Recorded => boot[run[p].op].artifact = run[p].artifact
    /\ run[p].step \in Prepared => HasChild(run[p].op, run[p].artifact)
    /\ run[p].seen # None /\ run[p].seen.status = "LINEAGE_PROMOTED" =>
           /\ Receipted(run[p].op, run[p].seen.artifact)
           /\ HasChild(run[p].op, run[p].seen.artifact)
    /\ run[p].step \in InRoutine => active # None /\ active.artifact = run[p].artifact
    /\ run[p].step \in AfterRefresh => run[p].artifact \in applied
    /\ run[p].step \in {"consumeHistory", "close"} => Used(run[p].op, "CURRENT", run[p].artifact)
    /\ run[p].step = "close" => Used(run[p].op, "HISTORY", run[p].artifact)

RunSound == \A p \in Processes : run[p] # None => CommandSound(p)

OneInRoutine ==
    \A p, q \in Processes :
        run[p] # None /\ run[q] # None /\ run[p].step \in InRoutine /\ run[q].step \in InRoutine => p = q

RecordSound(o) ==
    /\ acquisitions[o] # None
    /\ boot[o].artifact # None => Receipted(o, boot[o].artifact)
    /\ boot[o].status = "LINEAGE_PROMOTED" => boot[o].artifact # None /\ HasChild(o, boot[o].artifact)
    /\ boot[o].status = "ROUTINE_COMPLETED" =>
           /\ boot[o].artifact # None /\ boot[o].artifact \in applied
           /\ Used(o, "CURRENT", boot[o].artifact) /\ Used(o, "HISTORY", boot[o].artifact)
BootSound == \A o \in Operations : boot[o] # None => RecordSound(o)

ActiveSound == active # None /\ active.refreshed => active.artifact \in applied

AppliedSound == \A a \in applied : \E o \in Operations : Receipted(o, a) /\ HasChild(o, a)

DisposalSound == disposal # None => boot[disposal.op] # None /\ acquisitions[disposal.op] # None

\* An acquisition stands that has not failed and was not disposed of: of the
\* operations of one mandate and day one at most stands.
Standing(o) == acquisitions[o].status \in {"AUTHORIZED", "COMPLETED"} /\ ~acquisitions[o].disposed
OneCurrent ==
    /\ \A o \in Operations :
          acquisitions[o] # None /\ acquisitions[o].status = "REVIEW_REQUIRED" => acquisitions[o].disposed
    /\ \A o, other \in Operations :
          /\ o.mandate = other.mandate /\ acquisitions[o] # None /\ acquisitions[other] # None
          /\ acquisitions[o].day = acquisitions[other].day /\ Standing(o) /\ Standing(other)
          => o = other

\* The attempts of a day are numbered without a gap, and an approval names the
\* number after its predecessor's.
DayOf(m, d) == {o \in Operations :
                    o.mandate = m /\ acquisitions[o] # None /\ acquisitions[o].day = d}
Ranked ==
    \A m \in Mandates, d \in Days : \A o, other \in DayOf(m, d) :
        /\ acquisitions[o].attempt <= Cardinality(DayOf(m, d))
        /\ acquisitions[o].attempt = acquisitions[other].attempt => o = other
ApprovalsSound ==
    \A a \in approvals :
        acquisitions[a.prior] # None /\ acquisitions[a.prior].attempt = a.attempt - 1

IInv == TypeOK /\ RunSound /\ OneInRoutine /\ BootSound /\ ActiveSound /\ AppliedSound
        /\ DisposalSound /\ OneCurrent

-----------------------------------------------------------------------------
(* Properties *)

\* What the bootstrap file promotes is what the authority file receipted: an
\* operation records an artifact only when its acquisition is COMPLETED with
\* it, whichever commands, failures and dispositions overlapped.
LineageReceipted ==
    \A o \in Operations :
        boot[o] # None /\ boot[o].artifact # None =>
            /\ acquisitions[o] # None
            /\ acquisitions[o].status = "COMPLETED"
            /\ acquisitions[o].artifact = boot[o].artifact

\* Current is refreshed only with an artifact that some completed acquisition
\* of the mandate receipted, and under a child authorized for it.
RefreshedUnderAuthority ==
    \A a \in applied :
        \E c \in children :
            /\ c.stage = "CURRENT" /\ c.artifact = a
            /\ acquisitions[c.op] # None
            /\ acquisitions[c.op].status = "COMPLETED" /\ acquisitions[c.op].artifact = a

\* Within a local day, the second and third acquisition of a mandate each used
\* up an approval that the operator gave for that attempt after a failure.
EveryReattemptApproved ==
    \A o \in Operations :
        acquisitions[o] # None /\ acquisitions[o].attempt > 1 =>
            \E a \in approvals :
                /\ a.mandate = o.mandate /\ a.day = acquisitions[o].day
                /\ a.attempt = acquisitions[o].attempt /\ a.status = "CONSUMED"
                /\ acquisitions[a.prior] # None
                /\ acquisitions[a.prior].attempt = a.attempt - 1

\* A routine that is recorded as completed did refresh Current with the
\* artifact of its operation, and both of its children were consumed.
CompletedRoutineApplied ==
    \A o \in Operations :
        boot[o] # None /\ boot[o].status = "ROUTINE_COMPLETED" =>
            /\ boot[o].artifact \in applied
            /\ \A s \in {"CURRENT", "HISTORY"} :
                   \E c \in children : c.op = o /\ c.stage = s /\ c.status = "CONSUMED"
                                       /\ c.artifact = boot[o].artifact

\* A mandate completes one full acquisition per local day, save one that was
\* disposed of and that a command still alive completed after all.
OneCompletedPerDay ==
    \A o, other \in Operations :
        /\ o.mandate = other.mandate
        /\ acquisitions[o] # None /\ acquisitions[other] # None
        /\ acquisitions[o].day = acquisitions[other].day
        /\ acquisitions[o].status = "COMPLETED" /\ acquisitions[other].status = "COMPLETED"
        /\ ~acquisitions[o].disposed /\ ~acquisitions[other].disposed
        => o = other

\* A receipt is final: no failure, disposition or later download changes a
\* completed acquisition.
ReceiptFinal ==
    [][\A o \in Operations :
          acquisitions[o] # None /\ acquisitions[o].status = "COMPLETED"
              => acquisitions'[o] = acquisitions[o]]_acquisitions

\* A command that recovers a completed acquisition calls the provider again:
\* violated (NeweggRoutineCrashRecoveryMatrix says it does not).
RecoveryCallsNoProvider ==
    \A p \in Processes : At(p, "complete") => ~Recovering(p, "ACQUISITION_COMPLETED")

\* A command that runs under an approved reattempt goes on to acquire: violated,
\* the routine's operation of the day is the one that failed.
ApprovedReattemptProceeds ==
    [][\A p \in Processes :
          /\ Execute(p) /\ Eligible(Op(p).mandate) /\ Approved(Op(p).mandate) # {}
          /\ boot[Op(p)] # None /\ boot[Op(p)].status = "ACQUISITION_FAILED"
          => run'[p] # None]_vars
=============================================================================
