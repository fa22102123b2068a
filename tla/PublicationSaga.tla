--------------------------- MODULE PublicationSaga ---------------------------
(***************************************************************************)
(* The unattended release of certified price candidates: the recurring     *)
(* mandate, the child authorization and the operation of each candidate,   *)
(* the promotion written into the release checkout, the commit, the push,  *)
(* the observation of the deployment, and the binding by which a completed *)
(* routine run asks for one release.                                       *)
(*                                                                         *)
(* A process is an invocation: the binding of a routine run, an operator's *)
(* RUN or an operator's OBSERVE.  RUN and OBSERVE work under the execution *)
(* lock; a process that dies in it is followed by one that takes the stale *)
(* lock over (RunLock).  A commit is its history, a release is named by    *)
(* its candidate, and a routine run by the candidate it certifies.         *)
(***************************************************************************)
EXTENDS Naturals, Sequences, FiniteSets

CONSTANTS
    Processes,
    Candidates,      \* 1..n, in the order in which the routine certifies them
    FreshUntil,      \* currentValidUntil of each candidate
    MandateUntil,    \* expiresAt of the mandate
    DayLength,       \* ticks of a local day
    MaxTime,         \* bound of the clock
    MaxEvents,       \* bound of the crashes and the operator's decisions together
    Decisions,       \* the statuses the operator may give the mandate
    None

ASSUME CandidateAssumption == Candidates \subseteq Nat \ {0}
ASSUME TimeAssumption ==
    /\ FreshUntil \in [Candidates -> Nat]
    /\ MandateUntil \in Nat /\ MaxTime \in Nat /\ MaxEvents \in Nat /\ DayLength \in Nat \ {0}
ASSUME DecisionAssumption == Decisions \subseteq {"ENABLED", "PAUSED", "REVOKED"}

VARIABLES
    now,
    candidate,    \* the candidate of the routine's last successful run, 0: none
    mandate,      \* unattended-live-price.json: status of the mandate,
    children,     \*   the child authorizations,
    operations,   \*   and the operations by candidate
    inner,        \* live-price-authorizations.json, by candidate
    receipts,     \* the receipts of the binding, by routine run; what they say is not read again
    release,      \* config/publication-release.json in the checkout: its release and the previous
    dirty,        \* the paths of the checkout that differ from its head
    head,         \* HEAD of the checkout
    tracking,     \* origin/main as the checkout last saw it
    remote,       \* the main branch on the server
    writers,      \* the holder of the execution lock
    pc, job, my,  \* where an invocation is, what it was asked, what it has read
    events,       \* how many crashes and decisions there have been
    invoked       \* history: how often the binding ran the command for a routine run

authority == <<mandate, children, operations>>
checkout == <<release, dirty, head, tracking>>
process == <<pc, job, my, writers>>
history == <<invoked, events>>
vars == <<now, candidate, authority, inner, receipts, checkout, remote, process, history>>

Day(t) == t \div DayLength
Fresh(c) == now < FreshUntil[c]

Others == 0      \* a commit of somebody else on the main branch
Commits == Seq(Candidates \cup {Others})
Releases == Candidates \cup {0}
ASSUME NoneAssumption == None \notin Nat /\ None \notin Commits
Child == [cand : Candidates, pred : Releases, base : Commits, day : Nat, at : Nat]
Path == [path : {"artifact", "manifest", "generated"}, cand : Candidates]
Promotion(c) == [path : {"artifact", "manifest"}, cand : {c}]
Inner == [at : Nat, pred : Releases, begun : BOOLEAN, consumed : BOOLEAN]

Statuses == {"AUTHORIZED", "PREPARING", "CHECKPOINTED", "DEPLOYMENT_PENDING",
             "LIVE_ACCEPTED", "FAILED"}
Operation == [status : Statuses \cup {"NONE"}, child : {None} \cup Child, attempts : 0..1,
              clean : {None} \cup Commits,     \* originalCleanCheckout of PREPARE_STARTED
              commit : {None} \cup Commits,     \* of CHECKPOINT_CREATED and MAIN_UPDATED
              completed : {None} \cup Nat]    \* deploymentCompletedAt of LIVE_ACCEPTED
NoOperation == [status |-> "NONE", child |-> None, attempts |-> 0, clean |-> None,
                commit |-> None, completed |-> None]

Executing == {"read", "authorize", "start", "promote", "artifact", "manifest", "record",
              "begin", "build", "consume", "commit", "checkpoint", "push", "main",
              "observe", "accept", "fail"}
PC == {"idle", "receipt", "command", "lock to run", "lock to observe", "settle"} \cup Executing
My == [run : Releases, cand : Releases, at : Nat, child : {None} \cup Child, base : Commits,
       completed : {None} \cup Nat]
NothingRead == [run |-> 0, cand |-> 0, at |-> 0, child |-> None, base |-> <<>>, completed |-> None]

TypeOK ==
    /\ now \in 0..MaxTime
    /\ candidate \in Releases
    /\ mandate \in {"ENABLED", "PAUSED", "REVOKED"}
    /\ children \subseteq Child
    /\ operations \in [Candidates -> Operation]
    /\ inner \in [Candidates -> SUBSET Inner]
    /\ receipts \in [Candidates -> {"NONE", "INVOCATION_RECORDED", "SETTLED"}]
    /\ release \in [cand : Releases, prev : Releases]
    /\ dirty \subseteq Path
    /\ head \in Commits /\ tracking \in Commits /\ remote \in Commits
    /\ writers \subseteq Processes
    /\ pc \in [Processes -> PC]
    /\ job \in [Processes -> {"none", "binding", "run", "observe"}]
    /\ my \in [Processes -> My]
    /\ invoked \in [Candidates -> Nat] /\ events \in 0..MaxEvents

Lock == INSTANCE SingleWriter WITH Runs <- Processes

Init ==
    /\ now = 0 /\ candidate = 0
    /\ mandate = "ENABLED" /\ children = {}
    /\ operations = [c \in Candidates |-> NoOperation]
    /\ inner = [c \in Candidates |-> {}]
    /\ receipts = [c \in Candidates |-> "NONE"]
    /\ release = [cand |-> 0, prev |-> 0]
    /\ dirty = {} /\ head = <<>> /\ tracking = <<>> /\ remote = <<>>
    /\ Lock!Init
    /\ pc = [p \in Processes |-> "idle"]
    /\ job = [p \in Processes |-> "none"]
    /\ my = [p \in Processes |-> NothingRead]
    /\ invoked = [c \in Candidates |-> 0] /\ events = 0
-----------------------------------------------------------------------------
\* The world around: clock, routine, operator, other committers.
Tick ==
    /\ now < MaxTime /\ now' = now + 1
    /\ UNCHANGED <<candidate, authority, inner, receipts, checkout, remote, process, history>>

Certify ==
    /\ candidate + 1 \in Candidates /\ candidate' = candidate + 1
    /\ UNCHANGED <<now, authority, inner, receipts, checkout, remote, process, history>>

Transition(status) ==
    /\ mandate # "REVOKED" /\ mandate' = status
    /\ events < MaxEvents /\ events' = events + 1
    /\ UNCHANGED <<now, candidate, children, operations, inner, receipts, checkout, remote,
                   process, invoked>>

OthersPush ==
    /\ \A i \in 1..Len(remote) : remote[i] # Others
    /\ remote' = Append(remote, Others)
    /\ UNCHANGED <<now, candidate, authority, inner, receipts, checkout, process, history>>

OnMain(c) == \E i \in 1..Len(remote) : remote[i] = c
-----------------------------------------------------------------------------
\* The steps of an invocation.
Goto(p, to) == pc' = [pc EXCEPT ![p] = to]
AlreadyDeployed(c) == release.cand = c

Leave(p) ==
    /\ Goto(p, "idle")
    /\ my' = [my EXCEPT ![p] = NothingRead]
    /\ job' = [job EXCEPT ![p] = "none"]

\* the invocation ends with an answer or an error, and the binding has its receipt to complete
Finish(p) ==
    /\ IF job[p] = "binding"
       THEN /\ Goto(p, "settle")
            /\ my' = [my EXCEPT ![p] = [NothingRead EXCEPT !.run = my[p].run]]
            /\ UNCHANGED job
       ELSE Leave(p)
    /\ writers' = writers \ {p}

\* NeweggRoutinePostSuccessPublicationBinding.execute, up to the receipt
Bind(p) ==
    /\ pc[p] = "idle" /\ candidate # 0
    /\ AlreadyDeployed(candidate) \/ Fresh(candidate)
    /\ mandate = "ENABLED"
    /\ operations[candidate].status \in {"NONE", "LIVE_ACCEPTED"}
    /\ receipts[candidate] = "NONE"
    /\ Goto(p, "receipt")
    /\ job' = [job EXCEPT ![p] = "binding"]
    /\ my' = [my EXCEPT ![p] = [NothingRead EXCEPT !.run = candidate]]
    /\ UNCHANGED <<now, candidate, authority, inner, receipts, checkout, remote, writers, history>>

\* Mutated: the receipt is not looked up again under its lock.
RecordReceiptBlind(p) ==
    /\ pc[p] = "receipt"
    /\ receipts' = [receipts EXCEPT ![my[p].run] = "INVOCATION_RECORDED"]
    /\ invoked' = [invoked EXCEPT ![my[p].run] = @ + 1]
    /\ Goto(p, "command")
    /\ UNCHANGED <<now, candidate, authority, inner, checkout, remote, job, my, writers, events>>

RecordReceipt(p) ==
    /\ pc[p] = "receipt"
    /\ IF receipts[my[p].run] = "NONE"
       THEN /\ receipts' = [receipts EXCEPT ![my[p].run] = "INVOCATION_RECORDED"]
            /\ invoked' = [invoked EXCEPT ![my[p].run] = @ + 1]
            /\ Goto(p, "command")
            /\ UNCHANGED <<job, my>>
       ELSE Leave(p) /\ UNCHANGED <<receipts, invoked>>
    /\ UNCHANGED <<now, candidate, authority, inner, checkout, remote, writers, events>>

Settle(p) ==
    /\ pc[p] = "settle"
    /\ receipts' = [receipts EXCEPT ![my[p].run] = "SETTLED"]
    /\ Leave(p)
    /\ UNCHANGED <<now, candidate, authority, inner, checkout, remote, writers, history>>

\* ProductionUnattendedPublicationCommand.run, given by the operator or by the binding
Command(p) ==
    /\ candidate # 0
    /\ pc[p] \in {"idle", "command"}
    /\ LET status == operations[candidate].status
           asked == IF pc[p] = "idle" THEN "run" ELSE job[p]
       IN \/ /\ status = "DEPLOYMENT_PENDING"
             /\ my' = [my EXCEPT ![p].cand = candidate]
             /\ job' = [job EXCEPT ![p] = asked]
             /\ Goto(p, "lock to observe") /\ UNCHANGED writers
          \/ /\ status # "DEPLOYMENT_PENDING" /\ AlreadyDeployed(candidate)
             /\ Finish(p)
          \/ /\ status # "DEPLOYMENT_PENDING" /\ ~AlreadyDeployed(candidate)
             /\ job' = [job EXCEPT ![p] = asked]
             /\ Goto(p, "lock to run") /\ UNCHANGED <<my, writers>>
    /\ UNCHANGED <<now, candidate, authority, inner, receipts, checkout, remote, history>>

\* the operator's OBSERVE
AskToObserve(p) ==
    /\ pc[p] = "idle"
    /\ \E c \in Candidates :
         /\ operations[c].status # "NONE"
         /\ my' = [my EXCEPT ![p].cand = c]
    /\ job' = [job EXCEPT ![p] = "observe"]
    /\ Goto(p, "lock to observe")
    /\ UNCHANGED <<now, candidate, authority, inner, receipts, checkout, remote, writers, history>>

\* runOperationExclusive: a lock that is held is PUBLICATION_OPERATION_BUSY
EnterLock(p) ==
    /\ pc[p] \in {"lock to run", "lock to observe"}
    /\ \/ /\ Lock!Enter(p)
          /\ Goto(p, IF pc[p] = "lock to run" THEN "read" ELSE "observe")
          /\ UNCHANGED <<job, my>>
       \/ /\ writers # {}
          /\ Finish(p)
    /\ UNCHANGED <<now, candidate, authority, inner, receipts, checkout, remote, history>>

Unchanged == UNCHANGED <<now, candidate, receipts, history>>

\* a preparation that stopped may have left its own promotion in the checkout
Recoverable(c) ==
    /\ operations[c].status = "PREPARING"
    /\ operations[c].clean = head
    /\ dirty \subseteq Promotion(c)

Predecessor(c) == tracking = head /\ (dirty = {} \/ Recoverable(c))

\* Mutated: a failed operation is tried again.
RunReadsRetrying(p) ==
    /\ pc[p] = "read"
    /\ LET c == candidate IN
         \/ /\ operations[c].status = "LIVE_ACCEPTED"
            /\ Finish(p)
         \/ /\ operations[c].status # "LIVE_ACCEPTED" /\ ~Predecessor(c)
            /\ Finish(p)
         \/ /\ operations[c].status # "LIVE_ACCEPTED" /\ Predecessor(c)
            /\ my' = [my EXCEPT ![p].cand = c, ![p].at = now, ![p].base = head]
            /\ Goto(p, "authorize")
            /\ UNCHANGED <<job, writers>>
    /\ UNCHANGED <<authority, inner, checkout, remote>> /\ Unchanged

\* _run up to the child.  Only the holder of the execution lock changes operations and checkout.
RunReads(p) ==
    /\ pc[p] = "read"
    /\ LET c == candidate IN
         \/ /\ operations[c].status = "LIVE_ACCEPTED"
            /\ Finish(p)
         \/ /\ operations[c].status = "FAILED"
            /\ Finish(p)
         \/ /\ operations[c].status \notin {"LIVE_ACCEPTED", "FAILED"} /\ ~Predecessor(c)
            /\ Finish(p)
         \/ /\ operations[c].status \notin {"LIVE_ACCEPTED", "FAILED"} /\ Predecessor(c)
            /\ my' = [my EXCEPT ![p].cand = c, ![p].at = now, ![p].base = head]
            /\ Goto(p, "authorize")
            /\ UNCHANGED <<job, writers>>
    /\ UNCHANGED <<authority, inner, checkout, remote>> /\ Unchanged

\* the release the checkout names is the predecessor the discovered candidate names
ChildOf(p) == [cand |-> my[p].cand, pred |-> release.cand, base |-> my[p].base,
               day |-> Day(my[p].at), at |-> my[p].at]
SameId(one, other) == [one EXCEPT !.at = 0] = [other EXCEPT !.at = 0]

LimitReached(day) ==
    \E c \in Candidates : /\ operations[c].status = "LIVE_ACCEPTED"
                          /\ operations[c].child.day = day

MandateRefuses(p) == mandate # "ENABLED" \/ my[p].at >= MandateUntil
Conflicting(p) == \E prior \in children : SameId(prior, ChildOf(p)) /\ prior # ChildOf(p)

\* FileRecurringPublicationAuthorityRepository.authorizeChild
Authorizable(p) ==
    /\ ~MandateRefuses(p)
    /\ my[p].at < FreshUntil[my[p].cand]
    /\ ~LimitReached(Day(my[p].at))
    /\ ~Conflicting(p)

Issue(p) ==
    LET child == ChildOf(p) IN
    /\ children' = children \cup {child}
    /\ operations' = IF operations[child.cand].status # "NONE" THEN operations
                     ELSE [operations EXCEPT ![child.cand].status = "AUTHORIZED",
                                             ![child.cand].child = child]
    /\ my' = [my EXCEPT ![p].child = child]
    /\ Goto(p, IF operations[child.cand].commit = None THEN "start" ELSE "push")
    /\ UNCHANGED <<job, writers>>

\* Mutated: the day's accepted release is not looked for.
AuthorizeUnlimited(p) ==
    /\ pc[p] = "authorize"
    /\ \/ ~MandateRefuses(p) /\ ~Conflicting(p) /\ Issue(p)
       \/ ~Authorizable(p) /\ Finish(p) /\ UNCHANGED <<children, operations>>
    /\ UNCHANGED <<mandate, inner, checkout, remote>> /\ Unchanged

\* Mutated: the operation is replaced where the code only creates a missing one.
AuthorizeReplacing(p) ==
    /\ pc[p] = "authorize" /\ Authorizable(p)
    /\ children' = children \cup {ChildOf(p)}
    /\ operations' = [operations EXCEPT ![my[p].cand] =
                        [NoOperation EXCEPT !.status = "AUTHORIZED", !.child = ChildOf(p)]]
    /\ my' = [my EXCEPT ![p].child = ChildOf(p)]
    /\ Goto(p, "start")
    /\ UNCHANGED <<mandate, inner, checkout, remote, job, writers>> /\ Unchanged

\* a refused child ends the run outside its try: the operation stays as it is
AuthorizeChild(p) ==
    /\ pc[p] = "authorize"
    /\ \/ Authorizable(p) /\ Issue(p)
       \/ ~Authorizable(p) /\ Finish(p) /\ UNCHANGED <<children, operations>>
    /\ UNCHANGED <<mandate, inner, checkout, remote>> /\ Unchanged

\* PREPARE_STARTED is recorded once; a run that resumes uses its evidence
StartPrepare(p) ==
    /\ pc[p] = "start"
    /\ operations' = IF operations[my[p].cand].clean # None THEN operations
                     ELSE [operations EXCEPT ![my[p].cand].status = "PREPARING",
                                             ![my[p].cand].attempts = @ + 1,
                                             ![my[p].cand].clean = my[p].base]
    /\ Goto(p, "promote")
    /\ UNCHANGED <<mandate, children, inner, checkout, remote, job, my, writers>> /\ Unchanged

Replay(child) == release.cand = child.cand /\ release.prev = child.pred

\* CertifiedCandidateReleasePromotionOwner.prepare, up to its writes
Promote(p) ==
    /\ pc[p] = "promote"
    /\ LET child == my[p].child IN
         Goto(p, IF /\ mandate = "ENABLED" /\ Fresh(child.cand)
                    /\ operations[child.cand].clean = child.base
                    /\ Replay(child) \/ release.cand = child.pred
                 THEN "artifact" ELSE "fail")
    /\ UNCHANGED <<authority, inner, checkout, remote, job, my, writers>> /\ Unchanged

WriteArtifact(p) ==
    /\ pc[p] = "artifact"
    /\ dirty' = dirty \cup {[path |-> "artifact", cand |-> my[p].cand]}
    /\ Goto(p, "manifest")
    /\ UNCHANGED <<authority, inner, release, head, tracking, remote, job, my, writers>> /\ Unchanged

WriteManifest(p) ==
    /\ pc[p] = "manifest"
    /\ dirty' = dirty \cup {[path |-> "manifest", cand |-> my[p].cand]}
    /\ release' = IF Replay(my[p].child) THEN release
                  ELSE [cand |-> my[p].cand, prev |-> release.cand]
    /\ Goto(p, "record")
    /\ UNCHANGED <<authority, inner, head, tracking, remote, job, my, writers>> /\ Unchanged

\* the inner authorization carries the child's time
RecordInner(p) ==
    /\ pc[p] = "record"
    /\ LET child == my[p].child
           prior == {i \in inner[child.cand] : i.at = child.at /\ i.pred = child.pred}
       IN inner' = IF prior # {} THEN inner
                   ELSE [inner EXCEPT ![child.cand] = @ \cup
                           {[at |-> child.at, pred |-> child.pred, begun |-> FALSE, consumed |-> FALSE]}]
    /\ Goto(p, "begin")
    /\ UNCHANGED <<authority, checkout, remote, job, my, writers>> /\ Unchanged

Mark(p, mark(_)) ==
    LET child == my[p].child IN
    inner' = [inner EXCEPT ![child.cand] =
                {IF i.at = child.at /\ i.pred = child.pred THEN mark(i) ELSE i : i \in @}]
Begun(i) == [i EXCEPT !.begun = TRUE]
Consumed(i) == [i EXCEPT !.consumed = TRUE]

\* GovernedLivePricePublicationCoordinator.prepare: begin, build and verify, consume
BeginBuild(p) ==
    /\ pc[p] = "begin"
    /\ IF Fresh(my[p].cand) /\ dirty = Promotion(my[p].cand)
       THEN Mark(p, Begun) /\ Goto(p, "build")
       ELSE Goto(p, "fail") /\ UNCHANGED inner
    /\ UNCHANGED <<authority, checkout, remote, job, my, writers>> /\ Unchanged

Build(p) ==
    /\ pc[p] = "build"
    /\ dirty' = dirty \cup {[path |-> "generated", cand |-> my[p].cand]}
    /\ \/ Fresh(my[p].cand) /\ Goto(p, "consume")
       \/ Goto(p, "fail")          \* expired meanwhile, or a script of the verification fails
    /\ UNCHANGED <<authority, inner, release, head, tracking, remote, job, my, writers>> /\ Unchanged

ConsumeInner(p) ==
    /\ pc[p] = "consume"
    /\ Mark(p, Consumed)
    /\ Goto(p, "commit")
    /\ UNCHANGED <<authority, checkout, remote, job, my, writers>> /\ Unchanged

\* GitHubAppReleaseGitOwner.checkpoint and fastForwardMain
Commit(p) ==
    /\ pc[p] = "commit"
    /\ head' = Append(head, my[p].cand)
    /\ dirty' = {}
    /\ Goto(p, "checkpoint")
    /\ UNCHANGED <<authority, inner, release, tracking, remote, job, my, writers>> /\ Unchanged

RecordCheckpoint(p) ==
    /\ pc[p] = "checkpoint"
    /\ operations' = [operations EXCEPT ![my[p].cand].status = "CHECKPOINTED",
                                        ![my[p].cand].commit = head]
    /\ Goto(p, "push")
    /\ UNCHANGED <<mandate, children, inner, checkout, remote, job, my, writers>> /\ Unchanged

\* a push that has arrived may still end in an error, or the process may lose its answer
Push(p) ==
    /\ pc[p] = "push"
    /\ LET commit == operations[my[p].cand].commit IN
         \/ /\ remote = my[p].base
            /\ remote' = commit
            /\ \/ tracking' = commit /\ Goto(p, "main")
               \/ UNCHANGED tracking /\ Goto(p, "fail")
         \/ Goto(p, "fail") /\ UNCHANGED <<remote, tracking>>
    /\ UNCHANGED <<authority, inner, release, dirty, head, job, my, writers>> /\ Unchanged

RecordMain(p) ==
    /\ pc[p] = "main"
    /\ operations' = [operations EXCEPT ![my[p].cand].status = "DEPLOYMENT_PENDING"]
    /\ Goto(p, "observe")
    /\ UNCHANGED <<mandate, children, inner, checkout, remote, job, my, writers>> /\ Unchanged

\* the try of _run and of _observeUntilTerminal: the error is recorded, then thrown
RecordFailed(p) ==
    /\ pc[p] = "fail"
    /\ operations' = [operations EXCEPT ![my[p].cand].status =
                         IF @ = "LIVE_ACCEPTED" THEN @ ELSE "FAILED"]
    /\ Finish(p)
    /\ UNCHANGED <<mandate, children, inner, checkout, remote>> /\ Unchanged

\* _observe up to the deployment: authority, bindings and the published checkpoint
Observable(c) ==
    LET operation == operations[c]
        matching == {i \in inner[c] : i.at = operation.child.at /\ i.pred = operation.child.pred}
    IN /\ operation.status = "DEPLOYMENT_PENDING" /\ operation.attempts = 1
       /\ mandate = "ENABLED" /\ operation.child.at < MandateUntil
       /\ candidate = c
       /\ \E i \in matching : matching = {i} /\ i.at < FreshUntil[c] /\ i.begun /\ i.consumed
       /\ dirty = {} /\ head = operation.commit /\ remote = operation.commit
       /\ operation.commit = Append(operation.child.base, c)
       /\ release = [cand |-> c, prev |-> operation.child.pred]

\* Mutated: a deployment that completed too late is accepted.
ObserveLate(p) ==
    /\ pc[p] = "observe" /\ Observable(my[p].cand)
    /\ \E time \in 0..now : my' = [my EXCEPT ![p].completed = time]
    /\ Goto(p, "accept")
    /\ UNCHANGED <<authority, inner, checkout, remote, job, writers>> /\ Unchanged

\* Cloudflare names a completed deployment of the commit, and the live pages match
ObserveLive(p) ==
    /\ pc[p] = "observe" /\ Observable(my[p].cand)
    /\ \E time \in 0..now : /\ time < FreshUntil[my[p].cand]
                            /\ my' = [my EXCEPT ![p].completed = time]
    /\ Goto(p, "accept")
    /\ UNCHANGED <<authority, inner, checkout, remote, job, writers>> /\ Unchanged

\* no deployment yet: wait and observe again, or stop after observationMaxElapsedMs
ObservePending(p) ==
    /\ pc[p] = "observe" /\ Observable(my[p].cand)
    /\ Finish(p)
    /\ UNCHANGED <<authority, inner, checkout, remote>> /\ Unchanged

\* the operation was accepted or has failed before
ObserveEnded(p) ==
    /\ pc[p] = "observe"
    /\ \/ /\ operations[my[p].cand].status = "LIVE_ACCEPTED"
          /\ Finish(p)
       \/ /\ operations[my[p].cand].status = "FAILED"
          /\ Finish(p)
    /\ UNCHANGED <<authority, inner, checkout, remote>> /\ Unchanged

\* anything else is an error, as are a deployment that failed or came too late and a live page
\* that does not match; OBSERVE records none
ObserveFails(p) ==
    /\ pc[p] = "observe"
    /\ operations[my[p].cand].status \notin {"LIVE_ACCEPTED", "FAILED"}
    /\ IF job[p] = "observe"
       THEN Finish(p)
       ELSE Goto(p, "fail") /\ UNCHANGED <<job, my, writers>>
    /\ UNCHANGED <<authority, inner, checkout, remote>> /\ Unchanged

RecordAccepted(p) ==
    /\ pc[p] = "accept"
    /\ operations' = [operations EXCEPT ![my[p].cand].status = "LIVE_ACCEPTED",
                                        ![my[p].cand].completed = my[p].completed]
    /\ Finish(p)
    /\ UNCHANGED <<mandate, children, inner, checkout, remote>> /\ Unchanged

\* the process dies; what it has read is gone, the execution lock is taken over from it
Crash(p) ==
    /\ pc[p] # "idle" /\ events < MaxEvents
    /\ events' = events + 1
    /\ Leave(p)
    /\ writers' = writers \ {p}
    /\ UNCHANGED <<now, candidate, authority, inner, receipts, checkout, remote, invoked>>

World == Tick \/ Certify \/ OthersPush
         \/ (\E status \in Decisions : Transition(status))

Prepare(p) ==
    \/ RunReads(p) \/ AuthorizeChild(p) \/ StartPrepare(p) \/ Promote(p) \/ WriteArtifact(p)
    \/ WriteManifest(p) \/ RecordInner(p) \/ BeginBuild(p) \/ Build(p) \/ ConsumeInner(p)

Step(p) ==
    \/ Bind(p) \/ RecordReceipt(p) \/ Settle(p) \/ Command(p) \/ AskToObserve(p) \/ EnterLock(p)
    \/ Prepare(p) \/ Commit(p) \/ RecordCheckpoint(p) \/ Push(p) \/ RecordMain(p)
    \/ RecordFailed(p) \/ ObserveLive(p) \/ ObservePending(p) \/ ObserveEnded(p)
    \/ ObserveFails(p) \/ RecordAccepted(p) \/ Crash(p)

Next == World \/ \E p \in Processes : Step(p)
Spec == Init /\ [][Next]_vars
-----------------------------------------------------------------------------
\* A candidate is pushed at most once, whatever crashes, replays and lost answers there are.
ReleasedOnce ==
    \A i, j \in 1..Len(remote) : remote[i] = remote[j] /\ remote[i] # Others => i = j

\* What has been accepted is on the main branch as the only child commit of the predecessor its
\* first child authorization named, and its deployment completed while the candidate was fresh.
AcceptedIsLive ==
    \A c \in Candidates :
      LET operation == operations[c] IN
      operation.status = "LIVE_ACCEPTED" =>
        /\ operation.child \in children
        /\ operation.commit = Append(operation.child.base, c)
        /\ SubSeq(remote, 1, Len(operation.commit)) = operation.commit
        /\ operation.completed < FreshUntil[c]

\* Two accepted releases were not authorized on one local day, although the limit is only looked
\* at when a child is authorized and a deployment may be accepted much later.
OneAcceptedPerDay ==
    \A c, d \in Candidates :
      /\ operations[c].status = "LIVE_ACCEPTED" /\ operations[d].status = "LIVE_ACCEPTED"
      /\ operations[c].child.day = operations[d].child.day
      => c = d

\* A routine run has the publication command run for it at most once, whatever the crashes.
InvokedOnce == \A c \in Candidates : invoked[c] <= 1

\* A failed operation stays failed and nothing of it is pushed afterwards.
FailedIsFinal ==
    [][\A c \in Candidates : operations[c].status = "FAILED" =>
          /\ operations'[c].status = "FAILED"
          /\ (\E i \in 1..Len(remote') : remote'[i] = c) => OnMain(c)]_vars

\* A run that finds a preparation of the same day interrupted, under a live mandate and with the
\* checkout as the interrupted run left it, goes on with it unless it dies itself.
InterruptedResumes ==
    [][\A p \in Processes :
         /\ pc[p] = "authorize" /\ operations[my[p].cand].status = "PREPARING"
         /\ operations[my[p].cand].child.day = Day(my[p].at)
         /\ ~MandateRefuses(p) /\ my[p].at < FreshUntil[my[p].cand] /\ ~LimitReached(Day(my[p].at))
         => pc'[p] \in {"authorize", "start"} \/ Crash(p)]_vars
=============================================================================
