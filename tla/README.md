# Hardware Radar: a TLA+ verification project

Hardware Radar publishes prices of computer hardware.  Behind the public site is a set of
JavaScript packages that buy market data from a paid provider (DataForSEO), download retailer
feeds (Rakuten / Newegg over SFTP), turn them into observations, and release certified price
artifacts to the production site.  Everything is persisted in JSON files and two SQLite
databases; several operating-system processes (operator CLIs, scheduled tasks) work on the same
files.  What can go wrong is therefore mostly a matter of order: two processes in the same file,
a crash between a paid call and the record of it, an authority used twice, a stale lease.

This directory holds TLA+ models of that machinery, the TLC runs that check them and the
theorems TLAPS proves about them.

## 1. Inventory

| Part (src/packages/...) | State it keeps | Operations | What makes it correct |
| --- | --- | --- | --- |
| `mercury/runtime` run lock | a directory `lockPath` with `owner.json` | acquire, heartbeat, release, runExclusive | one writer at a time; an orphan is recovered |
| `mercury/acquisition` planning, authorization, execution | authorization consumptions, execution ledger, provider-task ledger | plan, evaluate the LIVE gate, consume, execute, append | no plan is paid for twice, spend stays below the ceilings, the ledger accounts for every paid call |
| `mercury/acquisition/recovery`, `execution/AcquisitionFailureDiagnostic` | none (pure) | classify an interrupted paid action | never calls a paid action safe to repeat |
| `mercury/bounded` | SQLite: plans, parent and child authorities, dispositions, runs with members, task supervision | prepare, authorize, start, resume, progress existing tasks, dispose, supervise | one run per plan, one provider task per member, checkpoints recover every member, existing-task progression never pays |
| `mercury/persistence`, `ingestion` | observation state file (sequence, observations) | allocate id, accept, purge, read | ids unique, idempotent accept, expired material removed |
| `mercury/operations` Newegg routine | the authority file (mandates, acquisitions, reattempt approvals, children), the bootstrap file, the run file | create, renew, pause, revoke, authorize, acquire, record, promote, refresh, dispose | what refreshes Current is receipted, one completed FULL per local day of a mandate, every reattempt approved |
| `mercury/current-display` | SFTP lease directory, connection registry, SQLite catalog, price snapshots | acquire, release, reserve, download, execute a refresh | one connection, one active snapshot, no stale snapshot displaces a newer one |
| `mercury/repeat-observation`, `portfolio`, `historical-*`, `amazon-dataforseo`, `scale-ramp` | preparations, child authorities, run states | prepare, authorize, execute, recover | as the bounded run |
| `mercury/canonical-admission` | the authorization file: authorizations, active ones, supersessions, consumptions | prepare, supersede, execute | one live authorization per evidence, a chain every operator can read, truthful consumptions |
| `mercury/review`, `publication`, `current-market`, `live` | authorization files, review decisions, publication decisions; the snapshot of a build | prepare, execute, evaluate, create a snapshot | decisions follow one another, each authorized once; a build shows only what is published, reviewed and fresh |
| `mercury/curated-offer`, `destinations`, `identity-review`, `condition-evidence`, `rights` | decision files | record | a decision is recorded once and never rewritten |
| `mercury` engines (Confidence, Freshness, HistoricalIntelligence, validators, `market/dataforseo` normalisation) | none (pure) | score, classify, normalise | bounds, monotonicity, thresholds |
| `sentinel/core`, `types`, `validators` | rule registry, validation run | register, run, aggregate | order-independent verdict, terminal runs stay terminal |
| `sentinel/publication`, with the post-success binding of the routine | mandate, children and operations; inner authorizations; the release checkout; receipts | authorize, promote, build, commit, push, observe, accept, bind | one accepted release per local day, nothing pushed twice, a failure is final |
| `atlas` | catalogue documents, manifests | create, update, archive, import | referential integrity of product, brand, category, retailer |
| `beacon` | interest events | record, purge | retention |
| `gateway` | Cloudflare release operations, one-use authorizations | authorize, deploy | single use |
| `apps/forge`, `public/js`, `scripts` | browser state, command lines | projections of the above, operator commands | the packages decide; these render and call |

Interactions.  A command line composes an acquisition run: it takes the run lock, evaluates the
authorization gate, consumes the single-use authorization, and lets the controlled executor POST
to the provider task by task.  The task ledger and the execution ledger record what was paid.
The bounded coordinator does the same per member under a parent authority, with checkpoints in
SQLite so that a later process resumes.  Supervision polls the tasks that exist.  Provider
results become observations through ingestion, validation and acceptance; snapshots of accepted
prices are certified by Sentinel and released through the publication coordinator.  The daily
routine downloads a retailer's file under its recurring mandate, promotes the lineage that file
begins, refreshes Current from it, and its binding asks the publication command for one release.
Evidence that is kept is admitted, under an authorization of its own, into the observation file
that the ingestion of curated offers writes too.  An observation is reviewed, then published or
withdrawn, each time under a single-use authorization bound to what was assessed; a build of the
site evaluates every published one again and shows the cheapest that qualify.

The hard behaviours are listed, each at its line, under `hazards` in `PROJECT.json`.

## 2. Modules

| Module | Of | Proofs |
| --- | --- | --- |
| `SingleWriter` | what the run lock promises; `RunLock` implements it, the others rely on it | |
| `RunLock` | `runtime/FileSingleWriterRunLock.js` | `RunLockProofs` |
| `PaidAcquisition` | authorization, consumption, controlled executor, both ledgers, recovery assessment | `PaidAcquisitionProofs` |
| `BoundedRun` | the bounded coordinator, its member checkpoints, dispositions, supervision's check | `BoundedRunProofs` |
| `NeweggRoutine` | the recurring authority, the live lineage, the routine command, dispositions | `NeweggRoutineProofs` |
| `PublicationSaga` | mandate, release operation, checkout, push, observation, post-success binding | `PublicationSagaProofs` |
| `CanonicalAdmission` | admission authorizations and the observation file with its ingestion and readers | `CanonicalAdmissionProofs` |
| `MarketDecisions` | governed review and publication decisions, and the snapshot a build makes of them | `MarketDecisionsProofs` |
| `SentinelRun` | rule registry, validation run, rules' answers, decision | `SentinelRunProofs` |

Each `MC...` module instantiates the module of its name for TLC.  The order in which they were
written follows what an error costs: money paid twice, a release pushed twice, data lost, a
verdict too mild.

What a team would take up next: the lease, the pacing and the batches of the supervision queue;
the SFTP lease with its connection accounting; an abstract payment promise that `PaidAcquisition`
implements (a request is bought at most once per key, a charge is recorded or its run is
unfinished).  Why the rest is left out is said under `components` in `PROJECT.json` and in
section 7.

## 3. How the modules correspond to the code

One convention throughout: a variable is a file, a table or what an invocation has in memory, and
an action is one durable read or write with everything the code does between it and the next one.
Between two actions of one process any other process may step.  A file that is changed under the
run lock changes in one step; one that is not is read and written in two.  `map` in `PROJECT.json`
gives the lines of every definition.  A definition whose comment begins with "Mutated:" is a
plausible bug in the one that follows it; no specification uses it.

`RunLock` (`runtime/FileSingleWriterRunLock.js`).  `lock` is the directory at `lockPath` with its
`owner.json`; a run is one call of `runExclusive` and stands for its own token.  `CreateDir`,
`DirExists`, `TakeOwnership`, `Inspect`, `Reclaim` are the loop of `acquire()`; `BeatReads` and
`BeatWrites` the two halves of `heartbeat()`; `ReleaseReads`, `ReleaseMoves`, `ReleaseVerifies`
those of `release()`.  Time is the age of a timestamp, advanced by `Tick` and capped at `MaxAge`.
The code does not keep two runs from executing at once (section 5), so the properties have to say what
it does keep: the history variable `taken` collects the runs whose directory another run has moved or
removed while they held it.  `MutualExclusion` and the refinement speak of the runs outside `taken`,
in every behaviour, and `FirstTakenByReclaim` says how the set ceases to be empty.

`SingleWriter` is what the other components rely on: one `fn` at a time.  Their models assume it.

`PaidAcquisition` (`acquisition/authorization`, `acquisition/execution`, the task ledger and
`DataForSeoAcquisitionService`, `GovernedDailySpend`, `PaidActionRecovery`).  `consumed`, `ledger`,
`taskLedger` are the three files; `created` and `told` record what the provider really did.
`ConsumeReads` and `ConsumeWrites` are the two halves of `consume()`, which holds no lock;
`Acquire` to `AppendWrites` is the controlled executor under the run lock, with one action for the
budget check, the request-key check, the POST, the answer, the record in the task ledger, and the
read and the write of the execution ledger.  `Faults` lets processes die anywhere and ledger
writes fail; `Overlap` says whether two processes may be inside `consume()` at once.  A process
that dies in the lock leaves `writers`: what the stale lock of a dead process allows in the
meantime is the subject of `RunLock`.  Two history variables tell a defect from its consequences:
`overwritten` collects the consumptions another `consume()` has written over, `interrupted` the
requests a run of which ended without an entry in the execution ledger.

`BoundedRun` (`bounded/NeutralBoundedPaidActionCoordinator.js`, `SqliteNeutralBoundedRepository.js`,
`ProductsIdentityDiscoveryDomainAdapter.js`, `ProductionGoogleProductsDiscoverySourceOwner.js`,
`TasklessChildAuthorityDisposition.js`, `BoundedExistingTaskProgression.js`).  `members` are the
rows, `view` the run a process has read, `row` the member it carries from one checkpoint to the
next: `updateMember()` writes the row it carries, whatever the table holds.  `Start`, `Resume`
(through `RecoverNothing`, `RecoverChild`, `Revive`), `Progress` and `Check` are the commands;
`RecordArtifact`, `RecordChild`, `MarkAuthorized`, `Consume`, `Acquire`, `Post`,
`AppendExecution`, `SaveExecuted`, `Retrieve`, `RecordResult`, `SaveMember` are the checkpoints of
one member; `Conclude` writes the run's state; `Dispose` and `Assess` are a disposition.  Here
`consume()` is one step, since `PaidAcquisition` looks inside it, and the controlled executor is
reduced to the task of one member.  The history variable `contested` collects the members disposed
of while a process that had consumed their child had still to buy, `stranded` those RESUME has
refused though their task is recorded.

`NeweggRoutine` (`operations/NeweggRoutineRecurringAuthority.js`, `NeweggRoutineLiveLineageBootstrap.js`,
`NeweggRoutineProductionCommand.js`, `ProductionNeweggRoutineOperatorCommand.js`).  A process is one
RUN_LIVE command.  `mandates`, `acquisitions`, `approvals` and `children` are the authority file,
`boot` the bootstrap file, `active` the run file, `current` and `applied` what Current was made
from.  `Start` is the operator command's own look at the mandate, `Execute` to `Close` are
`execute()` of the bootstrap: `Authorize` and `Intent` before the download, `Acquire` for its
answer, `Complete` or `Fail` in the authority file, `RecordArtifact` or `RecordFailure` in the
bootstrap file, `Prepare`, `History` and `Promote` for the lineage, `Routine`, `Refresh`, `Stage` and
`Finish` for the routine, which holds the run lock, and `ConsumeCurrent`, `ConsumeHistory` and
`Close`.  An operation is named by its mandate and its day, as the code's digest is.
`DisposePrepare`, `DisposeReview` and `DisposeFinish` are the three writes of a disposition, made
while a command may be alive.  A calendar of half days keeps the operating window apart from the
hours around it.

`PublicationSaga` (`sentinel/publication/UnattendedLivePricePublication.js`,
`ProductionUnattendedPublicationBindings.js`, `CertifiedCandidateReleasePromotion.js`,
`GovernedLivePricePublication.js`, `operations/NeweggRoutinePostSuccessPublication.js`).  A process
is an invocation: a binding, a RUN or an OBSERVE.  A commit is the sequence of candidates that led
to it; `head`, `tracking` and `remote` are the checkout's head, what it last saw of the main branch,
and that branch.  `Bind`, `RecordReceipt` and `Settle` are the binding; `Command` the production
command, `EnterLock` the execution lock; `RunReads` to `ConsumeInner` a preparation, up to the one
commit; `RecordCheckpoint`, `Push`, `RecordMain` the events after it; the `Observe...` actions what
observing answers.  A push may arrive and be answered with an error.  What TLC showed on the way
and no document contradicts:

- a crash after the manifest was written makes the command answer ALREADY_DEPLOYED from then on,
  though nothing was pushed: the checkout names the candidate as its release;
- a run that resumes on another local day has another child, and fails after its push, since the
  observation compares the commit with the first child;
- a mandate paused while a deployment is pending makes the observation fail: the operation ends
  FAILED and its release stays live;
- freshness and mandate are looked at before the commit and when observing, not before the push.

`CanonicalAdmission` (`canonical-admission/`, `persistence/FileObservationAcceptanceRepository.js`,
`ingestion/IngestionService.js`).  The authorization file is four variables written under the run
lock; `Supersede` reads without it and `RecordSuccessor` checks again under it.  `store` is the
observation file: `Allocating`/`Allocate`, `Accepting`/`Accept` and `Purging`/`Purge` are the read and
the write of each of its changes.  A queue keeps those pairs apart only for the callers of one
repository object, and every command line has one of its own, so any two commands may be between
read and write at once.  Two history variables record how that went: `settled` is the file when last no
command was between its read and its write, `turns` is `"kept"` while never two have been.  A property
that needs one writer at a time is conditional on `turns`; `AcceptedForGood` is not, and says of every
behaviour that what was in `settled` is never lost.

`MarketDecisions` (`publication/`, `review/`, `current-market/CurrentMarketObservationQualificationService.js`).
A process is one command, PREPARE or EXECUTE of one decision, or one build.  The two authorization
files, both alike, are `authorizations` and `consumptions`; `reviews` and `decisions` are the decision
files, an identifier being the place among those on the observation.  `ReadReview`, `ReadPredecessor`
and then `Draw` (PREPARE) or `AssertBinding` (EXECUTE) are an assessment, whose files are read at
once and in any order; `RecordAuthorization`, `RecordReview` and `Consume` are changes under the run
lock; `Evaluate`, `Check` and `RecordDecision` are `authorizePublish()` and the two halves of
`recordDecision()`, which holds no lock and queues within one repository object only.  `standing` and
`turns` are here what `settled` and `turns` are in `CanonicalAdmission`.
`Look`, `Judge` and `Snapshot` are a build.  What a qualification finds of rights, condition and
confidence is `market`, changed by `Requalify`; `unsettled` remembers what changed while a build
ran, since a build that reads one file after another cannot be held to what moved meanwhile.

`SentinelRun` (`sentinel/core`, `types`, `validators`).  `Register`, `Unregister` and `Clear` change the
registry while a run goes on, as a rule may; `Begin` reads it; `CallRule` is one rule with every
answer it can give, its normalisation and the error result that replaces an exception; `EndStage`
hands a stage's results over, `AbortStage` replaces them by one error; `Complete` decides.  `blamed`
remembers the severity of every failure, so that a decision can be held against it.

## 4. Runs

| Run | Question | Bounds |
| --- | --- | --- |
| `runlock_exclusion` | do the runs nobody has taken the lock from exclude one another and implement `SingleWriter`, and what is the first to take it, with crashes, stale locks, refused renames and late heartbeats? | 3 runs, stale after 1 tick |
| `runlock_recovery` | does a lone run get a stale lock, with or without `owner.json`? | 2 runs, stale after 1 tick |
| `paid_serial` | is nothing bought twice, are the ledgers sound and is at most the last charge missing, with crashes and faults, if `consume()` is not overlapped? | 2 processes, 3 requests, 2 days |
| `paid_racing` | is nothing bought twice, and only under a consumption, with overlap and no faults? | 2 processes, 3 requests, 1 day |
| `bounded` | is a member bought once, are its checkpoints true, is a disposition final, is a paid task found again, with every command overlapping and crashes? | 2 processes, 1 member, 1 authority |
| `routine` | is what refreshes Current receipted and authorized, every reattempt approved, a day completed once, with overlapping commands and dispositions? | 2 processes, 2 mandates, 2 artifacts, 2 days, 3 attempts, 4 commands |
| `publication` | is a candidate released once, accepted only when live and in time, one per day, and is a failure final? | 2 invocations, 2 candidates, 2 ticks, days of 1 tick, 1 crash or pause, 1 foreign commit |
| `publication_resume` (violation) | does an interrupted preparation go on? | same, 3 ticks, days of 2 |
| `admission` | is there one live authorization and a readable chain, are consumptions truthful, what of the accepted is kept when two processes write? | 2 processes, 1 evidence, 1 offer, 2 bindings, 1 tick, 2 identifiers, 1 successor |
| `market` | do decisions follow one another, do consumptions name them, what of the history is kept when two processes write, and does a build show what may be shown? | 2 commands or builds, 2 observations published before, 1 tick, 2 reviews and 3 decisions of each, 6 authorizations |
| `market_review` (violation) | is what is shown published under the review that is effective? | same, 5 authorizations |
| `sentinel` | is every failure in the decision and every rule answered? | a core set of one rule, an extension set of two |

Why the bounds are enough.  Lock: reclaiming the wrong directory needs a dead owner and two
contenders, hence three runs; every age above the threshold behaves alike, so one tick above it
is all of them.  Paid acquisition: two processes are what a race needs; of the three requests two
share a key (the task ledger's duplicate check), one has two tasks (the ceiling within a run) and
one carries a paid-action intent; a task is estimated at 1 and charged 1 or 2, a run may cost 3
and a day 4, so both ceilings are reached and exceeded by one overcharge; two days are one
midnight, which the ceilings of `paid_serial` need and the race does not.  Bounded run: every
property speaks of one member, and what endangers it is a second command on the same one, of
whatever kind.  That one member waits while another is bought, fails or is disposed is in
`BoundedCrash.cfg`, with two; the theorems have any number and every overlap.
Routine: two commands overlap, the second mandate is a renewal, two artifacts let two commands of
one operation disagree about the file, two days are a midnight between any two steps, and four
commands are a failure, its approval and two more.  Publication: candidate `c` is fresh until tick
`c`, so the first goes stale while the second is certified; a day of one tick makes the midnight
and the expiry fall anywhere; crash and decision share one event, since each alone reaches every
property.  Admission: with one tick an authorization expires under a command that read it; two
bindings are one change of mind.  Market: both
observations are published at the start; one is withdrawn and published again, which takes two more
decisions, the other rejected and requalified, while its cheaper neighbour goes stale after the first
instant, so the limit of one offer displaces, and stops displacing, the dearer; an authorization
lives one tick.  Sentinel: an ill-formed rule in the extension set makes a stage throw after answers
were collected.  The
theorems of section 6 hold for every value of these bounds.

Two runs have a state constraint, both called `Bounded`.  It limits nothing while `turns` is kept.
Once two commands have written at once, `admission` goes on with root authorizations and one
unchanged binding only, `market` without builds and without an observation that ceases to qualify:
what is lost from the file then does not depend on either, and every property but `AcceptedForGood`,
`HistoryKept` and those of the authorization file is about the time before.  Two runs have a view:
`runlock_exclusion` leaves out ages and attempts no later step reads, `paid_racing` the histories
`told` and `interrupted`, which neither its properties nor any guard read.

Further configurations are kept beside the runs.  Two pass and widen a run: `BoundedCrash.cfg`
(`CheckpointsBacked` and `ProgressionNeverBuys` over two members, START and RESUME one at a time) and
`PaidFaults.cfg` (`ConsumedBeforeTransport` and `ChargeKept` with overlap and faults together, over the
two plans that share a task).  The others end in the violation of the property they name.  They
show what the code does, and sit beside a property of a run that says how far it goes:

| Configuration | Violated | What the run's property keeps |
| --- | --- | --- |
| `RunLockReclaim.cfg` | `OneWriter`, although every live heartbeat is in time | `MutualExclusion`, `FirstTakenByReclaim` |
| `RunLockToken.cfg` | `TokenOnDisk` | the same: it breaks no exclusion by itself |
| `AdmissionLost.cfg` | `EnvelopesRemain` | `AcceptedForGood` |
| `MarketLost.cfg` | `DecisionsRemain` | `HistoryKept` |
| `PaidLost.cfg` | `ConsumptionShown` | `ConsumedBeforeTransport` |
| `PaidReplay.cfg` | `PaidOnce`, with overlap and a crash | `PaidOnce`, with either alone |
| `PaidUncharged.cfg` | `EveryChargeKept` | `ChargeKept` |
| `BoundedDisposal.cfg` | `DispositionTaskless` | `DispositionFinal` |
| `BoundedExpiry.cfg` | `ExpiryStrandsNothing` | `RecordedTaskFound`, `PaidTaskRecovered` |
| `BoundedStop.cfg` | `SystemicStopKept` | |
| `RoutineRecovery.cfg` | `RecoveryCallsNoProvider` | |
| `RoutineReattempt.cfg` | `ApprovedReattemptProceeds` | |
| `MarketWithdraw.cfg` | `Withdrawable` | |
| `MarketBound.cfg` | `PublishedUnderBoundReview` | |

The type invariants of the modules with proofs are theorems, and all runs but `sentinel` leave them
out.

`CHECK_DEADLOCK FALSE` is in most configurations because the systems may stop: all runs have
ended, every plan has been executed, the commands or events are used up.  In those of
`CanonicalAdmission`, `SentinelRun` and `MarketDecisions` a command, a run or a build can always begin, and
deadlock is checked.  Symmetry is used over processes and other interchangeable values in runs
without liveness.

Fairness.  `FairSpec` of `RunLock`: a run that has not crashed keeps taking its next step and its
heartbeat in flight completes, as promises settle and `fn` returns.  `RetrySpec` of `BoundedRun`: an
invocation goes on unless it dies, for the same reason, and an operator gives RESUME until it is
taken up (strong fairness, since other commands come in between); `PaidTaskRecovered` assumes beyond
that only that processes do not die for ever.  Crashes, heartbeats, clocks, expiry and every other
command of an operator are not fair anywhere.  Liveness is `OrphanRecovered` and `PaidTaskRecovered`;
the other properties are safety.

Every checked property also has a mutant under `mutants`, a plausible bug in a mapped definition
that makes the run fail.

## 5. Findings

Two runs disagree with what a test or a document of the repository says; the quotation is in
`PROJECT.json`.

- A run that resumes an interrupted preparation at any later instant contradicts its own stored
  child, since `authorizedAt` is compared though it is not part of the identity
  (`publication_resume`).
- A build shows a published observation under whatever review is effective: after a second review
  the publication no longer references it, and ADR-017 asks that it does (`market_review`).

The further configurations show:

- A lock judged stale is renamed away by name: a slow contender takes away the fresh lock of a
  fast one and both execute (`RunLockReclaim.cfg`).  IC-DATAFORSEO-003E:12 asks that a run
  which finds another live owner performs no acquisition writes.
- A heartbeat in flight outlives the release and writes its token into the next owner's lock
  (`RunLockToken.cfg`).
- `accept()` and `purgeExpired()` replace the whole observation file: of two processes that accept at
  once the second drops the observation and the audit envelope of the first, which
  ADR-014:14 says remains (`AdmissionLost.cfg`).
- `recordDecision()` does the same to the publication decisions, which IC-FORGE-MERCURY-005:15 calls
  append-only (`MarketLost.cfg`).
- `consume()` reads and replaces its file without a lock: one of two consumptions is lost, and a
  task is bought under an authorization the file shows as unconsumed (`PaidLost.cfg`); two invocations
  of one authorization, and a crash of the first after its POST, buy the task twice
  (`PaidReplay.cfg`).
- When the task ledger cannot be written, the charge the provider has told is lost to the day's
  spend, which IC-DATAFORSEO-004B:20 wants accounted for (`PaidUncharged.cfg`).
- A child is consumed before the lock is taken, so a disposition can come between, and the task is
  bought after it (`BoundedDisposal.cfg`).
- The check of one member concludes a run a systemic failure has stopped (`BoundedStop.cfg`).
- Recovery asks for a live child before it looks for a recorded task, so the expiry of the authority
  strands a task that is paid for (`BoundedExpiry.cfg`).
- The reattempt an operator approves belongs to the same operation of the day, which has failed:
  the next command refuses it (`RoutineReattempt.cfg`).
- Recovery of a completed acquisition calls the provider once more (`RoutineRecovery.cfg`).
- An authorization to withdraw occupies its intent for good: when it expires, or the review changes
  before it is executed, no other can be drawn up against the same publication, which can then not
  be withdrawn by the governed command (`MarketWithdraw.cfg`).
- The binding of a PUBLISH is asserted before the review is read for the draft: a review recorded in
  between is the one the decision names (`MarketBound.cfg`).

And read off the code while modelling, without a document that says otherwise: a renewed mandate
counts its own acquisitions only, so a retailer's day may have two completed ones across a
renewal; two overlapping commands both download; no code writes the terminal transport evidence
a clean disposition asks for, so every disposition ends ACQUISITION_REVIEW_REQUIRED; after a crash
between a publication decision and the consumption of its authorization, giving the command again
ends in a changed binding, and the authorization stays unconsumed; an
acquisition under review may still be completed by the live run; an extension Sentinel does not
know is validated by the core rules alone.

## 6. Proofs

`RunLockProofs`.  Every theorem is about every behaviour, with crashes, stale locks and late
heartbeats.  Exclusion of the runs outside `taken` is not inductive as it stands: a run that has made
the directory but not yet written its owner counts, and so does one that releases; these and the
writers are the `Holders`.  `IInv` says that at most one holder is outside `taken`, that the
directory exists while there is one (so `mkdir` makes no second), that what a release has moved away
is a directory, so that putting it back frees no name, and that as long as nobody has been taken from,
nobody is removing the name after a failed write.  While nobody has been taken from, a run that
releases is the only holder, so it moves its own directory: hence the first to be taken from loses it
to a reclaim.  In the refinement a run that is taken from leaves the single-writer specification as
if it had ended.

`PaidAcquisitionProofs`.  `IInv` holds in every behaviour: the run lock keeps one process between
check and append, that process has read the ledger as it is, and what it may still spend fits the
ceilings; from it follow the ceilings, the immutability of the execution ledger and that a
recorded key is never bought again.  Two more need no assumption.  `ConsumedBeforeTransport`: whoever
is past its consumption has its mark in the file or in `overwritten` (`OwnersMarked`).  `ChargeKept`
(`ToldIsKnown`, `ToldInRun`): what the provider told for a plan is in the run that bought the task, or
about to be added to it, or the last task of that run has failed, and that run is in the lock or in
the ledger or has made its plan `interrupted`.  `PaidOnce` is proved under either of two assumptions,
and `PaidReplay.cfg` shows that it needs one.  `SerialInv`, under `Overlap = FALSE`, says that a
process between its consumption and its last step owns the request alone and has bought nothing
ahead of its own progress.  `RacingInv`, under `Faults = FALSE` with overlap,
says instead that whatever was bought is in the ledger or in the hands of the process in the lock.
`SafeMeansUnpaid` needs neither to be strengthened but a fact of every
behaviour, `StoppedInv`: a run whose first task failed before its request has ended, and that task
was never bought for its plan.  With "a run in the lock has bought nothing ahead of its progress", which
both `SerialInv` and `RacingInv` give for their own reason, that is the assessment's SAFE answer: it
holds with crashes and failing writes when `consume()` is not overlapped, and with overlap when
nothing fails.

`BoundedRunProofs`.  `IInv` holds for all values of `Overlap`, `Faults` and `Supervision` and
any number of processes and members.  Three groups of conjuncts: the buy (a member is consumed
before anything is bought and by one owner, which has not bought it yet); the rows (a row, in the
table or carried by a process, that names a task is backed by both ledgers); and what START has
left untouched and progression has seen as settled, which is why progression never buys.  That a
loop has a next member is a lemma: a non-empty set of numbers has a least one.  `DispositionFinal`
needs no assumption either.  Its invariant `DisposalInv` says that only consumed children are disposed
of, and only once the authority has expired; that whoever consumed a child and may still buy is not at a
disposed member, unless that is contested; and that a member START may come to buy for is unpaid
by its row, or bought and recorded already, which a disposed one is not.  `RecordedTaskFound` combines
both invariants: whatever is recorded was consumed, whatever was consumed has its artifact and its
child (`ConsumedReachable`), and nothing is disposed of while the authority lives.

`NeweggRoutineProofs`.  `IInv` is stated in the module and was checked by TLC first.  The
conjunct that carries it is `CommandSound`: what a command relies on by the step it is at (its
acquisition and its record exist; past the record, its artifact is the recorded one; past the
preparation, it is receipted and has its child; past the refresh, it was applied).  `Grows` says that
nothing any other command does takes such a fact back, which makes the frame of every action one
lemma.  `RecordSound` and `AppliedSound` say the same of the files when no command is alive.  The
count of a day needs more: of a mandate's acquisitions of a day at most one is standing
(`OneCurrent`), their numbers are their ranks (`Ranked`), and each number above one has a consumed
approval (`ApprovalsSound`); from these come `OneCompletedPerDay` and `EveryReattemptApproved`.
`ReceiptFinal`, that a completed acquisition is never changed, is proved too and in no run.

`CanonicalAdmissionProofs`.  The authorization file needs no assumption: the active authorization
of an evidence is its youngest, every other is superseded and has expired (`ChainSound`).  A
successor is recorded only for an expired active predecessor, so two live ones cannot be, and
the supersessions form one chain.  Of the observation file two things are said.  In every behaviour
what a command holds between its read and its write has all that `settled` has (`SettledKept`), since
`settled` does not move while a command is there; so no late write loses it, which is
`AcceptedForGood`.  While `turns` is kept, one command at a time is between its read and its write, and
works on the file as it is (`QueueSound`), hence no write loses another: the file only grows (`Grows`), a
key that has an identifier keeps it, and what a command in the middle of an admission knows of the file
stays true.  `turns` once broken stays broken (`TurnsKept`), so a step that ends in a kept
state began in one, and the invariant needs to be carried through those steps only.

`MarketDecisionsProofs`.  `IInv` adds to the types what a process holds where it is (`Fits`), and
needs no assumption, nor does `HistoryKept`: what a command that is recording has read extends
`standing` (`StandingKept`), and reviews change under the run lock.  The rest is said of the time
`turns` is kept, as in the proofs above.  What has to be explained is that recording a
decision looks at no predecessor.  The argument is `FollowsTheLast`: an authorization in the file
follows decisions that exist, and is the only one of its intent (`AuthoritySound`); had another
decision followed the same predecessor it would be of an authorization with the same intent
(`FilesSound`, `DecisionsChained`), hence of this one, and the command would be answered that
decision.  So an authorization without a decision follows the last decision there is.  That the
file a command writes back is the file as it is comes from `QueueSound`; that what a command has
read stays true while the files grow, from `FilesGrow`.  What a build shows (`SnapshotFaithful`) is
the end of `BuildsInv`: of the observations the build has been through, those still to be shown are
exactly the showable ones (`Looking`), whatever it has not been through is untouched, and what
changed meanwhile is in `unsettled`.  The limit is a statement about cardinalities: taking the
dearest away as long as there are more than `MaxOffers` leaves at most `MaxOffers`, and below
whatever is taken away there are `MaxOffers` left (`CheapestBounded`, `CheapestDisplace`).  These
lemmas and the theorem need `Offers` to be finite, which `OffersAssumption` says: the observations
are the entries of a file.

`PublicationSagaProofs`.  `IInv` relates an invocation to the files by where it is (`Fits`,
`WorkSound`): the one in the execution lock works on the youngest candidate with an operation,
which is neither failed nor accepted; until it commits, head and tracked branch are the base it
read; from the commit to the push the head is that base and the candidate.  `HistorySound` says
that what the checkout has seen on the main branch has a recorded checkpoint, and that the last
candidate's checkpoint is the head.  So a commit always appends a candidate that is not in the
history (`ReleasedOnce`), and a push that arrived unnoticed can only be repeated from its own
predecessor, which the branch no longer is.  `OperationsSound` keeps the days apart: an operation
is created only when its day has no accepted one, and by then the older ones can be accepted no
more, since only the last candidate is observed as live.  That is the argument behind
`OneAcceptedPerDay`; the limit alone, looked at long before acceptance, would not give it.
`NoneAssumption` there says that the mark for "no commit" is not a commit.

`SentinelRunProofs`.  `RunInv` gives a run its type and says two things of a run that goes on.
`Blamed`: each failure so far is an answer of the stage or of the run with that severity, or a stage
was aborted and its CRITICAL error is among the results.  `Counted`: answers and rules to be called
add up to the rules of the stage, which depend on the snapshot and never on the registry.  Both
speak of `RulesIn`, so that its values are sequences of rules had to be proved, over any registry.

Two of these proofs go through data by induction: what `RulesIn` collects, and the greatest member
of a finite set.  The library's induction theorems take an operator as a parameter and no installed
prover can instantiate it; both are proved in set form instead, from the least element of the set of
counterexamples, which `WellFoundedInduction` states for sets.

All theorems hold for every value of the constants the named assumptions allow.  Every safety and
action property a passing run checks is stated by one of them, and so is the refinement of
`SingleWriter`.  The only hypotheses on the environment are `Overlap = FALSE` or `Faults = FALSE`, for
`PaidOnce` and `SafeMeansUnpaid`; each is stated in the theorem, and `PaidReplay.cfg` shows what
happens without both.  What is only model-checked is liveness (`OrphanRecovered`, `PaidTaskRecovered`),
which is beyond the prover.

## 7. What is abstracted or left out

- Expiry of an acquisition authorization is an event that closes the gate; the window between the
  gate and the POST is not timed.
- In `BoundedRun` the parent budget and the readiness policy are a nondeterministic refusal
  (`RefusedHere`).
- Digests, identifiers and the content of plans, files, artifacts and results stand for
  themselves: two values are equal or not.  A tampered file is not modelled.
- The provider creates a task or refuses; its answer arrives or is lost.  What it returns later is
  a state of the result, not its content.  Likewise the download of the routine, the deployment
  Cloudflare reports and the scripts of a build are answers.
- Clocks do not go back, but for the completion of a Sentinel run, which the code guards.
- Bounded Amazon work and the processing of a canonical result after it is recorded.
- Of the market decisions: the commands `review:record` and `publication:record`, which write without
  an authorization; HOLD, which behaves as REJECTED; the anomalies of an admission; what makes a
  product or a retailer publicly comparable; scopes other than one.
- The supervision queue: its leases decide when a member is checked, and `BoundedRun` lets that be
  at any time and by any process.
- The SFTP lease and the Atlas repositories repeat the shapes of `RunLock` and of a guarded write;
  their own hazards (a lease directory without an owner that nobody recovers, a record and a
  manifest written one after the other) are a line of code each.
- Everything else is listed as `not_modelled` under `components` with its reason.  Most of the
  repository's lines are of that kind: field validation, normalisation, scoring, rendering and
  command-line plumbing over data the models abstract, where examples in a test say as much as a
  model would.  The models cover the code in which the order of steps decides.
