------------------------------ MODULE RunLock ------------------------------
(***************************************************************************)
(* FileSingleWriterRunLock: the directory lock that makes the file-backed  *)
(* repositories of Mercury single-writer across operating-system processes.*)
(*                                                                         *)
(* A run is one call of runExclusive.  Its owner token is a fresh UUID, so *)
(* the run itself stands for the token.  Each action is one file-system    *)
(* call (or a group of calls between which no other run can tell the       *)
(* difference), so every interleaving of the awaits is a behaviour.        *)
(*                                                                         *)
(* The history variable taken is read by no guard: it remembers from whom  *)
(* a rename or rm of another run has taken the name lockPath.              *)
(*                                                                         *)
(* Time is the age of a timestamp: the difference Date.parse(now) - ts     *)
(* that _isStale compares with staleAfterMs.  Ages stop growing at MaxAge. *)
(* MaxAge = StaleAfter + 1 loses nothing, since every older age is stale   *)
(* too; MaxAge <= StaleAfter restricts the behaviours to those in which no *)
(* timestamp outlives the stale threshold.                                 *)
(***************************************************************************)
EXTENDS Naturals

CONSTANTS
    Runs, NoOwner,
    StaleAfter,        \* staleAfterMs, in ticks
    MaxAge,            \* where ages stop growing
    RenameMayFail      \* may a rename be refused for another reason than ENOENT?

ASSUME NoOwnerAssumption == NoOwner \notin Runs
ASSUME AgeAssumption == /\ StaleAfter \in Nat \ {0}
                        /\ MaxAge \in 1 .. StaleAfter + 1
ASSUME FaultAssumption == RenameMayFail \in BOOLEAN

VARIABLES
    lock,      \* the directory at lockPath: Absent, or its owner.json
    quarantine,\* the directory a release has renamed away, per run
    pc,        \* where each run is
    tries,     \* how often the run has failed to create the directory
    acquired,  \* age of the acquiredAt captured when acquire() began
    beat,      \* age of the timestamp of a heartbeat in flight, or NoBeat
    taken      \* history: the runs that held the name lockPath when another freed it

vars == <<lock, quarantine, pc, tries, acquired, beat, taken>>

Age == 0 .. MaxAge
NoBeat == MaxAge + 1                   \* no heartbeat is between its read and its write
Dir == [owner : Runs \cup {NoOwner}, age : Age]
Absent == [owner |-> NoOwner, age |-> MaxAge + 1]   \* no such directory

Ended == {"completed", "skipped", "failed", "crashed"}
PC == {"new", "create", "writeOwner", "cleanup", "inspect", "reclaim",
       "critical", "release", "move", "verify"} \cup Ended
MaxTries == 3                          \* the attempts of the loop in acquire()

TypeOK ==
    /\ lock \in Dir \cup {Absent}
    /\ quarantine \in [Runs -> Dir \cup {Absent}]
    /\ pc \in [Runs -> PC]
    /\ tries \in [Runs -> 0 .. MaxTries]
    /\ acquired \in [Runs -> Age]
    /\ beat \in [Runs -> Age \cup {NoBeat}]
    /\ taken \subseteq Runs

Init ==
    /\ lock = Absent
    /\ quarantine = [r \in Runs |-> Absent]
    /\ pc = [r \in Runs |-> "new"]
    /\ tries = [r \in Runs |-> 0]
    /\ acquired = [r \in Runs |-> 0]
    /\ beat = [r \in Runs |-> NoBeat]
    /\ taken = {}

(* Mutated: only owner.json can make a directory stale, not its own mtime. *)
StaleOwnerOnly(dir) == dir.owner # NoOwner /\ dir.age > StaleAfter

Stale(dir) == dir.age > StaleAfter

(* owner.json is replaced as a whole: a temporary file in the lock          *)
(* directory renamed over it, which fails when the directory is gone.       *)
WriteOwner(r, age) == lock' = [owner |-> r, age |-> age]

GoTo(r, to) == pc' = [pc EXCEPT ![r] = to]

(* The runs between a successful mkdir and the rename of their release.     *)
Holders == {r \in Runs : pc[r] \in {"writeOwner", "critical", "release", "move"}}

(* r removes or renames whatever directory has the name lockPath now.       *)
Frees(r) ==
    /\ lock' = Absent
    /\ taken' = taken \cup (Holders \ {r})

(* acquire(): acquiredAt is captured once, before the first attempt. *)
Begin(r) ==
    /\ pc[r] = "new"
    /\ GoTo(r, "create")
    /\ acquired' = [acquired EXCEPT ![r] = 0]
    /\ UNCHANGED <<lock, quarantine, tries, beat, taken>>

(* The loop of acquire() gives up as BUSY after its third attempt. *)
NextAttempt(r) ==
    \/ /\ tries[r] < MaxTries
       /\ tries' = [tries EXCEPT ![r] = tries[r] + 1]
       /\ GoTo(r, "inspect")
    \/ tries[r] = MaxTries /\ GoTo(r, "skipped") /\ UNCHANGED tries

(* Mutated: mkdir is recursive, so a directory that exists is no error. *)
CreateDirRecursive(r) ==
    /\ pc[r] = "create"
    /\ lock' = [owner |-> NoOwner, age |-> 0]
    /\ GoTo(r, "writeOwner")
    /\ UNCHANGED <<quarantine, tries, acquired, beat, taken>>

(* mkdir succeeds; the directory has no owner.json yet. *)
CreateDir(r) ==
    /\ pc[r] = "create"
    /\ lock = Absent
    /\ lock' = [owner |-> NoOwner, age |-> 0]
    /\ GoTo(r, "writeOwner")
    /\ UNCHANGED <<quarantine, tries, acquired, beat, taken>>

(* Mutated: EEXIST is an error like any other, after which _tryCreate removes *)
(* lockPath.                                                                 *)
DirExistsCleansUp(r) ==
    /\ pc[r] = "create"
    /\ lock # Absent
    /\ GoTo(r, "cleanup")
    /\ UNCHANGED <<lock, quarantine, tries, acquired, beat, taken>>

(* mkdir fails with EEXIST. *)
DirExists(r) ==
    /\ pc[r] = "create"
    /\ lock # Absent
    /\ NextAttempt(r)
    /\ UNCHANGED <<lock, quarantine, acquired, beat, taken>>

(* _writeOwner succeeds in whatever directory now has the name lockPath. *)
TakeOwnership(r) ==
    /\ pc[r] = "writeOwner"
    /\ lock # Absent
    /\ WriteOwner(r, acquired[r])
    /\ GoTo(r, "critical")
    /\ UNCHANGED <<quarantine, tries, acquired, beat, taken>>

(* _writeOwner fails because the directory has been renamed away. *)
OwnershipLost(r) ==
    /\ pc[r] = "writeOwner"
    /\ lock = Absent
    /\ GoTo(r, "cleanup")
    /\ UNCHANGED <<lock, quarantine, tries, acquired, beat, taken>>

(* _tryCreate then removes lockPath, whoever made it, and throws. *)
Cleanup(r) ==
    /\ pc[r] = "cleanup"
    /\ Frees(r)
    /\ GoTo(r, "failed")
    /\ UNCHANGED <<quarantine, tries, acquired, beat>>

(* _lockTimestampMs and _isStale. *)
Inspect(r) ==
    /\ pc[r] = "inspect"
    /\ GoTo(r, CASE lock = Absent -> "create"
                 [] lock # Absent /\ Stale(lock) -> "reclaim"
                 [] OTHER -> "skipped")
    /\ UNCHANGED <<lock, quarantine, tries, acquired, beat, taken>>

(* rename(lockPath, quarantine) and rm: the directory that is there now. *)
Reclaim(r) ==
    /\ pc[r] = "reclaim"
    /\ lock # Absent
    /\ Frees(r)
    /\ GoTo(r, "create")
    /\ UNCHANGED <<quarantine, tries, acquired, beat>>

(* The rename fails: ENOENT continues the loop, any other error is BUSY. *)
ReclaimFails(r) ==
    /\ pc[r] = "reclaim"
    /\ \/ lock = Absent /\ NextAttempt(r)
       \/ RenameMayFail /\ lock # Absent /\ GoTo(r, "skipped") /\ UNCHANGED tries
    /\ UNCHANGED <<lock, quarantine, acquired, beat, taken>>

(* The interval timer: heartbeat() finds its own token and captures now().  *)
(* One heartbeat of a run is in flight at a time.                           *)
BeatReads(r) ==
    /\ pc[r] = "critical"
    /\ beat[r] = NoBeat
    /\ lock.owner = r
    /\ beat' = [beat EXCEPT ![r] = 0]
    /\ UNCHANGED <<lock, quarantine, pc, tries, acquired, taken>>

(* The heartbeat writes owner.json, or fails when there is no directory.    *)
(* runExclusive does not wait for it: clearInterval stops the timer only.   *)
BeatWrites(r) ==
    /\ beat[r] # NoBeat
    /\ IF lock = Absent THEN UNCHANGED lock ELSE WriteOwner(r, beat[r])
    /\ beat' = [beat EXCEPT ![r] = NoBeat]
    /\ UNCHANGED <<quarantine, pc, tries, acquired, taken>>

(* fn settles; finally clears the timer and calls release(). *)
Finish(r) ==
    /\ pc[r] = "critical"
    /\ GoTo(r, "release")
    /\ UNCHANGED <<lock, quarantine, tries, acquired, beat, taken>>

(* release() reads owner.json and stops unless the token is its own. *)
ReleaseReads(r) ==
    /\ pc[r] = "release"
    /\ GoTo(r, IF lock.owner = r THEN "move" ELSE "completed")
    /\ UNCHANGED <<lock, quarantine, tries, acquired, beat, taken>>

(* release() renames lockPath, which by now may be another directory. *)
ReleaseMoves(r) ==
    /\ pc[r] = "move"
    /\ quarantine' = [quarantine EXCEPT ![r] = lock]
    /\ Frees(r)
    /\ GoTo(r, IF lock = Absent THEN "completed" ELSE "verify")
    /\ UNCHANGED <<tries, acquired, beat>>

(* Mutated: lockPath is removed, not what the release has moved. *)
ReleaseRemovesPath(r) ==
    /\ pc[r] = "verify"
    /\ \/ quarantine[r].owner = r /\ lock' = Absent
       \/ /\ quarantine[r].owner # r
          /\ \/ lock.owner = NoOwner /\ lock' = quarantine[r]
             \/ lock # Absent /\ UNCHANGED lock
    /\ quarantine' = [quarantine EXCEPT ![r] = Absent]
    /\ GoTo(r, "completed")
    /\ UNCHANGED <<tries, acquired, beat, taken>>

(* The moved owner.json decides: remove the directory, or try to put back   *)
(* one that is not ours.  POSIX lets the rename replace an empty directory, *)
(* Windows does not; over a directory with an owner.json it always fails.   *)
ReleaseVerifies(r) ==
    /\ pc[r] = "verify"
    /\ \/ quarantine[r].owner = r /\ UNCHANGED lock
       \/ /\ quarantine[r].owner # r
          /\ \/ lock.owner = NoOwner /\ lock' = quarantine[r]
             \/ lock # Absent /\ UNCHANGED lock
    /\ quarantine' = [quarantine EXCEPT ![r] = Absent]
    /\ GoTo(r, "completed")
    /\ UNCHANGED <<tries, acquired, beat, taken>>

(* The process dies between any two calls; the files stay. *)
Crash(r) ==
    /\ pc[r] \notin Ended \cup {"new"} \/ beat[r] # NoBeat
    /\ GoTo(r, IF pc[r] \in Ended THEN pc[r] ELSE "crashed")
    /\ beat' = [beat EXCEPT ![r] = NoBeat]
    /\ quarantine' = [quarantine EXCEPT ![r] = Absent]
    /\ UNCHANGED <<lock, tries, acquired, taken>>

Acquiring == {"create", "writeOwner", "inspect", "reclaim"}
Older(age) == IF age < MaxAge THEN age + 1 ELSE age
OlderDir(dir) == [dir EXCEPT !.age = Older(dir.age)]

Tick ==
    /\ lock' = OlderDir(lock)
    /\ quarantine' = [r \in Runs |-> OlderDir(quarantine[r])]
    /\ acquired' = [r \in Runs |-> IF pc[r] \in Acquiring THEN Older(acquired[r])
                                                         ELSE acquired[r]]
    /\ beat' = [r \in Runs |-> Older(beat[r])]
    /\ UNCHANGED <<pc, tries, taken>>

RunStep(r) ==
    \/ CreateDir(r) \/ DirExists(r) \/ TakeOwnership(r) \/ OwnershipLost(r) \/ Cleanup(r)
    \/ Inspect(r) \/ Reclaim(r) \/ ReclaimFails(r)
    \/ Finish(r) \/ ReleaseReads(r) \/ ReleaseMoves(r) \/ ReleaseVerifies(r)

Next ==
    \/ \E r \in Runs : Begin(r) \/ RunStep(r) \/ BeatReads(r) \/ BeatWrites(r) \/ Crash(r)
    \/ Tick

Spec == Init /\ [][Next]_vars

(* A run that does not crash keeps taking steps: its promises settle and its *)
(* fn returns.                                                               *)
FairSpec == Spec /\ \A r \in Runs : WF_vars(RunStep(r)) /\ WF_vars(BeatWrites(r))

(***************************************************************************)
(* Timely behaviours: no run that is alive lets a timestamp it answers for *)
(* pass the stale threshold, so whatever is stale was left by a crash.     *)
(***************************************************************************)
Timely ==
    /\ \A r \in Runs :
         /\ pc[r] \in Acquiring => acquired[r] <= StaleAfter
         /\ pc[r] \in {"critical", "release", "move"} /\ lock.owner = r => ~Stale(lock)
    /\ lock.owner = NoOwner /\ (\E r \in Runs : pc[r] = "writeOwner") => ~Stale(lock)

TimelySpec == Init /\ [][Next /\ (Tick => Timely')]_vars

Writers == {r \in Runs : pc[r] = "critical"}

(* What holds of every behaviour, crashed owners, reclaimed locks, late      *)
(* heartbeats and mistaken releases included: of the runs that execute their *)
(* fn at the same time, at most one still has the name it made.              *)
MutualExclusion == \A r, s \in Writers \ taken : r = s

(* And until the name is taken from a live run, the runs execute one at a    *)
(* time.  The first to be taken from loses it to a reclaim: no release, no   *)
(* removal after a failed mkdir or write, and no heartbeat that comes after  *)
(* its run's release, starts the trouble.                                    *)
FirstTakenByReclaim ==
    [][ taken = {} /\ taken' # {} => \E r \in Runs : pc[r] = "reclaim" /\ pc'[r] = "create" ]_taken

(* The runs whose name nobody has taken enter and leave as the single-writer *)
(* promise says; one that loses its name leaves.                             *)
Promise == INSTANCE SingleWriter WITH writers <- Writers \ taken
SingleWriterPromise == Promise!Spec

(* What the repositories rely on: no two runs execute their fn at once.  It *)
(* holds until the name is taken from a live run.                           *)
OneWriter == \A r, s \in Writers : r = s

(* A run that executes its fn owns the token on disk, which is what lets   *)
(* its heartbeat refresh the lock and its release remove it.               *)
TokenOnDisk == \A r \in Writers : lock.owner = r

(***************************************************************************)
(* Why: at most one holder has not been taken from, and the name is there  *)
(* as long as one has not.  What a release has moved away is a directory,  *)
(* so putting it back frees no name; and a run removes the name after a    *)
(* failed write only when its own has been taken.                          *)
(***************************************************************************)
OneHolder == \A r, s \in Holders \ taken : r = s
HolderHasDir == Holders \ taken # {} => lock # Absent
MovedExists == \A r \in Runs : pc[r] = "verify" => quarantine[r] # Absent
CleansUpOwn == taken = {} => \A r \in Runs : pc[r] # "cleanup"

IInv == TypeOK /\ OneHolder /\ HolderHasDir /\ MovedExists /\ CleansUpOwn

(* A stale lock does not shut the repositories for ever: a run that tries   *)
(* to acquire it when all others have ended, before or after a crash, gets  *)
(* it unless it crashes itself.                                             *)
OrphanRecovered ==
    \A r \in Runs :
        /\ pc[r] = "create" /\ tries[r] = 0
        /\ lock # Absent /\ lock.age > StaleAfter
        /\ \A s \in Runs \ {r} : pc[s] \in Ended /\ beat[s] = NoBeat
        ~> pc[r] \in {"critical", "crashed"}

=============================================================================
