--------------------------- MODULE RunLockProofs ---------------------------
(***************************************************************************)
(* RunLock, for every set of runs and in every behaviour: crashes, stale   *)
(* locks, races for them and late heartbeats included.                     *)
(***************************************************************************)
EXTENDS RunLock, TLAPS

USE NoOwnerAssumption, AgeAssumption, FaultAssumption
    DEF NoOwnerAssumption, AgeAssumption, FaultAssumption

LEMMA InitType == Init => TypeOK
  BY DEF Init, TypeOK, Dir, Age, Absent, NoBeat, PC, Ended, MaxTries

(* Time neither makes nor removes a directory. *)
LEMMA Ageing ==
    ASSUME NEW dir \in Dir \cup {Absent}
    PROVE  /\ OlderDir(dir) \in Dir \cup {Absent}
           /\ OlderDir(dir) = Absent <=> dir = Absent
<1>1. CASE dir = Absent
  BY <1>1 DEF OlderDir, Older, Absent
<1>2. CASE dir \in Dir
  BY <1>2 DEF OlderDir, Older, Dir, Age, Absent
<1> QED
  BY <1>1, <1>2

LEMMA NextType == TypeOK /\ [Next]_vars => TypeOK'
<1> SUFFICES ASSUME TypeOK, [Next]_vars PROVE TypeOK'
  OBVIOUS
<1> USE DEF TypeOK, Dir, Age, Absent, NoBeat, PC, Ended, MaxTries, GoTo
<1>1. ASSUME NEW r \in Runs, Begin(r) PROVE TypeOK'
  BY <1>1 DEF Begin
<1>2. ASSUME NEW r \in Runs, RunStep(r) PROVE TypeOK'
  <2>1. CASE CreateDir(r) BY <2>1 DEF CreateDir
  <2>2. CASE DirExists(r) BY <2>2 DEF DirExists, NextAttempt
  <2>3. CASE TakeOwnership(r) BY <2>3 DEF TakeOwnership, WriteOwner
  <2>4. CASE OwnershipLost(r) BY <2>4 DEF OwnershipLost
  <2>5. CASE Cleanup(r) BY <2>5 DEF Cleanup, Frees, Holders
  <2>6. CASE Inspect(r) BY <2>6 DEF Inspect
  <2>7. CASE Reclaim(r) BY <2>7 DEF Reclaim, Frees, Holders
  <2>8. CASE ReclaimFails(r) BY <2>8 DEF ReclaimFails, NextAttempt
  <2>9. CASE Finish(r) BY <2>9 DEF Finish
  <2>10. CASE ReleaseReads(r) BY <2>10 DEF ReleaseReads
  <2>11. CASE ReleaseMoves(r) BY <2>11 DEF ReleaseMoves, Frees, Holders
  <2>12. CASE ReleaseVerifies(r) BY <2>12 DEF ReleaseVerifies
  <2> QED
    BY <1>2, <2>1, <2>2, <2>3, <2>4, <2>5, <2>6, <2>7, <2>8, <2>9, <2>10, <2>11, <2>12
       DEF RunStep
<1>3. ASSUME NEW r \in Runs, BeatReads(r) PROVE TypeOK'
  BY <1>3 DEF BeatReads
<1>4. ASSUME NEW r \in Runs, BeatWrites(r) PROVE TypeOK'
  BY <1>4 DEF BeatWrites, WriteOwner
<1>5. ASSUME NEW r \in Runs, Crash(r) PROVE TypeOK'
  BY <1>5 DEF Crash
<1>6. CASE Tick
  <2>1. lock' \in Dir \cup {Absent} /\ quarantine' \in [Runs -> Dir \cup {Absent}]
    BY <1>6, Ageing DEF Tick
  <2>2. acquired' \in [Runs -> Age] /\ beat' \in [Runs -> Age \cup {NoBeat}]
    BY <1>6 DEF Tick, Older
  <2> QED
    BY <1>6, <2>1, <2>2 DEF Tick
<1>7. CASE UNCHANGED vars
  BY <1>7 DEF vars
<1> QED
  BY <1>1, <1>2, <1>3, <1>4, <1>5, <1>6, <1>7 DEF Next

(* The state stays within the type declared for it, whatever goes stale. *)
THEOREM TypeCorrect == Spec => []TypeOK
  BY InitType, NextType, PTL DEF Spec

-----------------------------------------------------------------------------
LEMMA InitIInv == Init => IInv
  BY InitType DEF Init, IInv, OneHolder, HolderHasDir, MovedExists, CleansUpOwn, Holders

(* What a step that frees the name leaves behind: no other run holds it. *)
LEMMA FreeingTakesAll ==
    ASSUME NEW r \in Runs, Frees(r), Holders' \subseteq Holders, r \notin Holders'
    PROVE  (Holders \ taken)' = {}
  BY DEF Frees

LEMMA NextIInv ==
    ASSUME IInv, [Next]_vars
    PROVE  IInv'
<1> USE DEF OneHolder, HolderHasDir, MovedExists, CleansUpOwn
<1>0. TypeOK /\ TypeOK' /\ OneHolder /\ HolderHasDir /\ MovedExists /\ CleansUpOwn
  BY NextType DEF IInv
<1>a. pc \in [Runs -> PC] /\ quarantine \in [Runs -> Dir \cup {Absent}]
  BY <1>0 DEF TypeOK
<1>w. ASSUME NEW r \in Runs, NEW age \in Age
      PROVE  [owner |-> r, age |-> age] # Absent /\ [owner |-> NoOwner, age |-> age] # Absent
  BY DEF Absent, Age
<1> DEFINE Rest == OneHolder /\ HolderHasDir /\ MovedExists /\ CleansUpOwn
<1> SUFFICES Rest'
  BY <1>0 DEF IInv
<1>1. ASSUME NEW r \in Runs, Begin(r) PROVE Rest'
  <2>1. Holders' = Holders
    BY <1>a, <1>1 DEF Begin, GoTo, Holders
  <2> QED
    BY <1>0, <1>a, <1>1, <2>1 DEF Begin, GoTo
<1>2. ASSUME NEW r \in Runs, RunStep(r) PROVE Rest'
  <2>1. CASE CreateDir(r)
    <3>1. Holders \ taken = {} /\ Holders' = Holders \cup {r} /\ taken' = taken
      BY <1>0, <1>a, <2>1 DEF CreateDir, GoTo, Holders
    <3>2. lock' # Absent
      BY <2>1, <1>w DEF CreateDir, Age
    <3>3. \A s \in Runs : pc'[s] \in {"cleanup", "verify"} => pc'[s] = pc[s]
      BY <1>a, <2>1 DEF CreateDir, GoTo
    <3> QED
      BY <1>0, <2>1, <3>1, <3>2, <3>3 DEF CreateDir
  <2>2. CASE DirExists(r)
    <3>1. Holders' = Holders /\ UNCHANGED <<lock, quarantine, taken>>
      BY <1>a, <2>2 DEF DirExists, NextAttempt, GoTo, Holders
    <3>2. \A s \in Runs : pc'[s] \in {"cleanup", "verify"} => pc'[s] = pc[s]
      BY <1>a, <2>2 DEF DirExists, NextAttempt, GoTo
    <3> QED
      BY <1>0, <3>1, <3>2
  <2>3. CASE TakeOwnership(r)
    <3>1. lock' # Absent
      BY <1>0, <2>3, <1>w DEF TakeOwnership, WriteOwner, TypeOK
    <3>2. Holders' = Holders /\ UNCHANGED <<quarantine, taken>>
      BY <1>a, <2>3 DEF TakeOwnership, GoTo, Holders
    <3>3. \A s \in Runs : pc'[s] \in {"cleanup", "verify"} => pc'[s] = pc[s]
      BY <1>a, <2>3 DEF TakeOwnership, GoTo
    <3> QED
      BY <1>0, <3>1, <3>2, <3>3
  <2>4. CASE OwnershipLost(r)
    <3>1. Holders' = Holders \ {r} /\ UNCHANGED <<lock, quarantine, taken>>
      BY <1>a, <2>4 DEF OwnershipLost, GoTo, Holders
    <3>2. r \in taken
      BY <1>0, <2>4 DEF OwnershipLost, Holders
    <3>3. \A s \in Runs : pc'[s] = "verify" => pc'[s] = pc[s]
      BY <1>a, <2>4 DEF OwnershipLost, GoTo
    <3> QED
      BY <1>0, <3>1, <3>2, <3>3
  <2>5. CASE Cleanup(r)
    <3>1. Holders' \subseteq Holders /\ r \notin Holders'
      BY <1>a, <2>5 DEF Cleanup, GoTo, Holders
    <3>2. (Holders \ taken)' = {}
      BY <2>5, <3>1, FreeingTakesAll DEF Cleanup
    <3>3. \A s \in Runs : pc'[s] \in {"cleanup", "verify"} => pc'[s] = pc[s]
      BY <1>a, <2>5 DEF Cleanup, GoTo
    <3> QED
      BY <1>0, <2>5, <3>2, <3>3 DEF Cleanup, Frees
  <2>6. CASE Inspect(r)
    <3>1. PICK to \in {"create", "reclaim", "skipped"} : GoTo(r, to)
      BY <2>6 DEF Inspect
    <3>2. Holders' = Holders /\ UNCHANGED <<lock, quarantine, taken>>
      BY <1>a, <2>6, <3>1 DEF Inspect, GoTo, Holders
    <3>3. \A s \in Runs : pc'[s] \in {"cleanup", "verify"} => pc'[s] = pc[s]
      BY <1>a, <3>1 DEF GoTo
    <3> QED
      BY <1>0, <3>2, <3>3
  <2>7. CASE Reclaim(r)
    <3>1. Holders' \subseteq Holders /\ r \notin Holders'
      BY <1>a, <2>7 DEF Reclaim, GoTo, Holders
    <3>2. (Holders \ taken)' = {}
      BY <2>7, <3>1, FreeingTakesAll DEF Reclaim
    <3>3. \A s \in Runs : pc'[s] \in {"cleanup", "verify"} => pc'[s] = pc[s]
      BY <1>a, <2>7 DEF Reclaim, GoTo
    <3> QED
      BY <1>0, <2>7, <3>2, <3>3 DEF Reclaim, Frees
  <2>8. CASE ReclaimFails(r)
    <3>1. Holders' = Holders /\ UNCHANGED <<lock, quarantine, taken>>
      BY <1>a, <2>8 DEF ReclaimFails, NextAttempt, GoTo, Holders
    <3>2. \A s \in Runs : pc'[s] \in {"cleanup", "verify"} => pc'[s] = pc[s]
      BY <1>a, <2>8 DEF ReclaimFails, NextAttempt, GoTo
    <3> QED
      BY <1>0, <3>1, <3>2
  <2>9. CASE Finish(r)
    <3>1. Holders' = Holders /\ UNCHANGED <<lock, quarantine, taken>>
      BY <1>a, <2>9 DEF Finish, GoTo, Holders
    <3>2. \A s \in Runs : pc'[s] \in {"cleanup", "verify"} => pc'[s] = pc[s]
      BY <1>a, <2>9 DEF Finish, GoTo
    <3> QED
      BY <1>0, <3>1, <3>2
  <2>10. CASE ReleaseReads(r)
    <3>1. Holders' \subseteq Holders /\ UNCHANGED <<lock, quarantine, taken>>
      BY <1>a, <2>10 DEF ReleaseReads, GoTo, Holders
    <3>2. \A s \in Runs : pc'[s] \in {"cleanup", "verify"} => pc'[s] = pc[s]
      BY <1>a, <2>10 DEF ReleaseReads, GoTo
    <3> QED
      BY <1>0, <3>1, <3>2
  <2>11. CASE ReleaseMoves(r)
    <3>1. Holders' \subseteq Holders /\ r \notin Holders'
      BY <1>a, <2>11 DEF ReleaseMoves, GoTo, Holders
    <3>2. (Holders \ taken)' = {}
      BY <2>11, <3>1, FreeingTakesAll DEF ReleaseMoves
    <3>3. \A s \in Runs : pc'[s] = "verify" => quarantine'[s] # Absent
      BY <1>0, <1>a, <2>11 DEF ReleaseMoves, GoTo
    <3>4. \A s \in Runs : pc'[s] = "cleanup" => pc[s] = "cleanup"
      BY <1>a, <2>11 DEF ReleaseMoves, GoTo
    <3>5. taken \subseteq taken'
      BY <2>11 DEF ReleaseMoves, Frees
    <3> QED
      BY <1>0, <3>2, <3>3, <3>4, <3>5
  <2>12. CASE ReleaseVerifies(r)
    <3>1. lock # Absent => lock' # Absent
      BY <1>0, <1>a, <2>12 DEF ReleaseVerifies
    <3>2. Holders' = Holders /\ taken' = taken
      BY <1>a, <2>12 DEF ReleaseVerifies, GoTo, Holders
    <3>3. \A s \in Runs : pc'[s] = "verify" => pc[s] = "verify" /\ quarantine'[s] = quarantine[s]
      BY <1>a, <2>12 DEF ReleaseVerifies, GoTo
    <3>4. \A s \in Runs : pc'[s] = "cleanup" => pc[s] = "cleanup"
      BY <1>a, <2>12 DEF ReleaseVerifies, GoTo
    <3> QED
      BY <1>0, <3>1, <3>2, <3>3, <3>4
  <2> QED
    BY <1>2, <2>1, <2>2, <2>3, <2>4, <2>5, <2>6, <2>7, <2>8, <2>9, <2>10, <2>11, <2>12
       DEF RunStep
<1>3. ASSUME NEW r \in Runs, BeatReads(r) PROVE Rest'
  BY <1>0, <1>3 DEF BeatReads, Holders
<1>4. ASSUME NEW r \in Runs, BeatWrites(r) PROVE Rest'
  <2>1. lock # Absent => lock' # Absent
    BY <1>0, <1>4, <1>w DEF BeatWrites, WriteOwner, TypeOK
  <2> QED
    BY <1>0, <1>4, <2>1 DEF BeatWrites, Holders
<1>5. ASSUME NEW r \in Runs, Crash(r) PROVE Rest'
  <2>1. Holders' \subseteq Holders /\ UNCHANGED <<lock, taken>>
    BY <1>a, <1>5 DEF Crash, GoTo, Ended, Holders
  <2>2. \A s \in Runs : pc'[s] \in {"cleanup", "verify"} =>
          pc'[s] = pc[s] /\ quarantine'[s] = quarantine[s]
    BY <1>a, <1>5 DEF Crash, GoTo, Ended
  <2> QED
    BY <1>0, <2>1, <2>2
<1>6. CASE Tick
  <2>1. lock' = Absent <=> lock = Absent
    BY <1>0, <1>6, Ageing DEF Tick, TypeOK
  <2>2. \A r \in Runs : quarantine'[r] = Absent <=> quarantine[r] = Absent
    BY <1>a, <1>6, Ageing DEF Tick
  <2> QED
    BY <1>0, <1>6, <2>1, <2>2 DEF Tick, Holders
<1>7. CASE UNCHANGED vars
  BY <1>0, <1>7 DEF vars, Holders
<1> QED
  BY <1>1, <1>2, <1>3, <1>4, <1>5, <1>6, <1>7 DEF Next

LEMMA WritersHold == Writers \subseteq Holders
  BY DEF Writers, Holders

(* However many runs compete, crash, leave stale locks or heartbeats behind  *)
(* or take one another's lock away, at most one of those that execute their  *)
(* fn still has the name it made.                                            *)
THEOREM WritersExclude == Spec => []MutualExclusion
<1>1. IInv => MutualExclusion
  BY WritersHold DEF IInv, OneHolder, MutualExclusion
<1>2. IInv /\ [Next]_vars => IInv'
  BY NextIInv
<1> QED
  BY InitIInv, <1>1, <1>2, PTL DEF Spec
-----------------------------------------------------------------------------
(* Only a run whose owner.json is written begins to execute its fn, and a    *)
(* name once taken from a run is not given back to it.                       *)
LEMMA WritersGrow ==
    ASSUME TypeOK, [Next]_vars
    PROVE  /\ taken \subseteq taken'
           /\ \A r \in Writers' \ Writers : TakeOwnership(r)
<1> USE DEF Writers, GoTo
<1>0. pc \in [Runs -> PC]
  BY DEF TypeOK
<1>1. ASSUME NEW r \in Runs, RunStep(r)
      PROVE  taken \subseteq taken' /\ \A s \in Writers' \ Writers : TakeOwnership(s)
  <2>1. taken \subseteq taken'
    BY <1>1 DEF RunStep, CreateDir, DirExists, TakeOwnership, OwnershipLost, Cleanup, Inspect,
                Reclaim, ReclaimFails, Finish, ReleaseReads, ReleaseMoves, ReleaseVerifies, Frees
  <2>2. CASE TakeOwnership(r)
    BY <1>0, <2>1, <2>2 DEF TakeOwnership
  <2>3. CASE ~TakeOwnership(r)
    <3>1. Writers' \subseteq Writers
      BY <1>0, <1>1, <2>3
         DEF RunStep, CreateDir, DirExists, OwnershipLost, Cleanup, Inspect, Reclaim,
             ReclaimFails, NextAttempt, Finish, ReleaseReads, ReleaseMoves, ReleaseVerifies
    <3> QED
      BY <2>1, <3>1
  <2> QED
    BY <2>2, <2>3
<1>2. ASSUME NEW r \in Runs, Begin(r) \/ Crash(r) \/ BeatReads(r) \/ BeatWrites(r)
      PROVE  taken' = taken /\ Writers' \subseteq Writers
  BY <1>0, <1>2 DEF Begin, Crash, BeatReads, BeatWrites, Ended
<1>3. ASSUME Tick \/ UNCHANGED vars
      PROVE  taken' = taken /\ Writers' = Writers
  BY <1>3 DEF Tick, vars
<1> QED
  BY <1>1, <1>2, <1>3 DEF Next

LEMMA WritersStep ==
    ASSUME IInv, [Next]_vars
    PROVE  [Promise!Next]_(Writers \ taken)
<1>0. TypeOK /\ OneHolder
  BY DEF IInv
<1>1. CASE (Writers \ taken)' \subseteq Writers \ taken
  <2>1. SUFFICES ASSUME NEW r \in Writers \ taken, r \notin (Writers \ taken)'
                 PROVE  Promise!Exit(r)
    BY <1>1 DEF Promise!Next, Writers
  <2>2. Writers \ taken = {r}
    BY <1>0, <2>1, WritersHold DEF OneHolder
  <2> QED
    BY <1>1, <2>1, <2>2 DEF Promise!Exit
<1>2. ASSUME NEW r \in (Writers \ taken)', r \notin Writers \ taken
      PROVE  Promise!Enter(r)
  <2>1. taken \subseteq taken' /\ r \notin taken /\ r \notin Writers
    BY <1>0, <1>2, WritersGrow
  <2>2. TakeOwnership(r)
    BY <1>0, <1>2, <2>1, WritersGrow
  <2>3. r \in Runs /\ r \in Holders \ taken
    BY <1>2, <2>1, <2>2 DEF TakeOwnership, Holders, Writers
  <2>4. Writers \ taken = {}
    BY <1>0, <2>1, <2>3, WritersHold DEF OneHolder
  <2>5. \A s \in (Writers \ taken)' : s = r
    <3> SUFFICES ASSUME NEW s \in (Writers \ taken)', s # r PROVE FALSE
      OBVIOUS
    <3>1. TakeOwnership(s)
      BY <1>0, <2>1, <2>4, WritersGrow
    <3>2. s \in Runs /\ s \in Holders \ taken
      BY <2>1, <3>1 DEF TakeOwnership, Holders, Writers
    <3> QED
      BY <1>0, <2>3, <3>2 DEF OneHolder
  <2> QED
    BY <1>2, <2>4, <2>5 DEF Promise!Enter
<1> QED
  BY <1>1, <1>2 DEF Promise!Next, Writers

(* The lock implements SingleWriter, the specification the paid-work and     *)
(* repository models use in its place, for the runs whose name nobody takes. *)
THEOREM ImplementsSingleWriter == Spec => SingleWriterPromise
<1>1. Init => Promise!Init
  BY DEF Init, Promise!Init, Writers
<1>2. IInv /\ [Next]_vars => [Promise!Next]_(Writers \ taken)
  BY WritersStep
<1>3. IInv /\ [Next]_vars => IInv'
  BY NextIInv
<1> QED
  BY InitIInv, <1>1, <1>2, <1>3, PTL DEF Spec, SingleWriterPromise, Promise!Spec

LEMMA FirstTaken ==
    ASSUME IInv, [Next]_vars, taken = {}, taken' # {}
    PROVE  \E r \in Runs : pc[r] = "reclaim" /\ pc'[r] = "create"
<1>0. pc \in [Runs -> PC] /\ OneHolder /\ CleansUpOwn
  BY DEF IInv, TypeOK
<1>1. PICK r \in Runs : Cleanup(r) \/ Reclaim(r) \/ ReleaseMoves(r)
  BY DEF Next, vars, RunStep, Begin, BeatReads, BeatWrites, Crash, Tick, CreateDir, DirExists,
         TakeOwnership, OwnershipLost, Inspect, ReclaimFails, Finish, ReleaseReads,
         ReleaseVerifies
<1>2. ~Cleanup(r)
  BY <1>0 DEF Cleanup, CleansUpOwn
<1>3. CASE Reclaim(r)
  BY <1>0, <1>3 DEF Reclaim, GoTo
<1>4. CASE ReleaseMoves(r)
  <2>1. Holders \subseteq {r}
    BY <1>0, <1>4 DEF ReleaseMoves, OneHolder, Holders
  <2> QED
    BY <1>4, <2>1 DEF ReleaseMoves, Frees
<1> QED
  BY <1>1, <1>2, <1>3, <1>4

(* The first run to lose its name loses it to a reclaim, whatever crashes,   *)
(* beats late or releases a directory that is not its own.                   *)
THEOREM FirstTakenIsReclaimed == Spec => FirstTakenByReclaim
<1>1. IInv /\ [Next]_vars =>
        [taken = {} /\ taken' # {} => \E r \in Runs : pc[r] = "reclaim" /\ pc'[r] = "create"]_taken
  BY FirstTaken
<1>2. IInv /\ [Next]_vars => IInv'
  BY NextIInv
<1> QED
  BY InitIInv, <1>1, <1>2, PTL DEF Spec, FirstTakenByReclaim
=============================================================================
